--------------------------- MODULE Reports_proofs ---------------------------
(***************************************************************************)
(* Proofs about the report commands, run one at a time: what each of them  *)
(* shows is of the harness, the corpus and the tree it was made for, for   *)
(* any harnesses, objects, corpora and plans.                              *)
(***************************************************************************)
EXTENDS Reports, TLAPS

Binaries == Modes \union {"none"}
Begun == {"idle", "compile", "link", "stamp", "built"}
Later == {"replay", "merge", "show", "trace", "bear", "emit", "export", "assemble", "view",
          "clean .objects", "clean callgrind-out", "clean coverage-report",
          "clean fuzz_harness_*"}
Commands == [pc : Begun \union Later, mode : Binaries, asked : Requests, next : Nat, stamps : BOOLEAN]
Tasks == [corpus : Corpora \union {NoCorpus}, with : BOOLEAN, left : SUBSET Dirs]

-----------------------------------------------------------------------------
(***************************************************************************)
(* The invariant, in parts: the cached binaries, the profiles, the    *)
(* bitcode, the outputs of callgrind.                                      *)
(***************************************************************************)
CacheTypeOK ==
    /\ objs \in [1 .. Len(Objects) -> [mode : Binaries, name : Requests]]
    /\ exe \in [Modes -> [modes : SUBSET Binaries, name : Requests]]
    /\ stamp \in [Cached -> Requests \union {Unset}]
    /\ proc \in [Procs -> Commands]

\* What a command compiles an object for.
Wanted(c) == [mode |-> proc[c].mode, name |-> Built(proc[c].asked)]

\* The objects behind the next one are those of the command that compiles.
Compiled(c) ==
    /\ proc[c].pc = "compile" =>
         /\ proc[c].next \in 1 .. Len(Objects)
         /\ \A i \in 1 .. proc[c].next - 1 : objs[i] = Wanted(c)
    /\ proc[c].pc = "link" => \A i \in 1 .. Len(Objects) : objs[i] = Wanted(c)

\* A command that builds has a mode, and one that stamps a mode with a stamp.
Building(c) ==
    /\ proc[c].pc = "idle" => proc[c] = Idle
    /\ proc[c].pc \in {"compile", "link"} => proc[c].mode \in Modes
    /\ proc[c].pc \in {"compile", "link"} /\ proc[c].stamps => proc[c].mode \in Cached
    /\ proc[c].pc = "stamp" =>
         proc[c].mode \in Cached /\ exe[proc[c].mode].name = Built(proc[c].asked)

\* The stamp of a binary names its harness, unless it was linked without one.
StampsAreTrue ==
    \A m \in Cached :
        m \notin unstamped /\ exe[m] # NoExe => exe[m].name = Built(stamp[m])

CacheInv(c) ==
    /\ CacheTypeOK /\ Compiled(c) /\ Building(c)
    /\ StampsAreTrue /\ ReportsAskedHarness /\ OneMode

\* The profile of a replay of this command.
Own(c) == [name |-> exe["coverage"].name, dirs |-> Replayed(task[c].corpus)]

TaskTypeOK == task \in [Procs -> Tasks]

CoverageInv(c) ==
    /\ relinked \in BOOLEAN
    /\ proc[c].pc = "replay" => raw = {}
    /\ proc[c].pc = "merge" => raw \subseteq {Own(c)}
    /\ proc[c].pc = "show" => merged = {Own(c)}
    /\ ~relinked /\ exe["coverage"] # NoExe =>
         \A p \in merged : p.name = exe["coverage"].name
    /\ proc[c].pc = "assemble" => exe["coverage"] # NoExe

\* A tree is traced from clean on, or the trace was cut.
BitcodeInv(c) ==
    /\ cut \in BOOLEAN
    /\ cdb = "partial" => cut
    /\ BitcodeCoversTree
    /\ proc[c].pc = "bear" => tree = "cleaned"

\* A directory of the corpus that was replayed has its output, or lost it to one
\* of the same name.
Covered(c, d) ==
    \/ callgrind[OutputOf(d)] = d
    \/ \E e \in Collected(task[c].corpus) \ {d} : e[2] = d[2]

CallgrindInv(c) ==
    /\ callgrind = [n \in DirNames |-> callgrind[n]]
    /\ proc[c].mode = "profile" =>
         /\ task[c].left \subseteq Collected(task[c].corpus)
         /\ \A d \in Collected(task[c].corpus) \ task[c].left : Covered(c, d)
    /\ proc[c].pc = "view" => proc[c].mode = "profile" /\ task[c].left = {}
    /\ proc[c].pc \in {"clean .objects", "clean callgrind-out"} => proc[c].mode = "none"

ReportsInv(c) ==
    CacheInv(c) /\ TaskTypeOK /\ CoverageInv(c) /\ BitcodeInv(c) /\ CallgrindInv(c)

-----------------------------------------------------------------------------
(***************************************************************************)
(* The cached binaries.                                                    *)
(***************************************************************************)

\* Any request is for a harness.
LEMMA BuiltName == ASSUME NEW asked \in Requests PROVE Built(asked) \in Names
BY DefaultAssumption DEF Built, Requests

\* The stamp a command writes names the harness it built.
LEMMA StampName ==
    ASSUME NEW mode \in Cached, NEW asked \in Requests
    PROVE  /\ StampOf(mode, asked) \in Requests
           /\ Built(StampOf(mode, asked)) = Built(asked)
BY DefaultAssumption DEF StampOf, Built, Requests

\* A command is put together of its parts.
LEMMA CommandType ==
    ASSUME NEW pc \in Begun \union Later, NEW mode \in Binaries, NEW asked \in Requests, NEW next \in Nat,
           NEW stamps \in BOOLEAN
    PROVE  [pc |-> pc, mode |-> mode, asked |-> asked, next |-> next, stamps |-> stamps]
             \in Commands
BY DEF Commands

\* A process that does nothing runs no command.
LEMMA IdleType == Idle \in Commands /\ Idle.pc = "idle" /\ Idle.mode = "none"
<1>1. "none" \in Binaries /\ None \in Requests /\ "idle" \in Begun
  BY DEF Binaries, Requests, Begun
<1>2. Idle.pc = "idle" /\ Idle.mode = "none"
  BY DEF Idle
<1> QED
  BY <1>1, <1>2, CommandType DEF Idle

\* A step that only goes on keeps the rest of the command.
LEMMA GotoType ==
    ASSUME CacheTypeOK, NEW c \in Procs, NEW pc \in Begun \union Later, Goto(c, pc)
    PROVE  /\ proc' \in [Procs -> Commands]
           /\ proc'[c] = [proc[c] EXCEPT !.pc = pc]
           /\ proc'[c].pc = pc /\ proc'[c].mode = proc[c].mode
           /\ proc'[c].asked = proc[c].asked /\ proc'[c].stamps = proc[c].stamps
BY DEF CacheTypeOK, Commands, Goto

\* Steps that use the binary, or none, leave the part of the caches alone.
LEMMA CacheQuiet ==
    ASSUME NEW c, Procs = {c}, CacheInv(c), UNCHANGED <<objs, exe, stamp, unstamped>>,
           \/ \E pc \in Later : Goto(c, pc)
           \/ proc' = [proc EXCEPT ![c] = Idle]
           \/ UNCHANGED proc
    PROVE  CacheInv(c)'
<1>1. CASE UNCHANGED proc
  BY <1>1 DEF CacheInv, CacheTypeOK, Compiled, Building, StampsAreTrue, ReportsAskedHarness,
              OneMode, Wanted
<1>2. CASE \E pc \in Later : Goto(c, pc)
  <2>1. PICK pc \in Later : Goto(c, pc)
    BY <1>2
  <2>2. proc' \in [Procs -> Commands] /\ proc'[c].pc = pc
    BY <2>1, GotoType DEF CacheInv
  <2> QED
    BY <2>2 DEF Later, CacheInv, CacheTypeOK, Compiled, Building, StampsAreTrue,
                ReportsAskedHarness, OneMode
<1>3. CASE proc' = [proc EXCEPT ![c] = Idle]
  <2>1. proc' \in [Procs -> Commands] /\ proc'[c] = Idle /\ proc'[c].pc = "idle"
    BY <1>3, IdleType DEF CacheInv, CacheTypeOK
  <2> QED
    BY <2>1 DEF CacheInv, CacheTypeOK, Compiled, Building, StampsAreTrue, ReportsAskedHarness,
                OneMode
<1> QED
  BY <1>1, <1>2, <1>3

\* A command that begins to build starts with the first object.
LEMMA StartLinkCache ==
    ASSUME NEW c, Procs = {c}, CacheInv(c), NEW mode \in Linkable, NEW asked \in Requests,
           StartLink(c, mode, asked)
    PROVE  CacheInv(c)'
<1> DEFINE new == [pc |-> "compile", mode |-> mode, asked |-> asked, next |-> 1,
                   stamps |-> FALSE]
<1>1. new \in Commands
  <2>1. mode \in Binaries /\ "compile" \in Begun
    BY DEF Binaries, Linkable, Modes, Begun
  <2> QED
    BY <2>1, CommandType
<1>2. proc' \in [Procs -> Commands] /\ proc'[c] = new
  BY <1>1 DEF CacheInv, CacheTypeOK, StartLink
<1> QED
  BY <1>2, ObjectsAssumption
  DEF CacheInv, CacheTypeOK, Compiled, Building, StampsAreTrue, ReportsAskedHarness, OneMode,
      StartLink, Linkable, Modes

\* A report that reuses a binary is right to: its stamp names the harness.
LEMMA StartReportCache ==
    ASSUME NEW c, Procs = {c}, CacheInv(c), NEW mode \in Cached, NEW asked \in Requests,
           StartReport(c, mode, asked)
    PROVE  CacheInv(c)'
<1> DEFINE pc == IF UpToDate(mode, asked) THEN "built" ELSE "compile"
<1> DEFINE new == [pc |-> pc, mode |-> mode, asked |-> asked, next |-> 1, stamps |-> TRUE]
<1>1. new \in Commands
  <2>1. mode \in Binaries /\ pc \in Begun
    BY DEF Binaries, Cached, Modes, Begun
  <2> HIDE DEF pc
  <2> QED
    BY <2>1, CommandType
<1>2. proc' \in [Procs -> Commands] /\ proc'[c] = new
  BY <1>1 DEF CacheInv, CacheTypeOK, StartReport
<1>3. CASE UpToDate(mode, asked)
  <2>1. mode \notin unstamped => exe[mode].name = Built(asked)
    BY <1>3, StampName DEF UpToDate, CacheInv, StampsAreTrue
  <2> QED
    BY <1>2, <1>3, <2>1
    DEF CacheInv, CacheTypeOK, Compiled, Building, StampsAreTrue, ReportsAskedHarness, OneMode,
        StartReport
<1>4. CASE ~UpToDate(mode, asked)
  BY <1>2, <1>4, ObjectsAssumption
  DEF CacheInv, CacheTypeOK, Compiled, Building, StampsAreTrue, ReportsAskedHarness, OneMode,
      StartReport, Cached, Modes
<1> QED
  BY <1>3, <1>4

\* Compiling goes through the objects in order.
LEMMA CompileCache ==
    ASSUME NEW c, Procs = {c}, CacheInv(c), CompileObject(c)
    PROVE  CacheInv(c)'
<1> DEFINE n == proc[c].next
<1> DEFINE pc == IF n = Len(Objects) THEN "link" ELSE "compile"
<1>1. proc[c] \in Commands /\ proc[c].pc = "compile" /\ n \in 1 .. Len(Objects)
  BY DEF CacheInv, CacheTypeOK, Compiled, CompileObject
<1>2. /\ proc' = [proc EXCEPT ![c] = proc'[c]]
      /\ proc'[c].pc = pc /\ proc'[c].next = n + 1 /\ proc'[c].mode = proc[c].mode
      /\ proc'[c].asked = proc[c].asked /\ proc'[c].stamps = proc[c].stamps
  BY <1>1 DEF CacheInv, CacheTypeOK, CompileObject, Commands
<1>3. proc'[c] \in Commands
  <2>1. proc'[c] = [[proc[c] EXCEPT !.next = n + 1] EXCEPT !.pc = pc]
    BY <1>1 DEF CacheInv, CacheTypeOK, CompileObject, Commands
  <2>2. [proc[c] EXCEPT !.next = n + 1] \in Commands
    BY <1>1, ObjectsAssumption DEF Commands
  <2>3. pc \in Begun
    BY DEF Begun
  <2> QED
    BY <2>1, <2>2, <2>3 DEF Commands
<1>4. proc' \in [Procs -> Commands]
  BY <1>2, <1>3 DEF CacheInv, CacheTypeOK
<1>5. Wanted(c)' = Wanted(c) /\ Wanted(c) \in [mode : Binaries, name : Requests]
  BY <1>1, <1>2, BuiltName DEF Wanted, Commands, Requests
<1>6. objs' = [objs EXCEPT ![n] = Wanted(c)]
  BY DEF CompileObject, Wanted
<1>7. /\ objs' \in [1 .. Len(Objects) -> [mode : Binaries, name : Requests]]
      /\ \A i \in 1 .. n : objs'[i] = Wanted(c)
  BY <1>1, <1>5, <1>6, ObjectsAssumption DEF CacheInv, CacheTypeOK, Compiled
<1>8. Compiled(c)'
  BY <1>1, <1>2, <1>5, <1>7, ObjectsAssumption DEF Compiled
<1>9. Building(c)'
  BY <1>1, <1>2 DEF CacheInv, Building
<1> QED
  BY <1>1, <1>2, <1>4, <1>7, <1>8, <1>9
  DEF CacheInv, CacheTypeOK, StampsAreTrue, ReportsAskedHarness, OneMode, CompileObject

\* What is linked has the mode and the name of the command.
LEMMA LinkCache ==
    ASSUME NEW c, Procs = {c}, CacheInv(c), LinkHarness(c)
    PROVE  CacheInv(c)'
<1> DEFINE mode == proc[c].mode
<1>1. proc[c] \in Commands /\ proc[c].pc = "link" /\ mode \in Modes
  BY DEF CacheInv, CacheTypeOK, Building, LinkHarness
<1>2. Linked = [modes |-> {mode}, name |-> Built(proc[c].asked)]
  <2>1. DOMAIN objs = 1 .. Len(Objects) /\ 1 \in 1 .. Len(Objects)
    BY ObjectsAssumption DEF CacheInv, CacheTypeOK
  <2>2. \A i \in DOMAIN objs : objs[i].mode = mode /\ objs[i].name = Built(proc[c].asked)
    BY <1>1, <2>1 DEF CacheInv, Compiled, Wanted
  <2> QED
    BY <2>1, <2>2 DEF Linked
<1>3. exe' = [exe EXCEPT ![mode] = Linked]
  BY DEF LinkHarness
<1>4. exe' \in [Modes -> [modes : SUBSET Binaries, name : Requests]]
  BY <1>1, <1>2, <1>3, BuiltName DEF CacheInv, CacheTypeOK, Binaries, Requests, Commands
<1>5. exe'[mode] = Linked /\ \A m \in Modes \ {mode} : exe'[m] = exe[m]
  BY <1>1, <1>3 DEF CacheInv, CacheTypeOK
<1>6. OneMode'
  BY <1>2, <1>5 DEF OneMode, CacheInv
<1>7. StampsAreTrue'
  BY <1>1, <1>5 DEF CacheInv, StampsAreTrue, LinkHarness, Cached, Modes
<1>8. CASE proc[c].stamps
  <2>1. Goto(c, "stamp")
    BY <1>8 DEF LinkHarness
  <2>2. /\ proc' \in [Procs -> Commands] /\ proc'[c].pc = "stamp"
        /\ proc'[c].mode = mode /\ proc'[c].asked = proc[c].asked
    BY <2>1, GotoType DEF CacheInv, Begun
  <2>3. mode \in Cached
    BY <1>1, <1>8 DEF CacheInv, Building
  <2> QED
    BY <1>2, <1>4, <1>5, <1>6, <1>7, <2>2, <2>3
    DEF CacheInv, CacheTypeOK, Compiled, Building, ReportsAskedHarness, LinkHarness
<1>9. CASE ~proc[c].stamps
  <2>1. proc' \in [Procs -> Commands] /\ proc'[c] = Idle /\ proc'[c].pc = "idle"
    BY <1>9, IdleType DEF CacheInv, CacheTypeOK, LinkHarness
  <2> QED
    BY <1>4, <1>6, <1>7, <2>1
    DEF CacheInv, CacheTypeOK, Compiled, Building, ReportsAskedHarness, LinkHarness
<1> QED
  BY <1>8, <1>9

\* The stamp that is written is that of the binary that was linked.
LEMMA WriteStampCache ==
    ASSUME NEW c, Procs = {c}, CacheInv(c), WriteStamp(c)
    PROVE  CacheInv(c)'
<1> DEFINE mode == proc[c].mode
<1>1. proc[c] \in Commands /\ mode \in Cached /\ exe[mode].name = Built(proc[c].asked)
  BY DEF CacheInv, CacheTypeOK, Building, WriteStamp
<1>2. /\ proc' \in [Procs -> Commands] /\ proc'[c].pc = "built"
      /\ proc'[c].mode = mode /\ proc'[c].asked = proc[c].asked
  BY GotoType DEF CacheInv, WriteStamp, Begun
<1>3. /\ StampOf(mode, proc[c].asked) \in Requests
      /\ Built(StampOf(mode, proc[c].asked)) = Built(proc[c].asked)
  BY <1>1, StampName DEF Commands
<1>4. /\ stamp' \in [Cached -> Requests \union {Unset}]
      /\ stamp'[mode] = StampOf(mode, proc[c].asked)
      /\ \A m \in Cached \ {mode} : stamp'[m] = stamp[m]
  BY <1>1, <1>3 DEF CacheInv, CacheTypeOK, WriteStamp
<1>5. StampsAreTrue'
  BY <1>1, <1>3, <1>4 DEF CacheInv, StampsAreTrue, WriteStamp
<1> QED
  BY <1>1, <1>2, <1>4, <1>5
  DEF CacheInv, CacheTypeOK, Compiled, Building, ReportsAskedHarness, OneMode, WriteStamp

\* Objects are removed by a command that builds nothing.
LEMMA CleanObjectsCache ==
    ASSUME NEW c, Procs = {c}, CacheInv(c), CleanObjects(c)
    PROVE  CacheInv(c)'
<1>1. /\ proc' \in [Procs -> Commands]
      /\ proc'[c].pc = "clean callgrind-out"
  BY GotoType DEF CacheInv, CleanObjects, Later
<1>2. NoObject \in [mode : Binaries, name : Requests]
  BY DEF NoObject, Binaries, Requests
<1>3. objs' \in [1 .. Len(Objects) -> [mode : Binaries, name : Requests]]
  BY <1>2 DEF CacheInv, CacheTypeOK, CleanObjects
<1> QED
  BY <1>1, <1>3
  DEF CacheInv, CacheTypeOK, Compiled, Building, StampsAreTrue, ReportsAskedHarness, OneMode,
      CleanObjects

\* A binary that is gone is of no harness; its stamp is that of none.
LEMMA CleanHarnessesCache ==
    ASSUME NEW c, Procs = {c}, CacheInv(c), CleanHarnesses(c)
    PROVE  CacheInv(c)'
<1>1. CASE /\ UNCHANGED <<proc, task>>
           /\ \E m \in Modes : exe[m] # NoExe /\ exe' = [exe EXCEPT ![m] = NoExe]
  <2>1. PICK gone \in Modes : exe' = [exe EXCEPT ![gone] = NoExe]
    BY <1>1
  <2>2. NoExe \in [modes : SUBSET Binaries, name : Requests] /\ NoExe.modes = {}
    BY DEF NoExe, Requests
  <2>3. /\ exe' \in [Modes -> [modes : SUBSET Binaries, name : Requests]]
        /\ exe'[gone] = NoExe /\ \A m \in Modes \ {gone} : exe'[m] = exe[m]
    BY <2>1, <2>2 DEF CacheInv, CacheTypeOK
  <2>4. OneMode'
    BY <2>2, <2>3 DEF CacheInv, OneMode
  <2>5. StampsAreTrue'
    BY <2>3 DEF CacheInv, StampsAreTrue, CleanHarnesses, Cached, Modes
  <2>6. proc' = proc /\ proc[c].pc = "clean fuzz_harness_*"
    BY <1>1 DEF CleanHarnesses
  <2> QED
    BY <2>3, <2>4, <2>5, <2>6
    DEF CacheInv, CacheTypeOK, Compiled, Building, ReportsAskedHarness, CleanHarnesses
<1>2. CASE exe' = exe /\ Return(c)
  BY <1>2, CacheQuiet DEF CleanHarnesses, Return
<1> QED
  BY <1>1, <1>2 DEF CleanHarnesses

-----------------------------------------------------------------------------
(***************************************************************************)
(* Steps that leave a part of the invariant alone.                         *)
(***************************************************************************)

\* A command that returns works on nothing.
LEMMA ReturnType ==
    ASSUME NEW c, Procs = {c}, CacheInv(c), TaskTypeOK, Return(c)
    PROVE  /\ proc' = [proc EXCEPT ![c] = Idle]
           /\ proc'[c].pc = "idle" /\ proc'[c].mode = "none"
           /\ TaskTypeOK'
<1>1. NoTask \in Tasks
  BY DEF NoTask, Tasks
<1> QED
  BY <1>1, IdleType DEF CacheInv, CacheTypeOK, TaskTypeOK, Return

\* The profiles are those of the command as long as it does not go on with them.
LEMMA CoverageQuiet ==
    ASSUME NEW c, CoverageInv(c), UNCHANGED <<exe, coverageVars>>,
           \/ UNCHANGED <<proc, task>>
           \/ proc'[c].pc \notin {"replay", "merge", "show", "assemble"}
    PROVE  CoverageInv(c)'
BY DEF CoverageInv, coverageVars, Own

\* The bitcode is of the tree as long as neither is made.
LEMMA BitcodeQuiet ==
    ASSUME NEW c, BitcodeInv(c), UNCHANGED bitcodeVars,
           UNCHANGED proc \/ proc'[c].pc # "bear"
    PROVE  BitcodeInv(c)'
BY DEF BitcodeInv, bitcodeVars, BitcodeCoversTree

\* The outputs are those of the corpus as long as the command keeps to it.
LEMMA CallgrindQuiet ==
    ASSUME NEW c, CallgrindInv(c), UNCHANGED callgrind,
           \/ UNCHANGED <<proc, task>>
           \/ /\ proc'[c].pc \notin {"view", "clean .objects", "clean callgrind-out"}
              /\ \/ proc'[c].mode # "profile"
                 \/ proc'[c].mode = proc[c].mode /\ task' = task
    PROVE  CallgrindInv(c)'
BY DEF CallgrindInv, Covered

Elsewhere == {"trace", "emit", "export", "clean coverage-report", "clean fuzz_harness_*"}

\* A command that goes on to another part, returns or does something else disturbs
\* none of it.
LEMMA Quiet ==
    ASSUME NEW c, Procs = {c}, ReportsInv(c), UNCHANGED <<objs, exe, stamp, unstamped>>,
           UNCHANGED <<coverageVars, bitcodeVars, callgrind>>,
           \/ \E pc \in Elsewhere : Goto(c, pc) /\ task' = task
           \/ Return(c)
           \/ UNCHANGED <<proc, task>>
    PROVE  ReportsInv(c)'
<1>1. CASE \E pc \in Elsewhere : Goto(c, pc) /\ task' = task
  <2>1. PICK pc \in Elsewhere : Goto(c, pc) /\ task' = task
    BY <1>1
  <2>2. pc \in Later
    BY DEF Elsewhere, Later
  <2>3. proc'[c].pc = pc /\ proc'[c].mode = proc[c].mode
    BY <2>1, <2>2, GotoType DEF ReportsInv, CacheInv
  <2>4. CacheInv(c)'
    BY <2>1, <2>2, CacheQuiet DEF ReportsInv
  <2>5. TaskTypeOK'
    BY <2>1 DEF ReportsInv, TaskTypeOK
  <2>6. CoverageInv(c)' /\ BitcodeInv(c)' /\ CallgrindInv(c)'
    BY <2>1, <2>3, CoverageQuiet, BitcodeQuiet, CallgrindQuiet DEF ReportsInv, Elsewhere
  <2> QED
    BY <2>4, <2>5, <2>6 DEF ReportsInv
<1>2. CASE Return(c)
  <2>1. /\ proc' = [proc EXCEPT ![c] = Idle]
        /\ proc'[c].pc = "idle" /\ proc'[c].mode = "none" /\ TaskTypeOK'
    BY <1>2, ReturnType DEF ReportsInv
  <2>2. CacheInv(c)'
    BY <2>1, CacheQuiet DEF ReportsInv
  <2>3. CoverageInv(c)' /\ BitcodeInv(c)' /\ CallgrindInv(c)'
    BY <2>1, CoverageQuiet, BitcodeQuiet, CallgrindQuiet DEF ReportsInv
  <2> QED
    BY <2>1, <2>2, <2>3 DEF ReportsInv
<1>3. CASE UNCHANGED <<proc, task>>
  <2>1. CacheInv(c)' /\ TaskTypeOK'
    BY <1>3, CacheQuiet DEF ReportsInv, TaskTypeOK
  <2>2. CoverageInv(c)' /\ BitcodeInv(c)' /\ CallgrindInv(c)'
    BY <1>3, CoverageQuiet, BitcodeQuiet, CallgrindQuiet DEF ReportsInv
  <2> QED
    BY <2>1, <2>2 DEF ReportsInv
<1> QED
  BY <1>1, <1>2, <1>3

-----------------------------------------------------------------------------
(***************************************************************************)
(* Building the harness.                                                   *)
(***************************************************************************)

\* What is collected lies in directories a corpus can have.
LEMMA CollectedDirs == ASSUME NEW corpus PROVE Collected(corpus) \subseteq Dirs
<1>1. Used(corpus) \subseteq Instances
  BY DEF Used, WithQueue
<1>2. \A i \in Used(corpus) : <<i, "queue">> \in Dirs
  BY <1>1 DEF Dirs
<1>3. {<<i, "queue">> : i \in Used(corpus)} \subseteq Dirs
  BY <1>2
<1>4. CrashDirs \subseteq Dirs /\ {<<Top, "own">>, <<Top, "own crashes">>} \subseteq Dirs
  BY DEF CrashDirs, Dirs
<1> QED
  BY <1>3, <1>4, Zenon DEF Collected

\* A link of a harness begins a command without a corpus.
LEMMA LinkReports ==
    ASSUME NEW c, Procs = {c}, ReportsInv(c), NEW mode \in Linkable, NEW asked \in Requests,
           Link(c, mode, asked)
    PROVE  ReportsInv(c)'
<1>1. CacheInv(c)' /\ TaskTypeOK'
  BY StartLinkCache DEF ReportsInv, Link, TaskTypeOK
<1>2. proc'[c].pc = "compile" /\ proc'[c].mode # "profile"
  BY DEF ReportsInv, CacheInv, CacheTypeOK, Link, StartLink, Linkable
<1>3. CoverageInv(c)' /\ BitcodeInv(c)' /\ CallgrindInv(c)'
  BY <1>2, CoverageQuiet, BitcodeQuiet, CallgrindQuiet DEF ReportsInv, Link, StartLink
<1> QED
  BY <1>1, <1>3 DEF ReportsInv

\* A coverage binary that is linked again is remembered.
LEMMA BuildHarnessReports ==
    ASSUME NEW c, Procs = {c}, ReportsInv(c), BuildHarness(c)
    PROVE  ReportsInv(c)'
<1>1. CacheInv(c)'
  BY CompileCache, LinkCache, WriteStampCache DEF ReportsInv, BuildHarness
<1>2. TaskTypeOK'
  <2>1. NoTask \in Tasks
    BY DEF NoTask, Tasks
  <2> QED
    BY <2>1 DEF ReportsInv, TaskTypeOK, BuildHarness
<1>3. \/ proc'[c] = Idle
      \/ proc'[c].pc \in {"compile", "link", "stamp", "built"} /\ proc'[c].mode = proc[c].mode
  <2>1. proc \in [Procs -> Commands] /\ proc[c] \in Commands
    BY DEF ReportsInv, CacheInv, CacheTypeOK
  <2>2. CASE CompileObject(c)
    BY <2>1, <2>2 DEF CompileObject, Commands
  <2>3. CASE LinkHarness(c)
    BY <2>1, <2>3 DEF LinkHarness, Goto, Commands
  <2>4. CASE WriteStamp(c)
    BY <2>1, <2>4 DEF WriteStamp, Goto, Commands
  <2> QED
    BY <2>2, <2>3, <2>4 DEF BuildHarness
<1>4. \/ proc'[c].pc = "idle" /\ proc'[c].mode = "none"
      \/ /\ proc'[c].pc \in {"compile", "link", "stamp", "built"}
         /\ proc'[c].mode = proc[c].mode /\ task' = task
  BY <1>3, IdleType DEF BuildHarness
<1>5. CoverageInv(c)'
  <2>1. CASE relinked'
    BY <1>4, <2>1 DEF ReportsInv, CoverageInv, BuildHarness
  <2>2. CASE ~relinked'
    <3>1. exe'["coverage"] = exe["coverage"] /\ relinked' = relinked
      BY <2>2 DEF ReportsInv, CoverageInv, CacheInv, CacheTypeOK, Building, Modes, BuildHarness,
                  CompileObject, LinkHarness, WriteStamp
    <3> QED
      BY <1>4, <3>1 DEF ReportsInv, CoverageInv, BuildHarness
  <2>3. relinked' \in BOOLEAN
    BY DEF ReportsInv, CoverageInv, BuildHarness
  <2> QED
    BY <2>1, <2>2, <2>3
<1>6. BitcodeInv(c)' /\ CallgrindInv(c)'
  BY <1>4, BitcodeQuiet, CallgrindQuiet DEF ReportsInv, BuildHarness
<1> QED
  BY <1>1, <1>2, <1>5, <1>6 DEF ReportsInv

\* The tree of a mode is made between commands.
LEMMA MakeCoverageTreeReports ==
    ASSUME NEW c, Procs = {c}, ReportsInv(c), NEW anew \in BOOLEAN, MakeCoverageTree(c, anew)
    PROVE  ReportsInv(c)'
<1>1. CacheInv(c)' /\ TaskTypeOK'
  BY CacheQuiet DEF ReportsInv, MakeCoverageTree, MakeTree, TaskTypeOK
<1>2. CoverageInv(c)' /\ CallgrindInv(c)'
  BY CoverageQuiet, CallgrindQuiet DEF ReportsInv, MakeCoverageTree, MakeTree
<1>3. BitcodeInv(c)'
  BY DEF ReportsInv, BitcodeInv, BitcodeCoversTree, MakeCoverageTree, MakeTree
<1> QED
  BY <1>1, <1>2, <1>3 DEF ReportsInv

-----------------------------------------------------------------------------
(***************************************************************************)
(* A coverage report.                                                      *)
(***************************************************************************)

\* A report begins with its corpus, and its harness.
LEMMA StartCoverageReports ==
    ASSUME NEW c, Procs = {c}, ReportsInv(c), NEW asked \in Requests, NEW corpus \in Corpora,
           NEW with \in BOOLEAN, StartCoverage(c, asked, corpus, with)
    PROVE  ReportsInv(c)'
<1>1. CacheInv(c)'
  BY StartReportCache DEF ReportsInv, StartCoverage, Cached
<1>2. TaskTypeOK'
  <2>1. [corpus |-> corpus, with |-> with, left |-> {}] \in Tasks
    BY DEF Tasks
  <2> QED
    BY <2>1 DEF ReportsInv, TaskTypeOK, StartCoverage
<1>3. proc'[c].pc \in {"built", "compile"} /\ proc'[c].mode = "coverage"
  BY DEF ReportsInv, CacheInv, CacheTypeOK, StartCoverage, StartReport
<1>4. CoverageInv(c)' /\ BitcodeInv(c)' /\ CallgrindInv(c)'
  BY <1>3, CoverageQuiet, BitcodeQuiet, CallgrindQuiet
  DEF ReportsInv, StartCoverage, StartReport
<1> QED
  BY <1>1, <1>2, <1>4 DEF ReportsInv

\* The corpus is replayed only when no earlier profile is left.
LEMMA ClearRawReports ==
    ASSUME NEW c, Procs = {c}, ReportsInv(c), ClearRaw(c)
    PROVE  ReportsInv(c)'
<1>1. \/ proc' = proc /\ proc[c].pc = "built"
      \/ /\ proc'[c].pc = "replay" /\ raw' = {} /\ proc'[c].mode = proc[c].mode
         /\ Goto(c, "replay")
  BY GotoType DEF ReportsInv, CacheInv, ClearRaw, Later
<1>2. CacheInv(c)' /\ TaskTypeOK'
  BY <1>1, CacheQuiet DEF ReportsInv, ClearRaw, TaskTypeOK, Later
<1>3. CoverageInv(c)'
  BY <1>1 DEF ReportsInv, CoverageInv, ClearRaw
<1>4. BitcodeInv(c)' /\ CallgrindInv(c)'
  BY <1>1, BitcodeQuiet, CallgrindQuiet DEF ReportsInv, ClearRaw
<1> QED
  BY <1>2, <1>3, <1>4 DEF ReportsInv

\* The only profile is then that of the replay, if it was written.
LEMMA ReplayCorpusReports ==
    ASSUME NEW c, Procs = {c}, ReportsInv(c), ReplayCorpus(c)
    PROVE  ReportsInv(c)'
<1>1. CASE Return(c) /\ raw' = raw
  BY <1>1, Quiet DEF ReplayCorpus, coverageVars
<1>2. CASE /\ Goto(c, "merge") /\ task' = task
           /\ raw' = raw \union {Own(c)} \/ raw' = raw
  <2>1. proc'[c].pc = "merge" /\ proc'[c].mode = proc[c].mode
    BY <1>2, GotoType DEF ReportsInv, CacheInv, Later
  <2>2. CacheInv(c)' /\ TaskTypeOK'
    BY <1>2, CacheQuiet DEF ReportsInv, ReplayCorpus, TaskTypeOK, Later
  <2>3. raw = {} /\ Own(c)' = Own(c)
    BY <1>2 DEF ReportsInv, CoverageInv, ReplayCorpus, Own
  <2>4. CoverageInv(c)'
    BY <1>2, <2>1, <2>3 DEF ReportsInv, CoverageInv, ReplayCorpus
  <2>5. BitcodeInv(c)' /\ CallgrindInv(c)'
    BY <1>2, <2>1, BitcodeQuiet, CallgrindQuiet DEF ReportsInv, ReplayCorpus
  <2> QED
    BY <2>2, <2>4, <2>5 DEF ReportsInv
<1> QED
  BY <1>1, <1>2 DEF ReplayCorpus, Own

\* What is merged is the profile of the replay.
LEMMA MergeReports ==
    ASSUME NEW c, Procs = {c}, ReportsInv(c), Merge(c)
    PROVE  ReportsInv(c)'
<1>1. proc'[c].pc = "show" /\ proc'[c].mode = proc[c].mode
  BY GotoType DEF ReportsInv, CacheInv, Merge, Later
<1>2. CacheInv(c)' /\ TaskTypeOK'
  BY CacheQuiet DEF ReportsInv, Merge, TaskTypeOK, Later
<1>3. merged' = {Own(c)} /\ Own(c)' = Own(c)
  BY DEF ReportsInv, CoverageInv, Merge, Own
<1>4. Own(c).name = exe["coverage"].name
  BY DEF Own
<1>5. CoverageInv(c)'
  BY <1>1, <1>3, <1>4 DEF CoverageInv, Merge
<1>6. BitcodeInv(c)' /\ CallgrindInv(c)'
  BY <1>1, BitcodeQuiet, CallgrindQuiet DEF ReportsInv, Merge
<1> QED
  BY <1>2, <1>5, <1>6 DEF ReportsInv

\* Profiles are exported with a binary that is there.
LEMMA ExportReports ==
    ASSUME NEW c, Procs = {c}, ReportsInv(c), Export(c)
    PROVE  ReportsInv(c)'
<1>1. proc'[c].pc = "assemble" /\ proc'[c].mode = proc[c].mode
  BY GotoType DEF ReportsInv, CacheInv, Export, Later
<1>2. CacheInv(c)' /\ TaskTypeOK'
  BY CacheQuiet DEF ReportsInv, Export, TaskTypeOK, Later
<1>3. CoverageInv(c)'
  BY <1>1 DEF ReportsInv, CoverageInv, Export, coverageVars
<1>4. BitcodeInv(c)' /\ CallgrindInv(c)'
  BY <1>1, BitcodeQuiet, CallgrindQuiet DEF ReportsInv, Export
<1> QED
  BY <1>2, <1>3, <1>4 DEF ReportsInv

-----------------------------------------------------------------------------
(***************************************************************************)
(* The bitcode of the tree.                                                *)
(***************************************************************************)

\* A trace begins with a clean tree.
LEMMA CleanTreeReports ==
    ASSUME NEW c, Procs = {c}, ReportsInv(c), CleanTree(c)
    PROVE  ReportsInv(c)'
<1>1. proc'[c].pc = "bear" /\ proc'[c].mode = proc[c].mode
  BY GotoType DEF ReportsInv, CacheInv, CleanTree, Later
<1>2. CacheInv(c)' /\ TaskTypeOK'
  BY CacheQuiet DEF ReportsInv, CleanTree, TaskTypeOK, Later
<1>3. BitcodeInv(c)'
  BY DEF ReportsInv, BitcodeInv, BitcodeCoversTree, CleanTree
<1>4. CoverageInv(c)' /\ CallgrindInv(c)'
  BY <1>1, CoverageQuiet, CallgrindQuiet DEF ReportsInv, CleanTree
<1> QED
  BY <1>2, <1>3, <1>4 DEF ReportsInv

\* A trace of a clean tree lists all of it, or fails.
LEMMA BearReports ==
    ASSUME NEW c, Procs = {c}, ReportsInv(c), NEW succeeds \in BOOLEAN, Bear(c, succeeds)
    PROVE  ReportsInv(c)'
<1>1. CASE succeeds
  <2>1. proc'[c].pc = "emit" /\ proc'[c].mode = proc[c].mode
    BY <1>1, GotoType DEF ReportsInv, CacheInv, Bear, Later
  <2>2. CacheInv(c)' /\ TaskTypeOK'
    BY <1>1, CacheQuiet DEF ReportsInv, Bear, TaskTypeOK, Later
  <2>3. BitcodeInv(c)'
    BY <1>1, <2>1 DEF ReportsInv, BitcodeInv, BitcodeCoversTree, Bear
  <2>4. CoverageInv(c)' /\ CallgrindInv(c)'
    BY <1>1, <2>1, CoverageQuiet, CallgrindQuiet DEF ReportsInv, Bear
  <2> QED
    BY <2>2, <2>3, <2>4 DEF ReportsInv
<1>2. CASE ~succeeds
  <2>1. /\ proc' = [proc EXCEPT ![c] = Idle] /\ TaskTypeOK'
        /\ proc'[c].pc = "idle" /\ proc'[c].mode = "none"
    BY <1>2, ReturnType DEF ReportsInv, Bear
  <2>2. CacheInv(c)'
    BY <2>1, CacheQuiet DEF ReportsInv, Bear
  <2>3. BitcodeInv(c)'
    BY <1>2, <2>1 DEF ReportsInv, BitcodeInv, BitcodeCoversTree, Bear
  <2>4. CoverageInv(c)' /\ CallgrindInv(c)'
    BY <2>1, CoverageQuiet, CallgrindQuiet DEF ReportsInv, Bear
  <2> QED
    BY <2>1, <2>2, <2>3, <2>4 DEF ReportsInv
<1> QED
  BY <1>1, <1>2

\* The bitcode holds what the trace listed.
LEMMA EmitAndLinkReports ==
    ASSUME NEW c, Procs = {c}, ReportsInv(c), EmitAndLink(c)
    PROVE  ReportsInv(c)'
<1>1. CASE Return(c)
  <2>1. /\ proc' = [proc EXCEPT ![c] = Idle] /\ TaskTypeOK'
        /\ proc'[c].pc = "idle" /\ proc'[c].mode = "none"
    BY <1>1, ReturnType DEF ReportsInv
  <2>2. CacheInv(c)'
    BY <2>1, CacheQuiet DEF ReportsInv, EmitAndLink
  <2>3. BitcodeInv(c)'
    BY <2>1 DEF ReportsInv, BitcodeInv, BitcodeCoversTree, EmitAndLink
  <2>4. CoverageInv(c)' /\ CallgrindInv(c)'
    BY <2>1, CoverageQuiet, CallgrindQuiet DEF ReportsInv, EmitAndLink
  <2> QED
    BY <2>1, <2>2, <2>3, <2>4 DEF ReportsInv
<1>2. CASE Goto(c, "export") /\ task' = task
  <2>1. proc'[c].pc = "export" /\ proc'[c].mode = proc[c].mode
    BY <1>2, GotoType DEF ReportsInv, CacheInv, Later
  <2>2. CacheInv(c)' /\ TaskTypeOK'
    BY <1>2, CacheQuiet DEF ReportsInv, EmitAndLink, TaskTypeOK, Later
  <2>3. BitcodeInv(c)'
    BY <2>1 DEF ReportsInv, BitcodeInv, BitcodeCoversTree, EmitAndLink
  <2>4. CoverageInv(c)' /\ CallgrindInv(c)'
    BY <1>2, <2>1, CoverageQuiet, CallgrindQuiet DEF ReportsInv, EmitAndLink
  <2> QED
    BY <2>2, <2>3, <2>4 DEF ReportsInv
<1> QED
  BY <1>1, <1>2 DEF EmitAndLink

-----------------------------------------------------------------------------
(***************************************************************************)
(* Call profiles.                                                          *)
(***************************************************************************)

\* Every directory of the corpus is left to be run.
LEMMA StartCallgrindReports ==
    ASSUME NEW c, Procs = {c}, ReportsInv(c), NEW asked \in Requests, NEW corpus \in Corpora,
           StartCallgrind(c, asked, corpus)
    PROVE  ReportsInv(c)'
<1>1. CacheInv(c)'
  BY StartReportCache DEF ReportsInv, StartCallgrind, Cached
<1>2. TaskTypeOK' /\ task'[c].corpus = corpus /\ task'[c].left = Collected(corpus)
  <2>1. [corpus |-> corpus, with |-> FALSE, left |-> Collected(corpus)] \in Tasks
    BY CollectedDirs DEF Tasks
  <2> QED
    BY <2>1 DEF ReportsInv, TaskTypeOK, StartCallgrind
<1>3. proc'[c].pc \in {"built", "compile"}
  BY DEF ReportsInv, CacheInv, CacheTypeOK, StartCallgrind, StartReport
<1>4. CoverageInv(c)' /\ BitcodeInv(c)'
  BY <1>3, CoverageQuiet, BitcodeQuiet DEF ReportsInv, StartCallgrind, StartReport
<1>5. CallgrindInv(c)'
  BY <1>2, <1>3 DEF ReportsInv, CallgrindInv, StartCallgrind
<1> QED
  BY <1>1, <1>2, <1>4, <1>5 DEF ReportsInv

\* The output of a directory replaces only that of one of its name.
LEMMA RunCallgrindReports ==
    ASSUME NEW c, Procs = {c}, ReportsInv(c), RunCallgrind(c)
    PROVE  ReportsInv(c)'
<1>1. PICK d \in task[c].left :
        /\ callgrind' = [callgrind EXCEPT ![OutputOf(d)] = d]
        /\ task' = [task EXCEPT ![c].left = @ \ {d}]
        /\ IF task[c].left = {d} THEN Goto(c, "view") ELSE proc' = proc
  BY DEF RunCallgrind
<1>2. proc[c].pc = "built" /\ proc[c].mode = "profile" /\ task[c] \in Tasks
  BY DEF ReportsInv, TaskTypeOK, RunCallgrind
<1>3. /\ task' = [task EXCEPT ![c] = task'[c]]
      /\ task'[c] = [task[c] EXCEPT !.left = @ \ {d}]
      /\ task'[c].left = task[c].left \ {d} /\ task'[c].corpus = task[c].corpus
  BY <1>1, <1>2 DEF ReportsInv, TaskTypeOK, Tasks
<1>4. TaskTypeOK'
  <2>1. task'[c] \in Tasks
    BY <1>2, <1>3 DEF Tasks
  <2> QED
    BY <1>3, <2>1 DEF ReportsInv, TaskTypeOK
<1>5. /\ proc'[c].mode = "profile"
      /\ \/ proc' = proc
         \/ proc'[c].pc = "view" /\ task[c].left = {d} /\ Goto(c, "view")
  BY <1>1, <1>2, GotoType DEF ReportsInv, CacheInv, Later
<1>6. CacheInv(c)'
  BY <1>5, CacheQuiet DEF ReportsInv, RunCallgrind, Later
<1>7. CoverageInv(c)' /\ BitcodeInv(c)'
  BY <1>2, <1>5, CoverageQuiet, BitcodeQuiet DEF ReportsInv, RunCallgrind
<1>8. callgrind' = [n \in DirNames |-> callgrind'[n]]
  BY <1>1 DEF ReportsInv, CallgrindInv
<1>9. d \in Collected(task[c].corpus) /\ d[2] \in DirNames
  <2>1. d \in Collected(task[c].corpus)
    BY <1>2 DEF ReportsInv, CallgrindInv
  <2>2. d \in Dirs
    BY <2>1, CollectedDirs
  <2> QED
    BY <2>1, <2>2 DEF DirNames
<1>10. ASSUME NEW e \in Collected(task'[c].corpus) \ task'[c].left
       PROVE  Covered(c, e)'
  <2>1. CASE e = d
    BY <1>1, <1>9, <2>1 DEF ReportsInv, CallgrindInv, Covered, OutputOf
  <2>2. CASE e # d /\ e[2] = d[2]
    BY <1>3, <1>9, <2>2 DEF Covered
  <2>3. CASE e[2] # d[2]
    <3>1. Covered(c, e)
      BY <1>2, <1>3, <1>10, <2>3 DEF ReportsInv, CallgrindInv
    <3>2. OutputOf(e) \in DirNames
      BY CollectedDirs DEF OutputOf, DirNames
    <3>3. callgrind'[OutputOf(e)] = callgrind[OutputOf(e)]
      BY <1>1, <2>3, <3>2 DEF OutputOf, ReportsInv, CallgrindInv
    <3> QED
      BY <1>3, <3>1, <3>3 DEF Covered
  <2> QED
    BY <2>1, <2>2, <2>3
<1>11. task'[c].left \subseteq Collected(task'[c].corpus)
  BY <1>2, <1>3 DEF ReportsInv, CallgrindInv
<1>12. CallgrindInv(c)'
  BY <1>2, <1>3, <1>5, <1>8, <1>10, <1>11 DEF CallgrindInv
<1> QED
  BY <1>4, <1>6, <1>7, <1>12 DEF ReportsInv

-----------------------------------------------------------------------------
(***************************************************************************)
(* Cleaning.                                                               *)
(***************************************************************************)

\* Whatever is removed, nothing that is left is taken for something else.
LEMMA CleanReports ==
    ASSUME NEW c, Procs = {c}, ReportsInv(c), Clean(c)
    PROVE  ReportsInv(c)'
<1>1. CASE StartClean(c)
  <2>1. Goto(c, "clean .objects") /\ proc[c].mode = "none"
    BY <1>1, IdleType DEF StartClean, ReportsInv, CacheInv, Building
  <2>2. proc'[c].pc = "clean .objects" /\ proc'[c].mode = "none"
    BY <2>1, GotoType DEF ReportsInv, CacheInv, Later
  <2>3. CacheInv(c)' /\ TaskTypeOK'
    BY <1>1, <2>1, CacheQuiet DEF ReportsInv, StartClean, TaskTypeOK, Later
  <2>4. CoverageInv(c)' /\ BitcodeInv(c)'
    BY <1>1, <2>2, CoverageQuiet, BitcodeQuiet DEF ReportsInv, StartClean
  <2>5. CallgrindInv(c)'
    BY <1>1, <2>2 DEF ReportsInv, CallgrindInv, StartClean
  <2> QED
    BY <2>3, <2>4, <2>5 DEF ReportsInv
<1>2. CASE CleanObjects(c)
  <2>1. Goto(c, "clean callgrind-out") /\ proc[c].mode = "none"
    BY <1>2 DEF CleanObjects, ReportsInv, CallgrindInv
  <2>2. proc'[c].pc = "clean callgrind-out" /\ proc'[c].mode = "none"
    BY <2>1, GotoType DEF ReportsInv, CacheInv, Later
  <2>3. CacheInv(c)' /\ TaskTypeOK'
    BY <1>2, CleanObjectsCache DEF ReportsInv, CleanObjects, TaskTypeOK
  <2>4. CoverageInv(c)' /\ BitcodeInv(c)'
    BY <1>2, <2>2, CoverageQuiet, BitcodeQuiet DEF ReportsInv, CleanObjects
  <2>5. CallgrindInv(c)'
    BY <1>2, <2>2 DEF ReportsInv, CallgrindInv, CleanObjects
  <2> QED
    BY <2>3, <2>4, <2>5 DEF ReportsInv
<1>3. CASE CleanCallgrind(c)
  <2>1. Goto(c, "clean coverage-report") /\ proc[c].mode = "none"
    BY <1>3 DEF CleanCallgrind, ReportsInv, CallgrindInv
  <2>2. proc'[c].pc = "clean coverage-report" /\ proc'[c].mode = "none"
    BY <2>1, GotoType DEF ReportsInv, CacheInv, Later
  <2>3. CacheInv(c)' /\ TaskTypeOK'
    BY <1>3, <2>1, CacheQuiet DEF ReportsInv, CleanCallgrind, TaskTypeOK, Later
  <2>4. CoverageInv(c)' /\ BitcodeInv(c)'
    BY <1>3, <2>2, CoverageQuiet, BitcodeQuiet DEF ReportsInv, CleanCallgrind
  <2>5. CallgrindInv(c)'
    BY <1>3, <2>2 DEF CallgrindInv, CleanCallgrind
  <2> QED
    BY <2>3, <2>4, <2>5 DEF ReportsInv
<1>4. CASE CleanCoverage(c)
  <2>1. CASE UNCHANGED proc
    <3>1. CacheInv(c)' /\ TaskTypeOK'
      BY <1>4, <2>1, CacheQuiet DEF ReportsInv, CleanCoverage, TaskTypeOK
    <3>2. CoverageInv(c)'
      BY <1>4, <2>1 DEF ReportsInv, CoverageInv, CleanCoverage
    <3>3. BitcodeInv(c)' /\ CallgrindInv(c)'
      BY <1>4, <2>1, BitcodeQuiet, CallgrindQuiet DEF ReportsInv, CleanCoverage
    <3> QED
      BY <3>1, <3>2, <3>3 DEF ReportsInv
  <2>2. CASE Goto(c, "clean fuzz_harness_*") /\ UNCHANGED <<raw, merged>>
    BY <1>4, <2>2, Quiet DEF CleanCoverage, Elsewhere, coverageVars
  <2> QED
    BY <1>4, <2>1, <2>2 DEF CleanCoverage
<1>5. CASE CleanHarnesses(c)
  <2>1. CASE UNCHANGED <<proc, task>>
    <3>1. CacheInv(c)' /\ TaskTypeOK'
      BY <1>5, <2>1, CleanHarnessesCache DEF ReportsInv, TaskTypeOK
    <3>2. exe'["coverage"] \in {exe["coverage"], NoExe}
      BY <1>5 DEF ReportsInv, CacheInv, CacheTypeOK, CleanHarnesses, Modes
    <3>3. CoverageInv(c)'
      BY <1>5, <2>1, <3>2 DEF ReportsInv, CoverageInv, CleanHarnesses, coverageVars
    <3>4. BitcodeInv(c)' /\ CallgrindInv(c)'
      BY <1>5, <2>1, BitcodeQuiet, CallgrindQuiet DEF ReportsInv, CleanHarnesses
    <3> QED
      BY <3>1, <3>3, <3>4 DEF ReportsInv
  <2>2. CASE exe' = exe /\ Return(c)
    BY <1>5, <2>2, Quiet DEF CleanHarnesses
  <2> QED
    BY <1>5, <2>1, <2>2 DEF CleanHarnesses
<1> QED
  BY <1>1, <1>2, <1>3, <1>4, <1>5 DEF Clean

-----------------------------------------------------------------------------
(***************************************************************************)
(* The properties.                                                         *)
(***************************************************************************)

\* Nothing is built, and no command runs.
LEMMA ReportsInit == ASSUME NEW c, Procs = {c}, Init PROVE ReportsInv(c)
<1>1. proc[c] = Idle /\ proc[c].pc = "idle" /\ proc[c].mode = "none"
  BY IdleType DEF Init, CacheInit
<1>2. CacheTypeOK
  <2>1. NoObject \in [mode : Binaries, name : Requests]
    BY DEF NoObject, Binaries, Requests
  <2>2. NoExe \in [modes : SUBSET Binaries, name : Requests]
    BY DEF NoExe, Requests
  <2> QED
    BY <2>1, <2>2, IdleType DEF CacheTypeOK, Init, CacheInit
<1>3. CacheInv(c)
  BY <1>1, <1>2
  DEF CacheInv, Compiled, Building, StampsAreTrue, ReportsAskedHarness, OneMode, Init, CacheInit,
      NoExe, Cached, Modes
<1>4. TaskTypeOK
  <2>1. NoTask \in Tasks
    BY DEF NoTask, Tasks
  <2> QED
    BY <2>1 DEF TaskTypeOK, Init
<1>5. CoverageInv(c) /\ BitcodeInv(c) /\ CallgrindInv(c)
  BY <1>1 DEF CoverageInv, BitcodeInv, BitcodeCoversTree, CallgrindInv, Init
<1> QED
  BY <1>3, <1>4, <1>5 DEF ReportsInv

\* Every step of a command keeps the invariant.
LEMMA ReportsNext ==
    ASSUME NEW c, Procs = {c}, ReportsInv(c), [Next]_vars
    PROVE  ReportsInv(c)'
<1>1. CASE UNCHANGED vars
  BY <1>1, Quiet DEF vars, cacheVars
<1>2. CASE Step
  <2>1. CASE \E mode \in Linkable, asked \in Requests : Link(c, mode, asked)
    BY <2>1, LinkReports
  <2>2. CASE \E asked \in Requests, corpus \in Corpora :
               \/ \E with \in BOOLEAN : StartCoverage(c, asked, corpus, with)
               \/ StartCallgrind(c, asked, corpus)
    BY <2>2, StartCoverageReports, StartCallgrindReports
  <2>3. CASE BuildHarness(c)
    BY <2>3, BuildHarnessReports
  <2>4. CASE ClearRaw(c) \/ ReplayCorpus(c) \/ Merge(c) \/ Export(c) \/ CleanTree(c) \/ EmitAndLink(c)
    BY <2>4, ClearRawReports, ReplayCorpusReports, MergeReports, ExportReports,
       CleanTreeReports, EmitAndLinkReports
  <2>5. CASE \E succeeds \in BOOLEAN : Bear(c, succeeds)
    BY <2>5, BearReports
  <2>6. CASE \E anew \in BOOLEAN : MakeCoverageTree(c, anew)
    BY <2>6, MakeCoverageTreeReports
  <2>7. CASE RunCallgrind(c) \/ Clean(c)
    BY <2>7, RunCallgrindReports, CleanReports
  <2>8. CASE Show(c)
    BY <2>8, Quiet DEF Show, Elsewhere
  <2>9. CASE HaveDatabase(c)
    BY <2>9, Quiet DEF HaveDatabase, Elsewhere
  <2>10. CASE StartIntrospect(c)
    BY <2>10, Quiet DEF StartIntrospect, Elsewhere
  <2>11. CASE Assemble(c)
    BY <2>11, Quiet DEF Assemble
  <2>12. CASE GiveUp(c)
    BY <2>12, Quiet DEF GiveUp, Interrupt, Return
  <2>13. CASE EnsureProfileTree(c)
    BY <2>13, Quiet DEF EnsureProfileTree, MakeTree
  <2> QED
    BY <1>2, <2>1, <2>2, <2>3, <2>4, <2>5, <2>6, <2>7, <2>8, <2>9, <2>10, <2>11, <2>12, <2>13
    DEF Step
<1> QED
  BY <1>1, <1>2 DEF Next

\* The invariant of one command at a time: the caches of harness.py and
\* report_manager.py, and the files its pipelines hand on.
THEOREM ReportsInvariant ==
    ASSUME NEW c, Procs = {c}
    PROVE  Spec => []ReportsInv(c)
<1>1. Init => ReportsInv(c)
  BY ReportsInit
<1>2. ReportsInv(c) /\ [Next]_vars => ReportsInv(c)'
  BY ReportsNext
<1> QED
  BY <1>1, <1>2, PTL DEF Spec

\* A report replays the harness it was asked for, if the binary was last linked by a
\* command that stamped it (report_manager.py:407-427).
THEOREM AskedHarnessIsReplayed ==
    ASSUME NEW c, Procs = {c}
    PROVE  Spec => []ReportsAskedHarness
<1>1. ReportsInv(c) => ReportsAskedHarness
  BY DEF ReportsInv, CacheInv
<1> QED
  BY <1>1, ReportsInvariant, PTL

\* A binary is linked of objects compiled for its mode, whatever was left in .objects
\* (harness.py:176-198).
THEOREM BinariesAreOfOneMode ==
    ASSUME NEW c, Procs = {c}
    PROVE  Spec => []OneMode
<1>1. ReportsInv(c) => OneMode
  BY DEF ReportsInv, CacheInv
<1> QED
  BY <1>1, ReportsInvariant, PTL

\* A coverage report shows the replay made for it, of its harness and its corpus, and
\* no earlier one (report_manager.py:521-554).
THEOREM ReportShowsItsRun ==
    ASSUME NEW c, Procs = {c}
    PROVE  Spec => []ReportIsOfItsRun
<1>1. ReportsInv(c) => ReportIsOfItsRun
  BY DEF ReportsInv, CoverageInv, ReportIsOfItsRun, Own
<1> QED
  BY <1>1, ReportsInvariant, PTL

\* An introspection joins a profile and a binary of one harness, unless the binary was
\* linked since (report_manager.py:638-657).
THEOREM IntrospectionIsOfOneHarness ==
    ASSUME NEW c, Procs = {c}
    PROVE  Spec => []IntrospectionJoinsOneHarness
<1>1. ReportsInv(c) => IntrospectionJoinsOneHarness
  BY DEF ReportsInv, CoverageInv, IntrospectionJoinsOneHarness
<1> QED
  BY <1>1, ReportsInvariant, PTL

\* The bitcode holds all of the tree, unless a trace of it failed
\* (introspector_manager.py:139-164).
THEOREM BitcodeIsOfTheTree ==
    ASSUME NEW c, Procs = {c}
    PROVE  Spec => []BitcodeCoversTree
<1>1. ReportsInv(c) => BitcodeCoversTree
  BY DEF ReportsInv, BitcodeInv
<1> QED
  BY <1>1, ReportsInvariant, PTL

\* Callgrind leaves an output of each directory, or of another of its name
\* (report_manager.py:1024, 1083-1087).
THEOREM CallgrindIsOfTheCorpus ==
    ASSUME NEW c, Procs = {c}
    PROVE  Spec => []CallgrindCoversCorpus
<1>1. ASSUME ReportsInv(c), NEW b \in Procs, proc[b].pc = "view",
             NEW d \in Collected(task[b].corpus)
      PROVE  \/ \E n \in DirNames : callgrind[n] = d
             \/ \E e \in Collected(task[b].corpus) \ {d} : e[2] = d[2]
  <2>1. b = c
    BY <1>1
  <2>2. Covered(c, d)
    BY <1>1, <2>1 DEF ReportsInv, CallgrindInv
  <2>3. OutputOf(d) \in DirNames
    BY CollectedDirs DEF OutputOf, DirNames
  <2> QED
    BY <2>1, <2>2, <2>3 DEF Covered
<1>2. ReportsInv(c) => CallgrindCoversCorpus
  BY <1>1 DEF CallgrindCoversCorpus
<1> QED
  BY <1>2, ReportsInvariant, PTL
=============================================================================
