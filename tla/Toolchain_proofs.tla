-------------------------- MODULE Toolchain_proofs --------------------------
(***************************************************************************)
(* Proofs about toolchain.config and apatchy setup.  Updates of the file   *)
(* that do not overlap and are not cut short lose nothing and keep what    *)
(* was set by hand; the setup commands use the file as ToolchainConfig     *)
(* allows, so nothing is lost there either; what they record under a       *)
(* versioned name is of that version; and libprotobuf-mutator is recorded  *)
(* only when it is built.                                                  *)
(***************************************************************************)
EXTENDS Toolchain, WellFoundedInduction, TLAPS

-----------------------------------------------------------------------------
(***************************************************************************)
(* The store: ToolchainConfig.                                             *)
(***************************************************************************)
Jobs == [pc : {"idle", "truncate", "write"}, force : BOOLEAN, mem : Entries, changes : Entries]

StoreTypeOK ==
    /\ file \in Entries \union {Garbled}
    /\ disk \subseteq Paths
    /\ job \in [Procs -> Jobs]
    /\ ideal \in Entries
    /\ manual \in Entries
    /\ overlapped \in BOOLEAN
    /\ torn \in BOOLEAN

\* Without overlap, one process is saving at a time.
Alone == ~overlapped => \A p, q \in Procs : Saving(p) /\ Saving(q) => p = q

\* What a process is about to write is all there is to say.
MemIsIdeal ==
    Undisturbed => \A p \in Procs : Saving(p) => job[p].mem = Over(job[p].changes, ideal)

\* An entry made by hand is part of it, and exists.
ManualIsIdeal == Undisturbed => \A s \in Slots : manual[s] # None => ideal[s] = manual[s]
ManualExists == \A s \in Slots : manual[s] # None => manual[s] \in disk

\* An update that does not replace entries has none for those made by hand.
ManualKept ==
    Undisturbed => \A p \in Procs, s \in Slots :
        Saving(p) /\ ~job[p].force /\ job[p].changes[s] # None => manual[s] = None

StoreInv ==
    /\ StoreTypeOK /\ Alone /\ NothingLost
    /\ MemIsIdeal /\ ManualIsIdeal /\ ManualExists /\ ManualKept

\* Merging entries gives entries.
LEMMA OverType == ASSUME NEW x \in Entries, NEW y \in Entries PROVE Over(x, y) \in Entries
BY DEF Over, Entries

\* The empty configuration has no entries.
LEMMA NothingType == Nothing \in Entries /\ \A s \in Slots : Nothing[s] = None
BY DEF Nothing, Entries

\* A store that is not in use has nothing to write.
LEMMA NoJobType == NoJob \in Jobs /\ NoJob.pc = "idle"
BY NothingType DEF NoJob, Jobs

\* What an update changes are entries.
LEMMA ChangedType ==
    ASSUME NEW x \in Entries, NEW force \in BOOLEAN, NEW y \in Entries
    PROVE  Changed(x, force, y) \in Entries
BY DEF Changed, Entries

\* The store begins in the invariant.
LEMMA InitStoreInv == ASSUME NEW initial \in SUBSET Paths, StoreInit(initial) PROVE StoreInv
<1>1. \A p \in Procs : ~Saving(p)
  BY NoJobType DEF StoreInit, Saving
<1>2. StoreTypeOK
  BY NothingType, NoJobType DEF StoreInit, StoreTypeOK
<1> QED
  BY <1>1, <1>2, NothingType
  DEF StoreInit, StoreInv, Alone, NothingLost, MemIsIdeal, ManualIsIdeal, ManualExists, ManualKept

\* Loading: the changes are made on all there is to say.
LEMMA LoadInv ==
    ASSUME StoreInv, NEW p \in Procs, NEW force \in BOOLEAN, NEW entries \in Entries,
           Load(p, force, entries)
    PROVE  StoreInv'
<1> DEFINE changed == Changed(file, force, entries)
           loaded == [pc |-> "truncate", force |-> force, mem |-> Over(changed, file), changes |-> changed]
<1>1. file \in Entries
  BY DEF StoreInv, StoreTypeOK, Load, Readable
<1>2. changed \in Entries /\ loaded \in Jobs
  BY <1>1, ChangedType, OverType DEF Jobs
<1>3. job' = [job EXCEPT ![p] = loaded] /\ job \in [Procs -> Jobs]
  BY DEF Load, StoreInv, StoreTypeOK
<1>4. StoreTypeOK'
  BY <1>2, <1>3 DEF StoreInv, StoreTypeOK, Load
<1>5. ~overlapped' => ~overlapped /\ \A q \in Procs : q # p => ~Saving(q)
  BY DEF Load, OthersSaving
<1>6. \A q \in Procs : q # p => (Saving(q)' <=> Saving(q))
  BY <1>3 DEF Saving
<1>7. Alone'
  BY <1>5, <1>6 DEF Alone
<1>8. Undisturbed' => Undisturbed /\ ~BeingWritten /\ file = ideal
  <2> SUFFICES ASSUME Undisturbed' PROVE Undisturbed /\ ~BeingWritten /\ file = ideal
    OBVIOUS
  <2>1. Undisturbed
    BY <1>5 DEF Undisturbed, Load
  <2>2. ~BeingWritten
    BY <1>5 DEF Undisturbed, BeingWritten, Saving, Load
  <2> QED
    BY <2>1, <2>2 DEF StoreInv, NothingLost
<1>9. NothingLost'
  BY <1>8 DEF NothingLost, Load
<1>10. MemIsIdeal'
  <2> SUFFICES ASSUME Undisturbed', NEW q \in Procs, Saving(q)'
               PROVE (job[q].mem = Over(job[q].changes, ideal))'
    BY DEF MemIsIdeal
  <2>1. q = p
    BY <1>5, <1>6 DEF Undisturbed
  <2>2. job'[p] = loaded /\ ideal' = ideal
    BY <1>3 DEF Load
  <2> QED
    BY <1>8, <2>1, <2>2 DEF Over
<1>11. ManualIsIdeal' /\ ManualExists'
  BY <1>8 DEF StoreInv, ManualIsIdeal, ManualExists, Load
<1>12. ManualKept'
  <2> SUFFICES ASSUME Undisturbed', NEW q \in Procs, NEW s \in Slots,
                      Saving(q)', ~(job[q].force)', (job[q].changes[s])' # None
               PROVE manual[s]' = None
    BY DEF ManualKept
  <2>1. q = p
    BY <1>5, <1>6 DEF Undisturbed
  <2>2. job'[p] = loaded
    BY <1>3
  <2>3. ~force /\ changed[s] # None
    BY <2>1, <2>2
  <2>4. file[s] \notin disk
    BY <2>3 DEF Changed, Valid
  <2>5. manual[s] = None
    BY <1>8, <2>4 DEF StoreInv, ManualIsIdeal, ManualExists
  <2> QED
    BY <2>5 DEF Load
<1> QED
  BY <1>4, <1>7, <1>9, <1>10, <1>11, <1>12 DEF StoreInv

\* The file is emptied to be written; nothing is claimed of it until it is.
LEMMA TruncateInv == ASSUME StoreInv, NEW p \in Procs, Truncate(p) PROVE StoreInv'
<1>1. job' = [job EXCEPT ![p].pc = "write"] /\ job \in [Procs -> Jobs] /\ job[p].pc = "truncate"
  BY DEF Truncate, StoreInv, StoreTypeOK
<1>2. job'[p].pc = "write" /\ job' \in [Procs -> Jobs]
  BY <1>1 DEF Jobs
<1>3. \A q \in Procs :
          /\ (Saving(q)' <=> Saving(q)) /\ job'[q].mem = job[q].mem
          /\ job'[q].changes = job[q].changes /\ job'[q].force = job[q].force
  BY <1>1 DEF Saving, Jobs
<1>4. StoreTypeOK'
  BY <1>2, NothingType DEF Truncate, StoreInv, StoreTypeOK
<1>5. NothingLost'
  BY <1>2 DEF NothingLost, BeingWritten
<1>6. Undisturbed' <=> Undisturbed
  BY DEF Undisturbed, Truncate
<1>7. Alone' /\ MemIsIdeal'
  BY <1>3, <1>6 DEF StoreInv, Alone, MemIsIdeal, Truncate, Over
<1>8. ManualIsIdeal' /\ ManualExists' /\ ManualKept'
  BY <1>3, <1>6 DEF StoreInv, ManualIsIdeal, ManualExists, ManualKept, Truncate
<1> QED
  BY <1>4, <1>5, <1>7, <1>8 DEF StoreInv

\* A process that ends its update leaves the others as they are.
LEMMA EndedJob ==
    ASSUME StoreTypeOK, NEW p \in Procs, job' = [job EXCEPT ![p] = NoJob]
    PROVE  /\ job' \in [Procs -> Jobs]
           /\ ~Saving(p)'
           /\ \A q \in Procs : q # p => job'[q] = job[q]
           /\ \A q \in Procs : Saving(q)' => Saving(q) /\ q # p
BY NoJobType DEF StoreTypeOK, Saving

\* The write: while nobody else has opened the file, what is written is the ideal.
LEMMA WriteInv == ASSUME StoreInv, NEW p \in Procs, Write(p) PROVE StoreInv'
<1>1. StoreTypeOK /\ job' = [job EXCEPT ![p] = NoJob] /\ Saving(p)
  BY DEF Write, StoreInv, Saving
<1>2. job[p] \in Jobs
  BY <1>1 DEF StoreTypeOK
<1>3. /\ file' = job[p].mem /\ job[p].mem \in Entries
      /\ ideal' = Over(job[p].changes, ideal) /\ ideal' \in Entries
  BY <1>1, <1>2, OverType DEF Write, StoreTypeOK, Jobs
<1>4. manual' \in Entries
  BY <1>1 DEF Write, StoreTypeOK, Entries
<1>5. StoreTypeOK'
  BY <1>1, <1>3, <1>4, EndedJob DEF Write, StoreTypeOK
<1>6. Undisturbed' <=> Undisturbed
  BY DEF Undisturbed, Write
<1>7. Undisturbed => \A q \in Procs : ~Saving(q)'
  BY <1>1, EndedJob DEF StoreInv, Alone, Undisturbed
<1>8. Alone'
  BY <1>1, EndedJob DEF StoreInv, Alone, Write
<1>9. NothingLost' /\ MemIsIdeal' /\ ManualKept'
  BY <1>1, <1>3, <1>6, <1>7 DEF StoreInv, NothingLost, MemIsIdeal, ManualKept
<1>10. \A s \in Slots : manual'[s] # None =>
           manual'[s] = manual[s] /\ ~(job[p].force /\ job[p].changes[s] # None)
  BY DEF Write
<1>11. ManualExists'
  BY <1>10 DEF StoreInv, ManualExists, Write
<1>12. ManualIsIdeal'
  <2> SUFFICES ASSUME Undisturbed, NEW s \in Slots, manual'[s] # None
               PROVE  ideal'[s] = manual'[s]
    BY <1>6 DEF ManualIsIdeal
  <2>1. job[p].changes[s] = None
    BY <1>1, <1>10 DEF StoreInv, ManualKept
  <2> QED
    BY <1>3, <1>10, <2>1 DEF StoreInv, ManualIsIdeal, Over
<1> QED
  BY <1>5, <1>8, <1>9, <1>11, <1>12 DEF StoreInv

\* A write that is cut short is remembered as damage,
LEMMA CutShortInv == ASSUME StoreInv, NEW p \in Procs, CutShort(p) PROVE StoreInv'
<1>1. StoreTypeOK /\ job' = [job EXCEPT ![p] = NoJob] /\ job[p] \in Jobs
  BY DEF CutShort, StoreInv, StoreTypeOK
<1>2. file' \in Entries \union {Garbled}
  BY <1>1 DEF CutShort, Jobs, Entries
<1>3. StoreTypeOK'
  BY <1>1, <1>2, EndedJob DEF CutShort, StoreTypeOK
<1>4. ~Undisturbed'
  BY DEF CutShort, Undisturbed
<1>5. Alone' /\ ManualExists'
  BY <1>1, EndedJob DEF StoreInv, Alone, ManualExists, CutShort
<1> QED
  BY <1>3, <1>4, <1>5 DEF StoreInv, NothingLost, MemIsIdeal, ManualIsIdeal, ManualKept

\* and a process that ends before it writes changes nothing.
LEMMA GiveUpInv == ASSUME StoreInv, NEW p \in Procs, GiveUp(p) PROVE StoreInv'
<1>1. StoreTypeOK /\ job' = [job EXCEPT ![p] = NoJob]
  BY DEF GiveUp, StoreInv
<1>2. StoreTypeOK'
  BY <1>1, EndedJob DEF GiveUp, StoreTypeOK
<1>3. Undisturbed' <=> Undisturbed
  BY DEF Undisturbed, GiveUp
<1>4. BeingWritten => BeingWritten'
  BY <1>1, EndedJob DEF BeingWritten, GiveUp
<1>5. Alone' /\ NothingLost' /\ ManualIsIdeal' /\ ManualExists'
  BY <1>1, <1>3, <1>4, EndedJob
  DEF StoreInv, Alone, NothingLost, ManualIsIdeal, ManualExists, GiveUp
<1>6. MemIsIdeal'
  <2>1. ASSUME Undisturbed, NEW q \in Procs, Saving(q)'
        PROVE  job'[q].mem = Over(job'[q].changes, ideal')
    BY <1>1, <2>1, EndedJob DEF StoreInv, MemIsIdeal, GiveUp
  <2> QED
    BY <1>3, <2>1 DEF MemIsIdeal, Over
<1>7. ManualKept'
  <2>1. ASSUME Undisturbed, NEW q \in Procs, NEW s \in Slots, Saving(q)',
               ~job'[q].force, job'[q].changes[s] # None
        PROVE  manual'[s] = None
    <3>1. job'[q] = job[q] /\ Saving(q)
      BY <1>1, <2>1, EndedJob
    <3> QED
      BY <2>1, <3>1 DEF StoreInv, ManualKept, GiveUp
  <2> QED
    BY <1>3, <2>1 DEF ManualKept
<1> QED
  BY <1>2, <1>5, <1>6, <1>7 DEF StoreInv

\* An edit of the user counts as a change of the ideal.
LEMMA EditInv ==
    ASSUME StoreInv, NEW s \in Slots, NEW value \in Paths \union {None}, Edit(s, value)
    PROVE  StoreInv'
<1>1. file \in Entries
  BY DEF StoreInv, StoreTypeOK, Edit, Readable
<1>2. StoreTypeOK'
  BY <1>1 DEF Edit, StoreInv, StoreTypeOK, Entries
<1>3. \A p \in Procs : Saving(p)' <=> Saving(p)
  BY DEF Saving, Edit
<1>4. Undisturbed' => Undisturbed /\ \A p \in Procs : ~Saving(p)
  BY DEF Undisturbed, Edit
<1>5. Undisturbed' => file = ideal
  BY <1>4 DEF StoreInv, NothingLost, BeingWritten, Saving
<1>6. Alone'
  BY <1>3 DEF StoreInv, Alone, Edit
<1>7. NothingLost'
  BY <1>5 DEF NothingLost, Edit
<1>8. MemIsIdeal' /\ ManualKept'
  BY <1>3, <1>4 DEF MemIsIdeal, ManualKept
<1>9. \A r \in Slots :
          /\ manual'[r] = IF r = s THEN value ELSE manual[r]
          /\ ideal'[r] = IF r = s THEN value ELSE ideal[r]
  BY DEF Edit, StoreInv, StoreTypeOK, Entries
<1>10. ManualIsIdeal' /\ ManualExists'
  BY <1>4, <1>9 DEF StoreInv, ManualIsIdeal, ManualExists, Edit
<1> QED
  BY <1>2, <1>6, <1>7, <1>8, <1>10 DEF StoreInv

\* Removing the file removes what it should hold.
LEMMA DiscardInv == ASSUME StoreInv, Discard PROVE StoreInv'
<1>1. \A p \in Procs : Saving(p)' <=> Saving(p)
  BY DEF Saving, Discard
<1>2. ~overlapped' => \A p \in Procs : ~Saving(p)
  BY DEF Discard
<1>3. StoreTypeOK'
  BY NothingType DEF Discard, StoreInv, StoreTypeOK
<1> QED
  BY <1>1, <1>2, <1>3, NothingType
  DEF Discard, StoreInv, Alone, NothingLost, Undisturbed, MemIsIdeal, ManualIsIdeal,
      ManualExists, ManualKept

\* Tools that come and go do not touch the file.
LEMMA DiskChangeInv ==
    ASSUME StoreInv, NEW paths \in SUBSET Paths, DiskChange(paths)
    PROVE  StoreInv'
<1>1. StoreTypeOK'
  BY DEF DiskChange, StoreInv, StoreTypeOK, Entries
<1>2. \A s \in Slots : manual'[s] # None => manual'[s] = manual[s] /\ manual[s] \in paths
  BY DEF DiskChange
<1>3. \A s \in Slots : manual[s] = None => manual'[s] = None
  BY DEF DiskChange
<1>4. /\ Undisturbed' <=> Undisturbed
      /\ BeingWritten' <=> BeingWritten
      /\ \A p \in Procs : Saving(p)' <=> Saving(p)
  BY DEF DiskChange, Undisturbed, BeingWritten, Saving
<1>5. Alone' /\ NothingLost' /\ MemIsIdeal'
  BY <1>4 DEF StoreInv, Alone, NothingLost, MemIsIdeal, DiskChange, Over
<1>6. ManualIsIdeal' /\ ManualExists' /\ ManualKept'
  BY <1>2, <1>3, <1>4 DEF StoreInv, ManualIsIdeal, ManualExists, ManualKept, DiskChange
<1> QED
  BY <1>1, <1>5, <1>6 DEF StoreInv

\* Every step preserves the invariant.
LEMMA StoreNextInv == StoreInv /\ [StoreNext]_storeVars => StoreInv'
<1> SUFFICES ASSUME StoreInv, [StoreNext]_storeVars PROVE StoreInv'
  OBVIOUS
<1>1. ASSUME NEW p \in Procs, NEW force \in BOOLEAN, NEW entries \in Entries, Load(p, force, entries)
      PROVE StoreInv'
  BY <1>1, LoadInv
<1>2. ASSUME NEW p \in Procs, Truncate(p) \/ Write(p) \/ CutShort(p) \/ GiveUp(p) PROVE StoreInv'
  BY <1>2, TruncateInv, WriteInv, CutShortInv, GiveUpInv
<1>3. ASSUME NEW s \in Slots, NEW value \in Paths \union {None}, Edit(s, value) PROVE StoreInv'
  BY <1>3, EditInv
<1>4. CASE Discard
  BY <1>4, DiscardInv
<1>5. ASSUME NEW paths \in SUBSET Paths, DiskChange(paths) PROVE StoreInv'
  BY <1>5, DiskChangeInv
<1>6. CASE UNCHANGED storeVars
  <2>1. /\ Undisturbed' <=> Undisturbed
        /\ BeingWritten' <=> BeingWritten
        /\ \A p \in Procs : Saving(p)' <=> Saving(p)
    BY <1>6 DEF storeVars, Undisturbed, BeingWritten, Saving
  <2>2. StoreTypeOK' /\ Alone' /\ NothingLost' /\ MemIsIdeal'
    BY <1>6, <2>1 DEF storeVars, StoreInv, StoreTypeOK, Alone, NothingLost, MemIsIdeal, Over
  <2>3. ManualIsIdeal' /\ ManualExists' /\ ManualKept'
    BY <1>6, <2>1 DEF storeVars, StoreInv, ManualIsIdeal, ManualExists, ManualKept
  <2> QED
    BY <2>2, <2>3 DEF StoreInv
<1> QED
  BY <1>1, <1>2, <1>3, <1>4, <1>5, <1>6 DEF StoreNext

\* Everything the argument relies on holds of every behaviour of the file.
THEOREM StoreInvariant == StoreSpec => []StoreInv
<1>1. (\E initial \in SUBSET Paths : StoreInit(initial)) => StoreInv
  BY InitStoreInv
<1> QED
  BY <1>1, StoreNextInv, PTL DEF StoreSpec

\* Updates that do not overlap and are not cut short lose nothing
\* (toolchain_config.py:66-92).
THEOREM StoreLosesNothing == StoreSpec => []NothingLost
<1>1. StoreInv => NothingLost
  BY DEF StoreInv
<1> QED
  BY <1>1, StoreInvariant, PTL

\* The invariant says it of the ideal, and the file is the ideal.
LEMMA InvKeepsOverrides == StoreInv => OverridesKept
BY DEF StoreInv, NothingLost, ManualIsIdeal, OverridesKept

\* And keep the entries made by hand, as toolchain_config.py:19 promises.
THEOREM StoreKeepsOverrides == StoreSpec => []OverridesKept
BY InvKeepsOverrides, StoreInvariant, PTL

-----------------------------------------------------------------------------
(***************************************************************************)
(* The commands: Toolchain.                                                *)
(***************************************************************************)
Versioned == Analysis \X Versions

\* Entries that name tools of the right version, and libprotobuf-mutator only if
\* it was built.
Sound(x, lent, built) ==
    /\ x \in Entries
    /\ \A n \in Versioned : x[n] = None \/ VersionOf(x[n]) = n[2] \/ n \in lent
    /\ x[Lpm] # None => built

SoundJob(j, lent, built) == Sound(j.mem, lent, built) /\ Sound(j.changes, lent, built)

SoundCmd(c, lent, built) ==
    /\ c = [pc |-> c.pc, ver |-> c.ver, force |-> c.force, left |-> c.left, found |-> c.found]
    /\ c.force \in BOOLEAN
    /\ c.pc \in {"install", "register"} => c.ver \in Versions
    /\ Sound(c.found, lent, built)

Built == lpm.built \/ unbuilt
LpmTypeOK ==
    /\ lpm = [generator |-> lpm.generator, built |-> lpm.built]
    /\ lpm.built \in BOOLEAN /\ unbuilt \in BOOLEAN

ToolInv ==
    /\ StoreInv
    /\ Readable => Sound(file, borrowed, Built)
    /\ \A p \in Procs : SoundJob(job[p], borrowed, Built)
    /\ cmd = [p \in Procs |-> cmd[p]]
    /\ \A p \in Procs : SoundCmd(cmd[p], borrowed, Built)
    /\ LpmTypeOK

-----------------------------------------------------------------------------
(***************************************************************************)
(* Names, versions and paths.                                              *)
(***************************************************************************)

\* A bounded set of numbers has a maximum.
LEMMA MaxIn ==
    ASSUME NEW N \in Nat, NEW S \in SUBSET (0 .. N), S # {}
    PROVE  Max(S) \in S /\ \A y \in S : Max(S) >= y
<1> DEFINE T == {N - v : v \in S}
<1>0. \A v \in S : v \in Nat /\ v <= N /\ N - v \in Nat
  OBVIOUS
<1>1. T \subseteq Nat /\ T # {}
  BY <1>0
<1>2. PICK x \in T : \A y \in T : ~(<<y, x>> \in OpToRel(<, Nat))
  <2> HIDE DEF T
  <2> QED
    BY <1>1, NatLessThanWellFounded, WFMin
<1>3. PICK v \in S : x = N - v
  OBVIOUS
<1>4. ASSUME NEW y \in S PROVE v >= y
  <2>1. N - y \in T /\ N - y \in Nat /\ x \in Nat
    BY <1>0, <1>3
  <2>2. ~(N - y < x)
    BY <1>2, <2>1 DEF OpToRel
  <2> QED
    BY <1>0, <1>3, <2>1, <2>2
<1> QED
  BY <1>4 DEF Max

\* Versions are positive numbers; 0 stands for none.
LEMMA VersionsAreNumbers == Versions \subseteq Nat \ {0} /\ Versions \union {0} \subseteq 0 .. Newest
BY VersionsAssumption

\* Every tool has a version, and a name with a version is in PATH for that one.
LEMMA VersionType == ASSUME NEW x, x[3] \in Versions \union {0} PROVE VersionOf(x) \in Versions
BY VersionsAssumption DEF VersionOf

\* A program in PATH whose name has a version is of that version.
LEMMA WhichVersion ==
    ASSUME NEW n \in LlvmNames
    PROVE  /\ InPath(n)[3] = n[2]
           /\ n[2] # 0 => VersionOf(InPath(n)) = n[2]
BY DEF InPath, VersionOf, LlvmNames

\* What a path says of its version is a version, or nothing.
LEMMA PathThird == \A x \in Paths : x[3] \in Versions \union {0}
BY SlotsAssumption, VersionsAssumption
DEF ToolPaths, InPath, InLlvm, Local, LlvmNames, Libtool, Lpm

\* The versioned names are names of analysis tools; libtool and the library have none.
LEMMA VersionedNames ==
    /\ Versioned \subseteq LlvmNames
    /\ LlvmNames \subseteq Slots
    /\ Lpm \in Slots /\ Libtool \in Slots
    /\ \A n \in Versioned : n[1] \in Analysis /\ n[2] \in Versions /\ n[2] # 0
    /\ \A n \in LlvmNames : n[1] # "lpm-root" /\ n[1] # "libtool"
    /\ \A n \in Versioned : n[1] # "clang" /\ n # Lpm /\ n # Libtool
    /\ Lpm # Libtool /\ Lpm[1] = "lpm-root"
BY SlotsAssumption, AnalysisAssumption, VersionsAreNumbers
DEF Versioned, LlvmNames, LlvmTools, ToolNames, Lpm, Libtool

\* A lookup finds a path or nothing.
LEMMA ResolveType ==
    ASSUME StoreInv, NEW n \in LlvmNames \union {Libtool}
    PROVE  Resolve(n) \in Paths \union {None}
BY SlotsAssumption DEF StoreInv, StoreTypeOK, Resolve, Recorded, Which, Valid

\* The detected clang is of some version, if there is one.
LEMMA DetectedType == ASSUME StoreInv PROVE Detected \in Versions \union {None}
<1> SUFFICES ASSUME ClangNames # {} PROVE Detected \in Versions
  BY DEF Detected
<1>1. ClangNames \subseteq 0 .. Newest /\ ClangNames \subseteq Versions \union {0}
  BY VersionsAreNumbers DEF ClangNames
<1>2. Max(ClangNames) \in ClangNames
  BY <1>1, MaxIn, VersionsAssumption
<1>3. <<"clang", Max(ClangNames)>> \in LlvmNames
  BY <1>1, <1>2 DEF LlvmNames, LlvmTools
<1>4. Resolve(<<"clang", Max(ClangNames)>>) # None
  BY <1>2 DEF ClangNames
<1>5. Resolve(<<"clang", Max(ClangNames)>>) \in Paths
  BY <1>3, <1>4, ResolveType
<1>6. Resolve(<<"clang", Max(ClangNames)>>)[3] \in Versions \union {0}
  BY <1>5, PathThird
<1> QED
  BY <1>6, VersionType DEF Detected

\* The name an analysis tool is recorded under is one of its own.
LEMMA WantedType ==
    ASSUME StoreInv, NEW t \in Analysis
    PROVE  /\ Wanted(t) \in LlvmNames
           /\ Wanted(t)[1] = t
           /\ Wanted(t)[2] # 0 => Wanted(t) \in Versioned
BY DetectedType DEF Wanted, LlvmNames, LlvmTools, Versioned

\* What is recorded or in PATH under a versioned name is of that version.
LEMMA ResolvedVersion ==
    ASSUME ToolInv, Readable, NEW n \in Versioned, Resolve(n) # None
    PROVE  VersionOf(Resolve(n)) = n[2] \/ n \in borrowed
<1>1. n \in LlvmNames /\ n[2] # 0
  BY VersionedNames
<1>2. file[n] = None \/ VersionOf(file[n]) = n[2] \/ n \in borrowed
  BY DEF ToolInv, Sound
<1> QED
  BY <1>1, <1>2, WhichVersion DEF Resolve, Recorded, Which

-----------------------------------------------------------------------------
(***************************************************************************)
(* Sound entries.                                                          *)
(***************************************************************************)
LEMMA SoundNothing == ASSUME NEW lent, NEW built PROVE Sound(Nothing, lent, built)
BY NothingType, VersionedNames DEF Sound

\* A part of sound entries is sound,
LEMMA SoundSomeOf ==
    ASSUME NEW lent, NEW built, NEW x, Sound(x, lent, built), NEW y \in Entries,
           \A s \in Slots : y[s] \in {x[s], None}
    PROVE  Sound(y, lent, built)
BY VersionedNames DEF Sound

\* and so are sound entries laid over others,
LEMMA SoundOver ==
    ASSUME NEW lent, NEW built, NEW x, Sound(x, lent, built), NEW y, Sound(y, lent, built)
    PROVE  Sound(Over(x, y), lent, built)
<1>1. Over(x, y) \in Entries
  BY OverType DEF Sound
<1>2. \A s \in Slots : Over(x, y)[s] = IF x[s] = None THEN y[s] ELSE x[s]
  BY DEF Over
<1> QED
  BY <1>1, <1>2, VersionedNames DEF Sound

\* also when more tools were borrowed since, or the library built,
LEMMA SoundLater ==
    ASSUME NEW lent, NEW built, NEW x, Sound(x, lent, built),
           NEW lent2, NEW built2, lent \subseteq lent2, built => built2
    PROVE  Sound(x, lent2, built2)
BY DEF Sound

\* and what a section has of them,
LEMMA SoundInSection ==
    ASSUME NEW lent, NEW built, NEW x, Sound(x, lent, built), NEW section
    PROVE  Sound(InSection(section, x), lent, built)
<1>1. x \in Entries
  BY DEF Sound
<1>2. InSection(section, x) \in Entries /\ \A s \in Slots : InSection(section, x)[s] \in {x[s], None}
  BY <1>1 DEF InSection, Entries
<1> QED
  BY <1>2, SoundSomeOf

\* and what an update changes.
LEMMA SoundChanged ==
    ASSUME NEW lent, NEW built, NEW config, NEW force, NEW x, Sound(x, lent, built)
    PROVE  Sound(Changed(config, force, x), lent, built)
<1>1. x \in Entries
  BY DEF Sound
<1>2. /\ Changed(config, force, x) \in Entries
      /\ \A s \in Slots : Changed(config, force, x)[s] \in {x[s], None}
  BY <1>1 DEF Changed, Entries
<1> QED
  BY <1>2, SoundSomeOf

\* A process that does nothing has nothing to record,
LEMMA SoundIdle == ASSUME NEW lent, NEW built PROVE SoundCmd(Idle, lent, built)
BY SoundNothing DEF SoundCmd, Idle

\* nor a store that is not in use.
LEMMA SoundNoJob == ASSUME NEW lent, NEW built PROVE SoundJob(NoJob, lent, built)
BY SoundNothing DEF SoundJob, NoJob

\* A command that starts to record sound entries is sound.
LEMMA SoundRecording ==
    ASSUME NEW lent, NEW built, NEW force \in BOOLEAN, NEW x, Sound(x, lent, built)
    PROVE  SoundCmd(Recording(force, x), lent, built)
<1>1. CASE x = Nothing
  BY <1>1, SoundIdle DEF Recording
<1>2. CASE x # Nothing
  <2> DEFINE c == [pc |-> "record", ver |-> 0, force |-> force, left |-> SectionsOf(x), found |-> x]
  <2>1. Recording(force, x) = c
    BY <1>2 DEF Recording, Idle
  <2>2. SoundCmd(c, lent, built)
    BY DEF SoundCmd
  <2> QED
    BY <2>1, <2>2
<1> QED
  BY <1>1, <1>2

\* One entry of libtool or of the library is sound, the latter when it was built.
LEMMA SoundOne ==
    ASSUME NEW lent, NEW built, NEW n \in {Libtool, Lpm}, NEW x \in Paths \union {None},
           n = Lpm => built
    PROVE  Sound(One(n, x), lent, built)
<1>1. /\ One(n, x) \in Entries
      /\ \A s \in Slots : One(n, x)[s] = IF s = n THEN x ELSE None
  BY NothingType DEF One, Entries
<1> QED
  BY <1>1, VersionedNames DEF Sound

-----------------------------------------------------------------------------
(***************************************************************************)
(* The commands use the store as it allows, and stay sound.                *)
(***************************************************************************)

\* The tools kept in .toolchain are among the paths,
LEMMA LocalPaths == Local(Libtool) \in Paths /\ Local(Lpm) \in Paths /\ InPath(Libtool) \in Paths
BY SlotsAssumption DEF ToolPaths

\* as are those of a package,
LEMMA PackagePaths ==
    ASSUME NEW t \in LlvmTools, NEW v \in Versions
    PROVE  Package(t, v) \subseteq Paths
<1>1. <<t, v>> \in LlvmNames
  BY DEF LlvmNames
<1>2. InPath(<<t, v>>) \in Paths /\ InLlvm(t, v) \in Paths
  BY <1>1, SlotsAssumption DEF ToolPaths
<1> QED
  BY <1>2 DEF Package

\* Every disk that a step makes is one of paths that tools can have.
LEMMA InstallLlvmPaths ==
    ASSUME ToolInv, NEW p \in Procs, cmd[p].pc = "install"
    PROVE  (disk \union UNION {Package(t, cmd[p].ver) : t \in LlvmTools}) \in SUBSET Paths
<1>1. cmd[p].ver \in Versions
  BY DEF ToolInv, SoundCmd
<1> QED
  BY <1>1, PackagePaths DEF ToolInv, StoreInv, StoreTypeOK

\* and those apt installs under any name.
LEMMA InstallPaths ==
    ASSUME ToolInv, NEW n \in LlvmNames \union {Libtool}, Install(n)
    PROVE  \E paths \in SUBSET Paths : DiskChange(paths)
<1>1. disk \subseteq Paths
  BY DEF ToolInv, StoreInv, StoreTypeOK
<1>2. CASE n = Libtool
  BY <1>1, <1>2, LocalPaths DEF Install
<1>3. CASE n # Libtool /\ n[2] = 0
  <2>1. n \in LlvmNames /\ n[1] \in LlvmTools
    BY <1>3 DEF LlvmNames
  <2>2. InPath(n) \in Paths /\ Package(n[1], Plain) \subseteq Paths
    BY <2>1, PackagePaths, SlotsAssumption, VersionsAssumption DEF ToolPaths
  <2> QED
    BY <1>1, <1>3, <2>2 DEF Install
<1>4. CASE n # Libtool /\ n[2] # 0
  <2>1. n[1] \in LlvmTools /\ n[2] \in Versions
    BY <1>4 DEF LlvmNames
  <2>2. Package(n[1], n[2]) \subseteq Paths
    BY <2>1, PackagePaths
  <2> QED
    BY <1>1, <1>4, <2>2 DEF Install
<1> QED
  BY <1>2, <1>3, <1>4

\* Each step changes the file, or the disk, as ToolchainConfig says, or neither.
LEMMA StoreSteps == ToolInv /\ [Next]_vars => [StoreNext]_storeVars
<1> SUFFICES ASSUME ToolInv, [Next]_vars PROVE [StoreNext]_storeVars
  OBVIOUS
<1>0. disk \subseteq Paths
  BY DEF ToolInv, StoreInv, StoreTypeOK
<1>1. ASSUME NEW p \in Procs, Record(p) PROVE StoreNext
  <2>1. cmd[p].force \in BOOLEAN /\ InSection(Head(cmd[p].left), cmd[p].found) \in Entries
    BY SoundInSection DEF ToolInv, SoundCmd, Sound
  <2> QED
    BY <1>1, <2>1 DEF Record, StoreNext
<1>2. ASSUME NEW p \in Procs, Open(p) \/ Save(p) \/ Fail(p) PROVE StoreNext
  BY <1>2 DEF Open, Save, Fail, StoreNext
<1>3. ASSUME NEW p \in Procs, StartCheck(p) \/ Scan(p) \/ Scanned(p) \/ Register(p)
      PROVE UNCHANGED storeVars
  BY <1>3 DEF StartCheck, Scan, Scanned, Register
<1>4. ASSUME NEW p \in Procs, NEW asked \in Versions \union {0}, NEW force \in BOOLEAN,
             StartLlvm(p, asked, force) \/ StartLibtool(p, force) \/ StartLpm(p, force)
      PROVE UNCHANGED storeVars
  BY <1>4 DEF StartLlvm, StartLibtool, StartLpm
<1>5. ASSUME NEW p \in Procs, InstallLlvm(p) PROVE StoreNext
  <2>1. (disk \union UNION {Package(t, cmd[p].ver) : t \in LlvmTools}) \in SUBSET Paths
    BY <1>5, InstallLlvmPaths DEF InstallLlvm
  <2> QED
    BY <1>5, <2>1 DEF InstallLlvm, StoreNext
<1>6. ASSUME NEW p \in Procs, FetchLibtool(p) \/ CloneLpm(p) PROVE StoreNext
  <2>1. (disk \union {Local(Libtool)}) \in SUBSET Paths /\ (disk \union {Local(Lpm)}) \in SUBSET Paths
    BY <1>0, LocalPaths
  <2> QED
    BY <1>6, <2>1 DEF FetchLibtool, CloneLpm, StoreNext
<1>7. ASSUME NEW p \in Procs, NEW generator \in Generators, ConfigureLpm(p, generator) \/ BuildLpm(p)
      PROVE UNCHANGED storeVars
  BY <1>7 DEF ConfigureLpm, BuildLpm
<1>8. ASSUME NEW n \in LlvmNames \union {Libtool}, Install(n) PROVE StoreNext
  BY <1>8, InstallPaths DEF StoreNext
<1>9. ASSUME NEW t \in LlvmTools, NEW v \in Versions, Uninstall(t, v) PROVE StoreNext
  <2> DEFINE left == disk \ (Package(t, v) \union (IF v = Plain THEN {InPath(<<t, 0>>)} ELSE {}))
  <2>1. left \in SUBSET Paths
    BY <1>0
  <2>2. DiskChange(left)
    BY <1>9 DEF Uninstall
  <2> QED
    BY <2>1, <2>2 DEF StoreNext
<1>10. ASSUME NEW n \in ToolNames \ {Lpm}, NEW value \in Paths \union {None}, EditEntry(n, value)
       PROVE StoreNext
  BY <1>10, SlotsAssumption DEF EditEntry, StoreNext
<1>11. CASE RemoveToolchain
  <2>1. (disk \ {Local(Libtool), Local(Lpm)}) \in SUBSET Paths
    BY <1>0
  <2> QED
    BY <1>11, <2>1 DEF RemoveToolchain, StoreNext
<1>12. CASE RemoveConfig
  BY <1>12 DEF RemoveConfig, StoreNext
<1>13. CASE UNCHANGED vars
  BY <1>13 DEF vars
<1> QED
  BY <1>1, <1>2, <1>3, <1>4, <1>5, <1>6, <1>7, <1>8, <1>9, <1>10, <1>11, <1>12, <1>13
  DEF Next, Generators

-----------------------------------------------------------------------------
(***************************************************************************)
(* The invariant.                                                          *)
(***************************************************************************)

\* The configuration of a new project records nothing.
LEMMA InitToolInv == Init => ToolInv
<1> SUFFICES ASSUME Init PROVE ToolInv
  OBVIOUS
<1>1. StoreInv
  BY InitStoreInv, InitialAssumption DEF Init
<1>2. file = Nothing /\ job = [p \in Procs |-> NoJob]
  BY DEF Init, StoreInit
<1>3. cmd = [p \in Procs |-> cmd[p]] /\ \A p \in Procs : SoundCmd(cmd[p], borrowed, Built)
  BY SoundIdle DEF Init
<1>4. LpmTypeOK
  BY DEF Init, NoBuild, LpmTypeOK
<1> QED
  BY <1>1, <1>2, <1>3, <1>4, SoundNothing, SoundNoJob DEF ToolInv

\* What is sound stays so when more is borrowed, or built.
LEMMA StaysSound ==
    ASSUME ToolInv, borrowed \subseteq borrowed', Built => Built'
    PROVE  /\ Readable => Sound(file, borrowed', Built')
           /\ \A p \in Procs : SoundJob(job[p], borrowed', Built')
           /\ \A p \in Procs : SoundCmd(cmd[p], borrowed', Built')
BY SoundLater DEF ToolInv, SoundJob, SoundCmd

\* A step of a command that does not touch the file.
LEMMA CommandStep ==
    ASSUME ToolInv, StoreInv', NEW p \in Procs, NEW c, cmd' = [cmd EXCEPT ![p] = c],
           UNCHANGED <<file, job>>, borrowed \subseteq borrowed', Built => Built', LpmTypeOK',
           SoundCmd(c, borrowed', Built')
    PROVE  ToolInv'
<1>1. cmd = [q \in Procs |-> cmd[q]]
  BY DEF ToolInv
<1>2. /\ cmd' = [q \in Procs |-> cmd'[q]]
      /\ \A q \in Procs : cmd'[q] = IF q = p THEN c ELSE cmd[q]
  BY <1>1
<1>3. \A q \in Procs : SoundCmd(cmd'[q], borrowed', Built')
  BY <1>2, StaysSound
<1>4. Readable' = Readable
  BY DEF Readable
<1> QED
  BY <1>2, <1>3, <1>4, StaysSound DEF ToolInv

\* A step that leaves the commands alone as well.
LEMMA SystemStep ==
    ASSUME ToolInv, StoreInv', UNCHANGED <<file, job, cmd>>,
           borrowed \subseteq borrowed', Built => Built', LpmTypeOK'
    PROVE  ToolInv'
<1>1. Readable' = Readable
  BY DEF Readable
<1> QED
  BY <1>1, StaysSound DEF ToolInv

\* A step of a command that leaves what is borrowed and built alone.
LEMMA PlainStep ==
    ASSUME ToolInv, StoreInv', NEW p \in Procs, NEW c, cmd' = [cmd EXCEPT ![p] = c],
           UNCHANGED <<file, job, borrowed, lpm, unbuilt>>, SoundCmd(c, borrowed, Built)
    PROVE  ToolInv'
<1>1. Built' = Built /\ LpmTypeOK'
  BY DEF Built, ToolInv, LpmTypeOK
<1> QED
  BY <1>1, CommandStep

\* A command that goes on keeps what it found.
LEMMA SoundGoto ==
    ASSUME NEW lent, NEW built, NEW c, SoundCmd(c, lent, built),
           NEW pc, pc \in {"install", "register"} => c.ver \in Versions
    PROVE  SoundCmd([c EXCEPT !.pc = pc], lent, built)
<1> DEFINE d == [pc |-> pc, ver |-> c.ver, force |-> c.force, left |-> c.left, found |-> c.found]
<1>1. [c EXCEPT !.pc = pc] = d
  BY DEF SoundCmd
<1>2. SoundCmd(d, lent, built)
  BY DEF SoundCmd
<1> QED
  BY <1>1, <1>2

\* The sections still to be written do not matter to what is recorded.
LEMMA SoundLeft ==
    ASSUME NEW lent, NEW built, NEW c, SoundCmd(c, lent, built), NEW left
    PROVE  SoundCmd([c EXCEPT !.left = left], lent, built)
<1> DEFINE d == [pc |-> c.pc, ver |-> c.ver, force |-> c.force, left |-> left, found |-> c.found]
<1>1. [c EXCEPT !.left = left] = d
  BY DEF SoundCmd
<1>2. SoundCmd(d, lent, built)
  BY DEF SoundCmd
<1> QED
  BY <1>1, <1>2

\* A command may take up other sound entries.
LEMMA SoundFound ==
    ASSUME NEW lent, NEW built, NEW c, SoundCmd(c, lent, built), NEW x, Sound(x, lent, built)
    PROVE  SoundCmd([c EXCEPT !.found = x], lent, built)
<1> DEFINE d == [pc |-> c.pc, ver |-> c.ver, force |-> c.force, left |-> c.left, found |-> x]
<1>1. [c EXCEPT !.found = x] = d
  BY DEF SoundCmd
<1>2. SoundCmd(d, lent, built)
  BY DEF SoundCmd
<1> QED
  BY <1>1, <1>2

\* An idle command may take up any version,
LEMMA SoundVersion ==
    ASSUME NEW lent, NEW built, NEW c, SoundCmd(c, lent, built), c.pc = "idle", NEW v
    PROVE  SoundCmd([c EXCEPT !.ver = v], lent, built) /\ [c EXCEPT !.ver = v].ver = v
<1> DEFINE d == [pc |-> c.pc, ver |-> v, force |-> c.force, left |-> c.left, found |-> c.found]
<1>1. [c EXCEPT !.ver = v] = d
  BY DEF SoundCmd
<1>2. SoundCmd(d, lent, built) /\ d.ver = v
  BY DEF SoundCmd
<1> QED
  BY <1>1, <1>2

\* one that installs must have a version of LLVM,
LEMMA SoundAt ==
    ASSUME NEW lent, NEW built, NEW pc, NEW v,
           pc \in {"install", "register"} => v \in Versions
    PROVE  SoundCmd([Idle EXCEPT !.ver = v, !.pc = pc], lent, built)
<1> DEFINE c == [Idle EXCEPT !.ver = v]
<1>1. SoundCmd(c, lent, built) /\ c.ver = v
  BY SoundIdle, SoundVersion DEF Idle
<1>2. SoundCmd([c EXCEPT !.pc = pc], lent, built)
  <2> HIDE DEF c
  <2> QED
    BY <1>1, SoundGoto
<1>3. [Idle EXCEPT !.ver = v, !.pc = pc] = [c EXCEPT !.pc = pc]
  OBVIOUS
<1> QED
  BY <1>2, <1>3

\* one that does something else need not.
LEMMA SoundStart ==
    ASSUME NEW lent, NEW built, NEW pc, pc \notin {"install", "register"}, NEW left
    PROVE  /\ SoundCmd([Idle EXCEPT !.pc = pc, !.left = left], lent, built)
           /\ SoundCmd([Idle EXCEPT !.pc = pc], lent, built)
<1> DEFINE c == [Idle EXCEPT !.pc = pc]
<1>1. SoundCmd(c, lent, built)
  BY SoundIdle, SoundGoto
<1>2. SoundCmd([c EXCEPT !.left = left], lent, built)
  <2> HIDE DEF c
  <2> QED
    BY <1>1, SoundLeft
<1>3. [Idle EXCEPT !.pc = pc, !.left = left] = [c EXCEPT !.left = left]
  OBVIOUS
<1> QED
  BY <1>1, <1>2, <1>3

-----------------------------------------------------------------------------
(***************************************************************************)
(* Each action.                                                            *)
(***************************************************************************)

\* Recording a section preserves the invariant: the entries the store lays over the file are sound.
LEMMA RecordInv == ASSUME ToolInv, StoreInv', NEW p \in Procs, Record(p) PROVE ToolInv'
<1> DEFINE entries == InSection(Head(cmd[p].left), cmd[p].found)
           changed == Changed(file, cmd[p].force, entries)
           loaded == [pc |-> "truncate", force |-> cmd[p].force,
                      mem |-> Over(changed, file), changes |-> changed]
           c == [cmd[p] EXCEPT !.left = Tail(cmd[p].left)]
<1>1. /\ job' = [job EXCEPT ![p] = loaded] /\ Readable
      /\ UNCHANGED <<file, borrowed, lpm, unbuilt>>
  BY DEF Record, Load
<1>2. job \in [Procs -> Jobs]
  BY DEF ToolInv, StoreInv, StoreTypeOK
<1>3. Sound(changed, borrowed, Built) /\ Sound(Over(changed, file), borrowed, Built)
  BY <1>1, SoundInSection, SoundChanged, SoundOver DEF ToolInv, SoundCmd
<1>4. \A q \in Procs : SoundJob(job'[q], borrowed, Built)
  BY <1>1, <1>2, <1>3 DEF ToolInv, SoundJob
<1>5. cmd' = [cmd EXCEPT ![p] = c] /\ cmd = [q \in Procs |-> cmd[q]]
  BY DEF Record, ToolInv
<1>6. SoundCmd(c, borrowed, Built)
  BY SoundLeft DEF ToolInv
<1>7. /\ cmd' = [q \in Procs |-> cmd'[q]]
      /\ \A q \in Procs : SoundCmd(cmd'[q], borrowed, Built)
  <2>1. \A q \in Procs : cmd'[q] = IF q = p THEN c ELSE cmd[q]
    BY <1>5
  <2> QED
    BY <1>5, <1>6, <2>1 DEF ToolInv
<1>8. Built' = Built /\ Readable' = Readable /\ LpmTypeOK'
  BY <1>1 DEF Built, Readable, ToolInv, LpmTypeOK
<1> QED
  BY <1>1, <1>4, <1>7, <1>8 DEF ToolInv

\* The file is written by no other steps: what it says then was in memory.
LEMMA SaveInv ==
    ASSUME ToolInv, StoreInv', NEW p \in Procs, Open(p) \/ Save(p) \/ Fail(p)
    PROVE  ToolInv'
<1>1. UNCHANGED <<borrowed, lpm, unbuilt>>
  BY DEF Open, Save, Fail
<1>2. Built' = Built /\ LpmTypeOK'
  BY <1>1 DEF Built, ToolInv, LpmTypeOK
<1>3. job \in [Procs -> Jobs] /\ SoundJob(job[p], borrowed, Built)
  BY DEF ToolInv, StoreInv, StoreTypeOK
<1>4. \A q \in Procs : SoundJob(job'[q], borrowed, Built)
  <2>1. CASE Open(p)
    <3>1. job' = [job EXCEPT ![p].pc = "write"]
      BY <2>1 DEF Open, Truncate
    <3>2. \A q \in Procs : job'[q].mem = job[q].mem /\ job'[q].changes = job[q].changes
      BY <1>3, <3>1 DEF Jobs
    <3> QED
      BY <3>2 DEF ToolInv, SoundJob
  <2>2. CASE Save(p) \/ Fail(p)
    <3>1. job' = [job EXCEPT ![p] = NoJob]
      BY <2>2 DEF Save, Write, Fail, CutShort, GiveUp
    <3>2. \A q \in Procs : job'[q] = IF q = p THEN NoJob ELSE job[q]
      BY <1>3, <3>1
    <3> QED
      BY <3>2, SoundNoJob DEF ToolInv
  <2> QED
    BY <2>1, <2>2
<1>5. Readable' => Sound(file', borrowed, Built)
  <2>1. CASE Open(p)
    BY <2>1, SoundNothing DEF Open, Truncate
  <2>2. CASE Save(p)
    BY <1>3, <2>2 DEF Save, Write, SoundJob
  <2>3. CASE Fail(p) /\ CutShort(p)
    <3> SUFFICES ASSUME Readable' PROVE Sound(file', borrowed, Built)
      OBVIOUS
    <3>1. file' \in Entries
      BY DEF StoreInv, StoreTypeOK, Readable
    <3>2. \A s \in Slots : file'[s] \in {job[p].mem[s], None}
      BY <2>3 DEF CutShort, Readable
    <3> QED
      BY <1>3, <3>1, <3>2, SoundSomeOf DEF SoundJob
  <2>4. CASE Fail(p) /\ GiveUp(p)
    BY <2>4 DEF GiveUp, Readable, ToolInv
  <2> QED
    BY <2>1, <2>2, <2>3, <2>4 DEF Fail
<1>6. /\ cmd' = [q \in Procs |-> cmd'[q]]
      /\ \A q \in Procs : SoundCmd(cmd'[q], borrowed, Built)
  <2>1. cmd = [q \in Procs |-> cmd[q]] /\ \A q \in Procs : SoundCmd(cmd[q], borrowed, Built)
    BY DEF ToolInv
  <2>2. \/ cmd' = cmd \/ cmd' = [cmd EXCEPT ![p] = Idle]
        \/ cmd' = [cmd EXCEPT ![p] = cmd[p]]
    BY DEF Open, Save, Fail
  <2>3. \A q \in Procs : cmd'[q] \in {cmd[q], Idle}
    BY <2>1, <2>2
  <2> QED
    BY <2>1, <2>2, <2>3, SoundIdle
<1> QED
  BY <1>1, <1>2, <1>4, <1>5, <1>6 DEF ToolInv

\* What a check finds is sound, with what it borrows.
LEMMA SoundFinds ==
    ASSUME ToolInv, Readable, NEW tool, NEW lent, borrowed \subseteq lent,
           tool = "llvm" => {Wanted(t) : t \in {u \in Analysis : Borrows(u)}} \subseteq lent
    PROVE  Sound(Finds(tool), lent, Built)
<1>0. StoreInv
  BY DEF ToolInv
<1>1. ASSUME NEW t \in Analysis PROVE Lookup(t) \in Paths \union {None}
  <2>1. Wanted(t) \in LlvmNames /\ <<t, 0>> \in LlvmNames
    BY <1>0, WantedType DEF LlvmNames, LlvmTools
  <2> QED
    BY <1>0, <2>1, ResolveType DEF Lookup
<1>2. ASSUME NEW t \in Analysis PROVE Wanted(t)[1] = t
  BY <1>0, WantedType
<1>3. ASSUME NEW s \in Slots, tool \in {"clang", "libtool"}, s = <<tool, 0>>
      PROVE  Resolve(s) \in Paths \union {None}
  <2>1. s \in LlvmNames \union {Libtool}
    BY <1>3 DEF LlvmNames, LlvmTools, Libtool
  <2> QED
    BY <1>0, <2>1, ResolveType
<1>4. Finds(tool) \in Entries
  <2>1. ASSUME NEW s \in Slots PROVE Finds(tool)[s] \in Paths \union {None}
    BY <1>1, <1>2, <1>3 DEF Finds
  <2> QED
    BY <2>1 DEF Finds, Entries
<1>5. ASSUME NEW n \in Versioned, Finds(tool)[n] # None
      PROVE  VersionOf(Finds(tool)[n]) = n[2] \/ n \in lent
  <2>1. n \in Slots /\ n[2] # 0
    BY VersionedNames
  <2>2. PICK t \in Analysis : n = Wanted(t) /\ tool = "llvm"
    BY <1>5, <2>1 DEF Finds
  <2>3. Finds(tool)[n] = Lookup(t)
    BY <1>2, <2>1, <2>2 DEF Finds
  <2>4. CASE FallsBack(t)
    <3>1. Lookup(t) = Resolve(<<t, 0>>)
      BY <2>4 DEF Lookup
    <3>2. Borrows(t) => n \in lent
      BY <2>2
    <3> QED
      BY <2>1, <2>2, <2>3, <2>4, <3>1, <3>2 DEF Borrows
  <2>5. CASE ~FallsBack(t)
    <3>1. Lookup(t) = Resolve(n)
      BY <2>2, <2>5 DEF Lookup
    <3> QED
      BY <1>5, <2>3, <3>1, ResolvedVersion
  <2> QED
    BY <2>4, <2>5
<1>6. Finds(tool)[Lpm] = None
  <2>1. Lpm \in Slots /\ Lpm[1] = "lpm-root" /\ "lpm-root" \notin Analysis
    BY VersionedNames, AnalysisAssumption
  <2>2. \A t \in Analysis : Lpm # Wanted(t)
    BY <1>2, <2>1
  <2> QED
    BY <2>1, <2>2 DEF Finds
<1> QED
  BY <1>4, <1>5, <1>6 DEF Sound

\* A check records what the scan finds.
LEMMA CheckInv ==
    ASSUME ToolInv, StoreInv', NEW p \in Procs, StartCheck(p) \/ Scan(p) \/ Scanned(p)
    PROVE  ToolInv'
<1>1. UNCHANGED <<file, job, lpm, unbuilt>> /\ borrowed \subseteq borrowed'
  BY DEF StartCheck, Scan, Scanned, storeVars
<1>2. Built' = Built /\ LpmTypeOK'
  BY <1>1 DEF Built, ToolInv, LpmTypeOK
<1>3. SoundCmd(cmd[p], borrowed', Built)
  BY <1>1, <1>2, StaysSound
<1>4. CASE StartCheck(p)
  BY <1>1, <1>2, <1>4, CommandStep, SoundStart DEF StartCheck, Start
<1>5. CASE Scan(p)
  <2> DEFINE tool == Head(cmd[p].left)
             found == Over(Finds(tool), cmd[p].found)
             c == [cmd[p] EXCEPT !.left = Tail(cmd[p].left)]
  <2>1. /\ Readable
        /\ cmd' = [cmd EXCEPT ![p] = [cmd[p] EXCEPT !.left = Tail(cmd[p].left), !.found = found]]
        /\ tool = "llvm" => {Wanted(t) : t \in {u \in Analysis : Borrows(u)}} \subseteq borrowed'
    BY <1>5 DEF Scan
  <2>2. Sound(Finds(tool), borrowed', Built)
    BY <1>1, <2>1, SoundFinds
  <2>3. Sound(found, borrowed', Built)
    BY <1>3, <2>2, SoundOver DEF SoundCmd
  <2>4. SoundCmd(c, borrowed', Built)
    BY <1>3, SoundLeft
  <2>5. SoundCmd([c EXCEPT !.found = found], borrowed', Built)
    <3> HIDE DEF c, found
    <3> QED
      BY <2>3, <2>4, SoundFound
  <2>6. cmd' = [cmd EXCEPT ![p] = [c EXCEPT !.found = found]]
    BY <2>1
  <2> QED
    BY <1>1, <1>2, <2>5, <2>6, CommandStep
<1>6. CASE Scanned(p)
  <2>1. cmd' = [cmd EXCEPT ![p] = Recording(FALSE, cmd[p].found)]
    BY <1>6 DEF Scanned
  <2>2. SoundCmd(Recording(FALSE, cmd[p].found), borrowed', Built)
    BY <1>3, SoundRecording DEF SoundCmd
  <2> QED
    BY <1>1, <1>2, <2>1, <2>2, CommandStep
<1> QED
  BY <1>4, <1>5, <1>6

\* The tools a setup registers are of the version it installed.
LEMMA SoundRegistered ==
    ASSUME ToolInv, NEW v \in Versions PROVE Sound(Registered(v), borrowed, Built)
<1>1. Registered(v) \in Entries
  BY DEF Registered, Entries, Valid, ToolInv, StoreInv, StoreTypeOK
<1>2. \A n \in Versioned : Registered(v)[n] = None
  BY VersionedNames DEF Registered
<1>3. Registered(v)[Lpm] = None
  BY VersionedNames, AnalysisAssumption DEF Registered, LlvmTools
<1> QED
  BY <1>1, <1>2, <1>3 DEF Sound

\* The setup of LLVM preserves the invariant.
LEMMA LlvmInv ==
    ASSUME ToolInv, StoreInv', NEW p \in Procs,
           \/ \E asked \in Versions \union {0}, force \in BOOLEAN : StartLlvm(p, asked, force)
           \/ InstallLlvm(p) \/ Register(p)
    PROVE  ToolInv'
<1>0. StoreInv /\ SoundCmd(cmd[p], borrowed, Built)
  BY DEF ToolInv
<1>1. ASSUME NEW asked \in Versions \union {0}, NEW force \in BOOLEAN, StartLlvm(p, asked, force)
      PROVE  ToolInv'
  <2> DEFINE v == IF asked # 0 THEN asked ELSE Detected
             pc == IF ~force /\ Detected # None THEN "register" ELSE "install"
             c == IF v = None THEN Idle ELSE [Idle EXCEPT !.ver = v, !.pc = pc]
  <2>1. cmd' = [cmd EXCEPT ![p] = c] /\ UNCHANGED <<file, job, borrowed, lpm, unbuilt>>
    BY <1>1 DEF StartLlvm, Start, storeVars
  <2>2. v \in Versions \union {None}
    BY <1>0, DetectedType
  <2>3. SoundCmd(c, borrowed, Built)
    BY <2>2, SoundIdle, SoundAt
  <2> QED
    BY <2>1, <2>3, PlainStep
<1>2. CASE InstallLlvm(p)
  <2> DEFINE c == [cmd[p] EXCEPT !.pc = "register"]
  <2>1. cmd' = [cmd EXCEPT ![p] = c] /\ UNCHANGED <<file, job, borrowed, lpm, unbuilt>>
    BY <1>2 DEF InstallLlvm, DiskChange
  <2>2. cmd[p].ver \in Versions
    BY <1>0, <1>2 DEF InstallLlvm, SoundCmd
  <2>3. SoundCmd(c, borrowed, Built)
    BY <1>0, <2>2, SoundGoto
  <2> QED
    BY <2>1, <2>3, PlainStep
<1>3. CASE Register(p)
  <2> DEFINE c == Recording(TRUE, Registered(cmd[p].ver))
  <2>1. cmd' = [cmd EXCEPT ![p] = c] /\ UNCHANGED <<file, job, borrowed, lpm, unbuilt>>
    BY <1>3 DEF Register, storeVars
  <2>2. cmd[p].ver \in Versions
    BY <1>0, <1>3 DEF Register, SoundCmd
  <2>3. SoundCmd(c, borrowed, Built)
    BY <2>2, SoundRegistered, SoundRecording
  <2> QED
    BY <2>1, <2>3, PlainStep
<1> QED
  BY <1>1, <1>2, <1>3

\* So does that of libtool,
LEMMA LibtoolInv ==
    ASSUME ToolInv, StoreInv', NEW p \in Procs,
           (\E force \in BOOLEAN : StartLibtool(p, force)) \/ FetchLibtool(p)
    PROVE  ToolInv'
<1> DEFINE local == Recording(TRUE, One(Libtool, Local(Libtool)))
           system == Recording(TRUE, One(Libtool, Resolve(Libtool)))
           fetch == [Idle EXCEPT !.pc = "fetch"]
<1>1. UNCHANGED <<file, job, borrowed, lpm, unbuilt>>
  BY DEF StartLibtool, FetchLibtool, storeVars, DiskChange
<1>2. \E c \in {local, system, fetch} : cmd' = [cmd EXCEPT ![p] = c]
  <2>1. FetchLibtool(p) => cmd' = [cmd EXCEPT ![p] = local]
    BY DEF FetchLibtool
  <2>2. ASSUME NEW force \in BOOLEAN, StartLibtool(p, force)
        PROVE  \E c \in {local, system, fetch} : cmd' = [cmd EXCEPT ![p] = c]
    BY <2>2 DEF StartLibtool, Start
  <2> QED
    BY <2>1, <2>2
<1>3. StoreInv /\ Libtool # Lpm
  BY VersionedNames DEF ToolInv
<1>4. Resolve(Libtool) \in Paths \union {None}
  BY <1>3, ResolveType
<1>5. SoundCmd(local, borrowed, Built) /\ SoundCmd(system, borrowed, Built)
  <2>1. Sound(One(Libtool, Local(Libtool)), borrowed, Built)
    BY <1>3, LocalPaths, SoundOne
  <2>2. Sound(One(Libtool, Resolve(Libtool)), borrowed, Built)
    BY <1>3, <1>4, SoundOne
  <2> QED
    BY <2>1, <2>2, SoundRecording
<1>6. SoundCmd(fetch, borrowed, Built)
  BY SoundStart
<1> QED
  BY <1>1, <1>2, <1>5, <1>6, PlainStep

\* The library may be recorded once it is built.
LEMMA SoundLpmRecording ==
    ASSUME NEW lent, NEW built, built PROVE SoundCmd(LpmRecording, lent, built)
BY LocalPaths, SoundOne, SoundRecording DEF LpmRecording

\* Removing the library is remembered.
LEMMA RemovedLpm ==
    ASSUME LpmTypeOK, lpm' \in {NoBuild, lpm}, unbuilt' = (unbuilt \/ lpm.built)
    PROVE  LpmTypeOK' /\ (Built => Built')
<1>1. unbuilt' \in BOOLEAN
  BY DEF LpmTypeOK
<1>2. lpm' = [generator |-> lpm'.generator, built |-> lpm'.built] /\ lpm'.built \in BOOLEAN
  <2>1. CASE lpm' = NoBuild
    BY <2>1 DEF NoBuild
  <2>2. CASE lpm' = lpm
    BY <2>2 DEF LpmTypeOK
  <2> QED
    BY <2>1, <2>2
<1>3. Built => unbuilt'
  BY DEF Built
<1> QED
  BY <1>1, <1>2, <1>3 DEF LpmTypeOK, Built

\* and that of libprotobuf-mutator, which is recorded only by its last step.
LEMMA LpmInv ==
    ASSUME ToolInv, StoreInv', NEW p \in Procs,
           \/ \E force \in BOOLEAN : StartLpm(p, force)
           \/ CloneLpm(p) \/ BuildLpm(p)
           \/ \E generator \in Generators : ConfigureLpm(p, generator)
    PROVE  ToolInv'
<1>0. LpmTypeOK /\ SoundCmd(cmd[p], borrowed, Built)
  BY DEF ToolInv
<1>1. UNCHANGED <<file, job, borrowed>>
  BY DEF StartLpm, CloneLpm, BuildLpm, ConfigureLpm, storeVars, DiskChange
<1>2. ASSUME NEW force \in BOOLEAN, StartLpm(p, force) PROVE ToolInv'
  <2>1. CASE lpm.built /\ ~force
    <3>1. cmd' = [cmd EXCEPT ![p] = LpmRecording] /\ UNCHANGED <<lpm, unbuilt>>
      BY <1>2, <2>1 DEF StartLpm, Start
    <3>2. SoundCmd(LpmRecording, borrowed, Built)
      BY <2>1, SoundLpmRecording DEF Built
    <3> QED
      BY <1>1, <3>1, <3>2, PlainStep
  <2>2. CASE ~(lpm.built /\ ~force)
    <3> DEFINE pc == IF Valid(Local(Lpm)) THEN "configure" ELSE "clone"
    <3>1. /\ cmd' = [cmd EXCEPT ![p] = [Idle EXCEPT !.pc = pc]]
          /\ lpm' \in {NoBuild, lpm} /\ unbuilt' = (unbuilt \/ lpm.built)
      BY <1>2, <2>2 DEF StartLpm, Start
    <3>2. LpmTypeOK' /\ (Built => Built')
      BY <1>0, <3>1, RemovedLpm
    <3>3. SoundCmd([Idle EXCEPT !.pc = pc], borrowed', Built')
      BY SoundStart
    <3> QED
      BY <1>1, <3>1, <3>2, <3>3, CommandStep
  <2> QED
    BY <2>1, <2>2
<1>3. CASE CloneLpm(p)
  <2>1. cmd' = [cmd EXCEPT ![p] = [cmd[p] EXCEPT !.pc = "configure"]] /\ UNCHANGED <<lpm, unbuilt>>
    BY <1>3 DEF CloneLpm
  <2>2. SoundCmd([cmd[p] EXCEPT !.pc = "configure"], borrowed, Built)
    BY <1>0, SoundGoto
  <2> QED
    BY <1>1, <2>1, <2>2, PlainStep
<1>4. ASSUME NEW generator \in Generators, ConfigureLpm(p, generator) PROVE ToolInv'
  <2>1. /\ cmd' = [cmd EXCEPT ![p] = [cmd[p] EXCEPT !.pc = "build"]]
        /\ lpm' = [lpm EXCEPT !.generator = generator] /\ unbuilt' = unbuilt
    BY <1>4 DEF ConfigureLpm
  <2>2. lpm' = [generator |-> generator, built |-> lpm.built]
    BY <1>0, <2>1 DEF LpmTypeOK
  <2>3. LpmTypeOK' /\ Built' = Built
    BY <1>0, <2>1, <2>2 DEF LpmTypeOK, Built
  <2>4. SoundCmd([cmd[p] EXCEPT !.pc = "build"], borrowed', Built')
    BY <1>0, <1>1, <2>3, SoundGoto
  <2> QED
    BY <1>1, <2>1, <2>3, <2>4, CommandStep
<1>5. CASE BuildLpm(p)
  <2>1. /\ cmd' = [cmd EXCEPT ![p] = LpmRecording]
        /\ lpm' = [lpm EXCEPT !.built = TRUE] /\ unbuilt' = FALSE
    BY <1>5 DEF BuildLpm
  <2>2. lpm' = [generator |-> lpm.generator, built |-> TRUE]
    BY <1>0, <2>1 DEF LpmTypeOK
  <2>3. LpmTypeOK' /\ Built'
    BY <2>1, <2>2 DEF LpmTypeOK, Built
  <2>4. SoundCmd(LpmRecording, borrowed', Built')
    BY <2>3, SoundLpmRecording
  <2> QED
    BY <1>1, <2>1, <2>3, <2>4, CommandStep
<1> QED
  BY <1>2, <1>3, <1>4, <1>5

\* So do the packages that come and go, and the removal of .toolchain,
LEMMA SystemInv ==
    ASSUME ToolInv, StoreInv',
           \/ \E n \in LlvmNames \union {Libtool} : Install(n)
           \/ \E t \in LlvmTools, v \in Versions : Uninstall(t, v)
           \/ RemoveToolchain
    PROVE  ToolInv'
<1>1. UNCHANGED <<file, job, cmd, borrowed>>
  BY DEF Install, Uninstall, RemoveToolchain, DiskChange
<1>2. \/ lpm' = lpm /\ unbuilt' = unbuilt
      \/ lpm' = NoBuild /\ unbuilt' = (unbuilt \/ lpm.built)
  BY DEF Install, Uninstall, RemoveToolchain
<1>3. LpmTypeOK' /\ (Built => Built')
  <2>1. CASE lpm' = lpm /\ unbuilt' = unbuilt
    BY <2>1 DEF ToolInv, LpmTypeOK, Built
  <2>2. CASE lpm' = NoBuild /\ unbuilt' = (unbuilt \/ lpm.built)
    BY <2>2, RemovedLpm DEF ToolInv
  <2> QED
    BY <1>2, <2>1, <2>2
<1> QED
  BY <1>1, <1>3, SystemStep

\* and the edits of the user: an entry that names another version counts as borrowed.
LEMMA UserInv ==
    ASSUME ToolInv, StoreInv',
           \/ \E n \in ToolNames \ {Lpm}, value \in Paths \union {None} : EditEntry(n, value)
           \/ RemoveConfig
    PROVE  ToolInv'
<1>1. UNCHANGED <<job, cmd, lpm, unbuilt>> /\ borrowed \subseteq borrowed'
  BY DEF EditEntry, RemoveConfig, Edit, Discard
<1>2. LpmTypeOK' /\ Built' = Built
  BY <1>1 DEF ToolInv, LpmTypeOK, Built
<1>3. Sound(file', borrowed', Built)
  <2>1. CASE RemoveConfig
    BY <2>1, SoundNothing DEF RemoveConfig, Discard
  <2>2. ASSUME NEW n \in ToolNames \ {Lpm}, NEW value \in Paths \union {None}, EditEntry(n, value)
        PROVE  Sound(file', borrowed', Built)
    <3>1. Readable /\ file' = [file EXCEPT ![n] = value] /\ n \in Slots /\ n # Lpm
      BY <2>2, SlotsAssumption DEF EditEntry, Edit
    <3>2. Sound(file, borrowed', Built)
      BY <1>1, <1>2, <3>1, StaysSound
    <3>3. \A s \in Slots : file'[s] = IF s = n THEN value ELSE file[s]
      BY <3>1, <3>2 DEF Sound, Entries
    <3>4. file' \in Entries
      BY <3>1, <3>2 DEF Sound, Entries
    <3>5. n \in Versioned => value = None \/ VersionOf(value) = n[2] \/ n \in borrowed'
      BY <2>2, VersionedNames DEF EditEntry
    <3> QED
      BY <3>1, <3>2, <3>3, <3>4, <3>5, VersionedNames DEF Sound
  <2> QED
    BY <2>1, <2>2
<1> QED
  BY <1>1, <1>2, <1>3, StaysSound DEF ToolInv

\* Every step preserves the invariant.
LEMMA NextToolInv == ToolInv /\ [Next]_vars => ToolInv'
<1> SUFFICES ASSUME ToolInv, [Next]_vars PROVE ToolInv'
  OBVIOUS
<1>0. StoreInv'
  BY StoreSteps, StoreNextInv DEF ToolInv
<1>1. CASE UNCHANGED vars
  <2>1. UNCHANGED <<file, job, cmd, borrowed, lpm, unbuilt>>
    BY <1>1 DEF vars, storeVars
  <2>2. Built' = Built /\ LpmTypeOK'
    BY <2>1 DEF Built, ToolInv, LpmTypeOK
  <2> QED
    BY <1>0, <2>1, <2>2, SystemStep
<1>2. CASE Next
  BY <1>0, <1>2, RecordInv, SaveInv, CheckInv, LlvmInv, LibtoolInv, LpmInv, SystemInv, UserInv
  DEF Next
<1> QED
  BY <1>1, <1>2

-----------------------------------------------------------------------------

\* The inductive invariant of the setup commands: whatever is recorded, or still to be
\* recorded, under a name with a version is of that version or was borrowed
\* (toolchain_manager.py:80-100, llvm.py:108-135, simple.py:65-81).
THEOREM ToolchainInvariant == Spec => []ToolInv
BY InitToolInv, NextToolInv, PTL DEF Spec

\* The setup commands use toolchain.config as ToolchainConfig says.
THEOREM ImplementsConfig == Spec => StoreSpec
<1>1. Init => \E initial \in SUBSET Paths : StoreInit(initial)
  BY InitialAssumption DEF Init
<1> QED
  BY <1>1, StoreSteps, ToolchainInvariant, PTL DEF Spec, StoreSpec

\* So what they record is not lost (toolchain_manager.py:80-100),
THEOREM RecordsAreKept == Spec => []NothingLost
BY ImplementsConfig, StoreLosesNothing, PTL

\* and what the user set by hand is kept, unless a command replaces entries.
THEOREM ManualEntriesAreKept == Spec => []OverridesKept
BY ImplementsConfig, StoreKeepsOverrides, PTL

\* A compiler and tools chosen from sound entries are of one version.
LEMMA InvMatches == ToolInv => MatchedTriple
<1> SUFFICES ASSUME ToolInv, Readable, Matched # {}, NEW t \in Analysis
             PROVE  \/ VersionOf(ToolFor(t, Chosen)) = VersionOf(Chosen)
                    \/ <<t, VersionOf(Chosen)>> \in borrowed
  BY DEF MatchedTriple
<1> DEFINE best == Max(Matched)
           n == <<t, VersionOf(Chosen)>>
<1>1. Matched \subseteq Versions \union {0} /\ Matched \subseteq 0 .. Newest
  BY VersionsAreNumbers DEF Matched, ClangNames
<1>2. best \in Matched
  BY <1>1, MaxIn, VersionsAssumption
<1>3. Chosen # None /\ ToolFor(t, Chosen) # None /\ <<"clang", best>> \in LlvmNames
  BY <1>1, <1>2 DEF Chosen, Matched, ClangNames, LlvmNames, LlvmTools
<1>4. Chosen \in Paths
  BY <1>3, ResolveType DEF Chosen, ToolInv
<1>5. VersionOf(Chosen) \in Versions
  BY <1>4, PathThird, VersionType
<1>6. n \in Versioned /\ Resolve(n) # None /\ ToolFor(t, Chosen) = Resolve(n)
  BY <1>3, <1>5 DEF Versioned, ToolFor
<1> QED
  BY <1>6, ResolvedVersion

\* The compiler and the tools that the coverage commands choose are of one
\* version, save for what was borrowed.
THEOREM ChoosesMatchedTriple == Spec => []MatchedTriple
BY InvMatches, ToolchainInvariant, PTL

\* A recorded library was built.
LEMMA InvLpmBuilt == ToolInv => RecordedLpmBuilt
BY DEF ToolInv, RecordedLpmBuilt, LpmRecorded, Recorded, Sound, Built

\* libprotobuf-mutator is recorded only when it is built (lpm.py:107-127).
THEOREM LpmIsBuilt == Spec => []RecordedLpmBuilt
BY InvLpmBuilt, ToolchainInvariant, PTL
=============================================================================
