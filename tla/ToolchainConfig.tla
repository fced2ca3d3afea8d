--------------------------- MODULE ToolchainConfig ---------------------------
(***************************************************************************)
(* toolchain.config, the file that remembers where the tools are           *)
(* (core/toolchain_config.py).                                             *)
(*                                                                         *)
(* Commands of separate processes change it one section at a time: the     *)
(* file is read, changed in memory and written again, without a lock.      *)
(* Users edit it by hand.  What is recorded under a name counts only while *)
(* the path exists.                                                        *)
(***************************************************************************)
EXTENDS Naturals

CONSTANTS
    Procs,      \* the processes a user runs commands in
    Slots,      \* the names that can have an entry
    Paths,      \* what an entry can be
    None,       \* no entry, or an empty one
    Garbled     \* a file that configparser refuses

ASSUME PathsAssumption == None \notin Paths
Entries == [Slots -> Paths \union {None}]
ASSUME GarbledAssumption == Garbled \notin Entries

VARIABLES
    file,       \* what toolchain.config says
    disk,       \* the paths that exist
    job,        \* the update each process is in the middle of
    ideal,      \* history: what the file says if no update is lost
    manual,     \* history: the entries made by hand that still exist
    overlapped, \* history: someone changed the file during an update
    torn        \* history: an update was cut short while it wrote the file

storeVars == <<file, disk, job, ideal, manual, overlapped, torn>>

Nothing == [s \in Slots |-> None]
NoJob == [pc |-> "idle", force |-> FALSE, mem |-> Nothing, changes |-> Nothing]

StoreInit(Initial) ==
    /\ file = Nothing
    /\ disk = Initial
    /\ job = [p \in Procs |-> NoJob]
    /\ ideal = Nothing
    /\ manual = Nothing
    /\ overlapped = FALSE
    /\ torn = FALSE

-----------------------------------------------------------------------------
(***************************************************************************)
(* Reading: load, resolve_tool.                                            *)
(***************************************************************************)
Readable == file # Garbled

\* _path_valid.
Valid(value) == value \in disk

\* What the file says of a name, if that still exists: the first part of
\* resolve_tool, which goes on to look in PATH.
Recorded(s) == IF Valid(file[s]) THEN file[s] ELSE None

-----------------------------------------------------------------------------
(***************************************************************************)
(* Writing: update_section, force_update_section, save.                    *)
(***************************************************************************)
Over(changes, config) == [s \in Slots |-> IF changes[s] = None THEN config[s] ELSE changes[s]]

\* Mutant: no update preserves anything.
ChangedAll(config, force, entries) == entries

\* update_section preserves what still exists, force_update_section does not.
Changed(config, force, entries) ==
    [s \in Slots |-> IF force \/ ~Valid(config[s]) THEN entries[s] ELSE None]

Saving(p) == job[p].pc # "idle"
BeingWritten == \E p \in Procs : job[p].pc = "write"
OthersSaving(p) == \E q \in Procs \ {p} : Saving(q)

\* load and the changes in memory.
Load(p, force, entries) ==
    /\ job[p].pc = "idle"
    /\ Readable
    /\ LET changes == Changed(file, force, entries) IN
       job' = [job EXCEPT ![p] = [pc |-> "truncate", force |-> force,
                                  mem |-> Over(changes, file), changes |-> changes]]
    /\ overlapped' = (overlapped \/ OthersSaving(p))
    /\ UNCHANGED <<file, disk, ideal, manual, torn>>

\* save opens the file, which empties it.
Truncate(p) ==
    /\ job[p].pc = "truncate"
    /\ file' = Nothing
    /\ job' = [job EXCEPT ![p].pc = "write"]
    /\ UNCHANGED <<disk, ideal, manual, overlapped, torn>>

\* Mutant: only what changed is written.
WriteChanges(p) ==
    /\ job[p].pc = "write"
    /\ file' = job[p].changes
    /\ job' = [job EXCEPT ![p] = NoJob]
    /\ ideal' = Over(job[p].changes, ideal)
    /\ manual' = [s \in Slots |-> IF job[p].force /\ job[p].changes[s] # None
                                  THEN None ELSE manual[s]]
    /\ UNCHANGED <<disk, overlapped, torn>>

\* A forced update replaces entries made by hand.
Write(p) ==
    /\ job[p].pc = "write"
    /\ file' = job[p].mem
    /\ job' = [job EXCEPT ![p] = NoJob]
    /\ ideal' = Over(job[p].changes, ideal)
    /\ manual' = [s \in Slots |-> IF job[p].force /\ job[p].changes[s] # None
                                  THEN None ELSE manual[s]]
    /\ UNCHANGED <<disk, overlapped, torn>>

\* The process ends, or the disk is full, before the file is all written: some
\* of the entries are there, and the last may be one that is not understood.
CutShort(p) ==
    /\ job[p].pc = "write"
    /\ \/ file' = Garbled
       \/ \E kept \in SUBSET {s \in Slots : job[p].mem[s] # None} :
             file' = [s \in Slots |-> IF s \in kept THEN job[p].mem[s] ELSE None]
    /\ job' = [job EXCEPT ![p] = NoJob]
    /\ torn' = TRUE
    /\ UNCHANGED <<disk, ideal, manual, overlapped>>

\* The process ends before it opens the file, or it has nothing to save.
GiveUp(p) ==
    /\ job[p].pc # "write"
    /\ job' = [job EXCEPT ![p] = NoJob]
    /\ UNCHANGED <<file, disk, ideal, manual, overlapped, torn>>

-----------------------------------------------------------------------------
(***************************************************************************)
(* The user and the rest of the system.                                    *)
(***************************************************************************)

\* "Clear a value to force re-detection", or set one.
Edit(s, value) ==
    /\ Readable
    /\ value \in disk \union {None}
    /\ file' = [file EXCEPT ![s] = value]
    /\ ideal' = [ideal EXCEPT ![s] = value]
    /\ manual' = [manual EXCEPT ![s] = value]
    /\ overlapped' = (overlapped \/ \E p \in Procs : Saving(p))
    /\ UNCHANGED <<disk, job, torn>>

\* The file is removed, by clean --all or by hand: all that helps when it is not
\* understood.
Discard ==
    /\ ~BeingWritten
    /\ file' = Nothing
    /\ ideal' = Nothing
    /\ manual' = Nothing
    /\ overlapped' = \E p \in Procs : Saving(p)
    /\ torn' = FALSE
    /\ UNCHANGED <<disk, job>>

\* Tools are installed and removed.
DiskChange(paths) ==
    /\ disk' = paths
    /\ manual' = [s \in Slots |-> IF manual[s] \in paths THEN manual[s] ELSE None]
    /\ UNCHANGED <<file, job, ideal, overlapped, torn>>

StoreNext ==
    \/ \E p \in Procs :
         \/ \E force \in BOOLEAN, entries \in Entries : Load(p, force, entries)
         \/ Truncate(p) \/ Write(p) \/ CutShort(p) \/ GiveUp(p)
    \/ \E s \in Slots, value \in Paths \union {None} : Edit(s, value)
    \/ Discard
    \/ \E paths \in SUBSET Paths : DiskChange(paths)

StoreSpec == (\E initial \in SUBSET Paths : StoreInit(initial)) /\ [][StoreNext]_storeVars
-----------------------------------------------------------------------------
(***************************************************************************)
(* Properties.                                                             *)
(***************************************************************************)
Undisturbed == ~overlapped /\ ~torn

\* Nothing is lost: as long as no two changes overlapped and none was cut short,
\* the file says all that was recorded (toolchain_config.py:66-92).
NothingLost == Undisturbed /\ ~BeingWritten => file = ideal

\* "Manual edits are preserved" (toolchain_config.py:19): under the same
\* conditions, an entry made by hand stays for as long as what it names exists
\* and no command that replaces entries records another.
OverridesKept ==
    Undisturbed /\ ~BeingWritten =>
        \A s \in Slots : manual[s] # None => file[s] = manual[s]
=============================================================================
