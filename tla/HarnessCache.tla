---------------------------- MODULE HarnessCache ----------------------------
(***************************************************************************)
(* The harness binaries and what is cached of them (core/harness.py,       *)
(* managers/report_manager.py, the link command).                          *)
(*                                                                         *)
(* A command compiles the sources of a harness into the objects of the     *)
(* .objects directory, which all commands share, and links these into      *)
(* fuzz_harness_<mode>.  The report commands skip that when the binary is  *)
(* newer than libmain.la of its tree and a stamp file names the harness    *)
(* asked for.  Commands run in separate processes, any number at a time,   *)
(* and may be interrupted between any two steps.                           *)
(***************************************************************************)
EXTENDS Naturals, Sequences, FiniteSets

CONSTANTS
    Procs,      \* the processes a user runs commands in
    Names,      \* the harness sources
    Default,    \* the one built when no --harness is given
    None,       \* no --harness
    Objects     \* the objects of a harness, in the order they are compiled

ASSUME DefaultAssumption == Default \in Names /\ None \notin Names
ASSUME ObjectsAssumption == Objects \in Seq(STRING) /\ Len(Objects) > 0

VARIABLES
    objs,       \* what each object of .objects was compiled from
    exe,        \* what each harness binary was linked from
    fresh,      \* whether a cached one is newer than libmain.la of its tree
    stamp,      \* the harness named by the stamp of each cached mode
    proc,       \* the command each process is running
    unstamped   \* history: cached modes linked since, and not by a command
                \* that then wrote their stamp

cacheVars == <<objs, exe, fresh, stamp, proc, unstamped>>

Modes == {"libfuzzer", "coverage", "profile"}
Cached == {"coverage", "profile"}
Linkable == {"libfuzzer", "coverage"}
Requests == Names \union {None}

NoObject == [mode |-> "none", name |-> None]
NoExe == [modes |-> {}, name |-> None]
Idle == [pc |-> "idle", mode |-> "none", asked |-> None, next |-> 0,
         stamps |-> FALSE]

\* build() builds mod_fuzzy_proto when it is given no name.
Built(asked) == IF asked = None THEN Default ELSE asked

\* What the stamp of a mode says for a request: the coverage stamp keeps "no
\* name" apart from the default, the profile stamp does not.
StampOf(mode, asked) == IF mode = "profile" THEN Built(asked) ELSE asked

Unset == "unset"

CacheInit ==
    /\ objs = [i \in 1 .. Len(Objects) |-> NoObject]
    /\ exe = [m \in Modes |-> NoExe]
    /\ fresh = [m \in Cached |-> FALSE]
    /\ stamp = [m \in Cached |-> Unset]
    /\ proc = [c \in Procs |-> Idle]
    /\ unstamped = {}

-----------------------------------------------------------------------------
(***************************************************************************)
(* Building a harness: HarnessBuilder.build.                               *)
(***************************************************************************)
Goto(c, pc) == proc' = [proc EXCEPT ![c].pc = pc]

\* apatchy link, and the last steps of apatchy bug setup: build, no stamp.
StartLink(c, mode, asked) ==
    /\ proc[c].pc = "idle"
    /\ proc' = [proc EXCEPT ![c] =
                  [pc |-> "compile", mode |-> mode, asked |-> asked, next |-> 1, stamps |-> FALSE]]
    /\ UNCHANGED <<objs, exe, fresh, stamp, unstamped>>

\* Mutant: an object that is there is not compiled again.
CompileMissingObject(c) ==
    /\ proc[c].pc = "compile"
    /\ objs' = [objs EXCEPT ![proc[c].next] =
                  IF @ # NoObject THEN @
                  ELSE [mode |-> proc[c].mode, name |-> Built(proc[c].asked)]]
    /\ proc' = [proc EXCEPT ![c].next = @ + 1,
                            ![c].pc = IF proc[c].next = Len(Objects) THEN "link" ELSE @]
    /\ UNCHANGED <<exe, fresh, stamp, unstamped>>

\* Each object is compiled anew, with the flags of the tree of the mode.
CompileObject(c) ==
    /\ proc[c].pc = "compile"
    /\ objs' = [objs EXCEPT ![proc[c].next] =
                  [mode |-> proc[c].mode, name |-> Built(proc[c].asked)]]
    /\ proc' = [proc EXCEPT ![c].next = @ + 1,
                            ![c].pc = IF proc[c].next = Len(Objects) THEN "link" ELSE @]
    /\ UNCHANGED <<exe, fresh, stamp, unstamped>>

\* The first object is that of the harness source.
Linked == [modes |-> {objs[i].mode : i \in DOMAIN objs},
           name |-> objs[1].name]

LinkHarness(c) ==
    /\ proc[c].pc = "link"
    /\ LET m == proc[c].mode IN
       /\ exe' = [exe EXCEPT ![m] = Linked]
       /\ fresh' = [n \in Cached |-> IF n = m THEN TRUE ELSE fresh[n]]
       /\ unstamped' = IF m \in Cached THEN unstamped \union {m} ELSE unstamped
    /\ IF proc[c].stamps THEN Goto(c, "stamp") ELSE proc' = [proc EXCEPT ![c] = Idle]
    /\ UNCHANGED <<objs, stamp>>

-----------------------------------------------------------------------------
(***************************************************************************)
(* The report commands: _build_coverage_harness, _build_profile_harness.   *)
(***************************************************************************)

\* Mutant: the stamp is not compared.
UpToDateByTime(mode, asked) == exe[mode] # NoExe /\ fresh[mode]

\* The binary is reused if its stamp matches and it is newer than its tree.
UpToDate(mode, asked) ==
    /\ stamp[mode] = StampOf(mode, asked)
    /\ exe[mode] # NoExe
    /\ fresh[mode]

StartReport(c, mode, asked) ==
    /\ proc[c].pc = "idle"
    /\ proc' = [proc EXCEPT ![c] =
                  [pc |-> IF UpToDate(mode, asked) THEN "built" ELSE "compile",
                   mode |-> mode, asked |-> asked, next |-> 1, stamps |-> TRUE]]
    /\ UNCHANGED <<objs, exe, fresh, stamp, unstamped>>

WriteStamp(c) ==
    /\ proc[c].pc = "stamp"
    /\ stamp' = [stamp EXCEPT ![proc[c].mode] = StampOf(proc[c].mode, proc[c].asked)]
    /\ unstamped' = unstamped \ {proc[c].mode}
    /\ Goto(c, "built")
    /\ UNCHANGED <<objs, exe, fresh>>

-----------------------------------------------------------------------------
\* A command is interrupted, or one of its tools fails and it gives up.
Interrupt(c) ==
    /\ proc[c].pc # "idle"
    /\ proc' = [proc EXCEPT ![c] = Idle]
    /\ UNCHANGED <<objs, exe, fresh, stamp, unstamped>>

\* apatchy make rebuilds the tree of a mode: its libmain.la is newer.
MakeTree(m) ==
    /\ fresh' = [fresh EXCEPT ![m] = FALSE]
    /\ UNCHANGED <<objs, exe, stamp, proc, unstamped>>

CacheNext ==
    \/ \E c \in Procs :
         \/ \E mode \in Linkable, asked \in Requests : StartLink(c, mode, asked)
         \/ \E mode \in Cached, asked \in Requests : StartReport(c, mode, asked)
         \/ CompileObject(c)
         \/ LinkHarness(c)
         \/ WriteStamp(c)
         \/ Interrupt(c)
    \/ \E m \in Cached : MakeTree(m)

-----------------------------------------------------------------------------
(***************************************************************************)
(* Properties.                                                             *)
(***************************************************************************)

\* One command at a time: a report replays the harness it was asked for, unless
\* the binary was last linked by a command that does not write the stamp, or
\* was interrupted before it did (report_manager.py:407-427).
ReportsAskedHarness ==
    \A c \in Procs : proc[c].pc = "built" =>
        proc[c].mode \in unstamped \/ exe[proc[c].mode].name = Built(proc[c].asked)

\* One command at a time: the objects of a binary were all compiled for its own
\* mode, whatever interrupted commands left in .objects (harness.py:176-198).
OneMode == \A m \in Modes : exe[m].modes \subseteq {m}
=============================================================================
