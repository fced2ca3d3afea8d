---------------------------- MODULE FuzzSession ----------------------------
(***************************************************************************)
(* A fuzzing session: the interface that runs libFuzzer and restarts it    *)
(* (utils/libfuzzer_ui.py), and the exporter that keeps the history of all *)
(* sessions of an output directory in stat.json (utils/stats_exporter.py). *)
(*                                                                         *)
(* The interface reads the lines the engine prints.  A line may record an  *)
(* event; once per interval a pulse is taken and the exporter writes the   *)
(* file again: it loads the list of sessions, replaces its last element if *)
(* that has the start time of this session or else appends, truncates the  *)
(* file and writes the list.  When the engine exits it is started again    *)
(* (exit code 1) or a last pulse is written.                               *)
(* Sessions are processes of their own that a user starts and interrupts   *)
(* at any time; the engine is an external program.                         *)
(***************************************************************************)
EXTENDS Integers, Sequences, SequencesExt, FiniteSets

CONSTANTS
    Sessions,     \* the sessions started in one output directory
    MaxClock,     \* bound: the seconds that pass
    MaxPulses,    \* bound: the pulses of a session before its last
    MaxEvents     \* bound: the events a session records

ASSUME MaxClockAssumption == MaxClock \in Nat
ASSUME MaxPulsesAssumption == MaxPulses \in Nat
ASSUME MaxEventsAssumption == MaxEvents \in Nat

VARIABLES
    clock,      \* the time, in whole seconds as time.strftime prints it
    file,       \* stat.json: whether it parses, and its list of sessions
    ses,        \* the state of each session
    engine,     \* the libFuzzer process of each session: none, starting, fuzzing
                \* or crashed
    \* What the properties speak of:
    flushed,    \* what each session wrote last
    started,    \* the sessions in the order they first wrote the file
    damaged     \* a write was cut short, or sessions overlapped or share a
                \* start time

history == <<flushed, started, damaged>>
vars == <<clock, file, ses, engine, history>>

\* The exit code of a libFuzzer that saved a crash: 1 if a sanitizer ends the
\* process, 77 if libFuzzer does.  0 stands for every other code.
ExitCodes == {0, 1, 77}

NoSession == [pc |-> "off", start |-> -1, pulses |-> 0, events |-> 0,
              final |-> FALSE, code |-> 0, seen |-> <<>>]

\* What stat.json holds of a session; "of" is not in the file.
Entry(s) == [of |-> s, start_time |-> ses[s].start,
             pulses |-> ses[s].pulses, events |-> ses[s].events]

NoEntry(s) == [of |-> s, start_time |-> -1, pulses |-> 0, events |-> 0]

Init ==
    /\ clock = 0
    /\ file = [parses |-> TRUE, list |-> <<>>]
    /\ ses = [s \in Sessions |-> NoSession]
    /\ engine = [s \in Sessions |-> "none"]
    /\ flushed = [s \in Sessions |-> NoEntry(s)]
    /\ started = <<>>
    /\ damaged = FALSE

Active(s) == ses[s].pc \notin {"off", "done", "gone"}

Tick ==
    /\ clock < MaxClock
    /\ clock' = clock + 1
    /\ UNCHANGED <<file, ses, engine, history>>

-----------------------------------------------------------------------------
(***************************************************************************)
(* The interface: LibFuzzerUI.run.                                         *)
(***************************************************************************)
Goto(s, pc) == ses' = [ses EXCEPT ![s].pc = pc]

\* The exporter is made, and the start time of the session with it.
Start(s) ==
    /\ ses[s].pc = "off"
    /\ ses' = [ses EXCEPT ![s].pc = "spawn", ![s].start = clock]
    /\ damaged' = (damaged \/ \E t \in Sessions : Active(t) \/ ses[t].start = clock)
    /\ UNCHANGED <<clock, file, engine, flushed, started>>

Spawn(s) ==
    /\ ses[s].pc = "spawn"
    /\ engine' = [engine EXCEPT ![s] = "starting"]
    /\ Goto(s, "reading")
    /\ UNCHANGED <<clock, file, history>>

\* maybe_pulse after a line: the interval is over, as it always is for the
\* first line, and a pulse is taken, or it is not.
AfterLine(s, events) ==
    \/ /\ ses[s].pulses > 0
       /\ ses' = [ses EXCEPT ![s].events = events]
    \/ /\ ses[s].pulses < MaxPulses
       /\ ses' = [ses EXCEPT ![s].events = events, ![s].pulses = @ + 1, ![s].pc = "load"]

\* A status line, or one about a function reached for the first time, which
\* is an event.
StatusLine(s) ==
    /\ ses[s].pc = "reading"
    /\ engine' = [engine EXCEPT ![s] = IF @ = "starting" THEN "fuzzing" ELSE @]
    /\ \/ AfterLine(s, ses[s].events)
       \/ ses[s].events < MaxEvents /\ AfterLine(s, ses[s].events + 1)
    /\ UNCHANGED <<clock, file, history>>

\* "Test unit written to": the crash is in the crashes directory already.
CrashLine(s) ==
    /\ ses[s].pc = "reading"
    /\ ses[s].events < MaxEvents
    /\ engine' = [engine EXCEPT ![s] = "crashed"]
    /\ AfterLine(s, ses[s].events + 1)
    /\ UNCHANGED <<clock, file, history>>

\* The engine ends: the harness failed to initialize httpd and left by
\* _exit(1), or fuzzing is over, or it found a crash
\* (and -keep_going may have let it go on).
EngineExits(s, code) ==
    /\ ses[s].pc = "reading"
    /\ \/ engine[s] = "starting" /\ code = 1
       \/ engine[s] = "fuzzing" /\ code = 0
       \/ engine[s] = "crashed" /\ code \in ExitCodes
    /\ ses' = [ses EXCEPT ![s].pc = "exited", ![s].code = code]
    /\ UNCHANGED <<clock, file, engine, history>>

\* Mutant: any failure restarts the engine.
AnyFailureRestarts(code) == code # 0

Restarts(code) == code = 1

Restart(s) ==
    /\ ses[s].pc = "exited"
    /\ Restarts(ses[s].code)
    /\ Goto(s, "spawn")
    /\ UNCHANGED <<clock, file, engine, history>>

\* Mutant: the session ends without its last pulse.
FinishWithoutFlush(s) ==
    /\ ses[s].pc = "exited"
    /\ ~Restarts(ses[s].code)
    /\ Goto(s, "done")
    /\ UNCHANGED <<clock, file, engine, history>>

\* final_flush
Finish(s) ==
    /\ ses[s].pc = "exited"
    /\ ~Restarts(ses[s].code)
    /\ ses' = [ses EXCEPT ![s].pulses = @ + 1, ![s].final = TRUE, ![s].pc = "load"]
    /\ UNCHANGED <<clock, file, engine, history>>

-----------------------------------------------------------------------------
(***************************************************************************)
(* The exporter: StatsExporter._flush, one step for each access to the     *)
(* file.                                                                   *)
(***************************************************************************)

\* Mutant: the file is not read.
LoadNothing(s) ==
    /\ ses[s].pc = "load"
    /\ ses' = [ses EXCEPT ![s].seen = <<>>, ![s].pc = "truncate"]
    /\ UNCHANGED <<clock, file, engine, history>>

\* A file that does not parse counts as no sessions.
Load(s) ==
    /\ ses[s].pc = "load"
    /\ ses' = [ses EXCEPT ![s].seen = IF file.parses THEN file.list ELSE <<>>,
                          ![s].pc = "truncate"]
    /\ UNCHANGED <<clock, file, engine, history>>

\* Mutant: a session without events stops after opening the file.
TruncateOnly(s) ==
    /\ ses[s].pc = "truncate"
    /\ file' = [parses |-> FALSE, list |-> <<>>]
    /\ Goto(s, IF ses[s].events = 0 THEN "reading" ELSE "write")
    /\ UNCHANGED <<clock, engine, history>>

Truncate(s) ==
    /\ ses[s].pc = "truncate"
    /\ file' = [parses |-> FALSE, list |-> <<>>]
    /\ Goto(s, "write")
    /\ UNCHANGED <<clock, engine, history>>

\* Mutant: this session is always appended.
Appended(list, e) == Append(list, e)

\* The list with this session last.
Updated(list, e) ==
    IF list # <<>> /\ Last(list).start_time = e.start_time
    THEN [list EXCEPT ![Len(list)] = e]
    ELSE Append(list, e)

Write(s) ==
    /\ ses[s].pc = "write"
    /\ file' = [parses |-> TRUE, list |-> Updated(ses[s].seen, Entry(s))]
    /\ ses' = [ses EXCEPT ![s].seen = <<>>,
                          ![s].pc = IF ses[s].final THEN "done" ELSE "reading"]
    /\ flushed' = [flushed EXCEPT ![s] = Entry(s)]
    /\ started' = IF Contains(started, s) THEN started ELSE Append(started, s)
    /\ UNCHANGED <<clock, engine, damaged>>

-----------------------------------------------------------------------------
\* The user ends the session, or it fails: run() has no handler, the exporter
\* is not called again.
Interrupt(s) ==
    /\ Active(s)
    /\ ses' = [ses EXCEPT ![s].pc = "gone", ![s].seen = <<>>]
    /\ damaged' = (damaged \/ ses[s].pc = "write")
    /\ UNCHANGED <<clock, file, engine, flushed, started>>

SessionStep(s) ==
    \/ Spawn(s) \/ Restart(s) \/ Finish(s)
    \/ Load(s) \/ Truncate(s) \/ Write(s)

Next ==
    \/ Tick
    \/ \E s \in Sessions :
         \/ Start(s)
         \/ StatusLine(s)
         \/ CrashLine(s)
         \/ \E code \in ExitCodes : EngineExits(s, code)
         \/ SessionStep(s)
         \/ Interrupt(s)

\* A session that can go on does; the engine and the user need not.
Spec == Init /\ [][Next]_vars /\ \A s \in Sessions : WF_vars(SessionStep(s))

-----------------------------------------------------------------------------
(***************************************************************************)
(* Properties.                                                             *)
(***************************************************************************)

\* The file is the history of the output directory: one element for each
\* session that ever wrote it, in the order they started, each as that session
\* wrote it last.  Only a write cut short, sessions that overlap or sessions
\* started in the same second can break it (stats_exporter.py:94-111).
FileIsHistory ==
    file.parses /\ ~damaged =>
        file.list = [i \in 1 .. Len(started) |-> flushed[started[i]]]

\* The file does not parse only while a session writes it, or after a session
\* was interrupted there.
TornOnlyByInterrupt ==
    ~file.parses => damaged \/ \E s \in Sessions : ses[s].pc = "write"

\* A session that ended by itself left all of its events and pulses in the
\* file, with the last pulse (libfuzzer_ui.py:180-181).
LastPulseWritten == \A s \in Sessions : ses[s].pc = "done" => flushed[s] = Entry(s)

\* When the engine ends and is not to be restarted, so does the session.
SessionEnds ==
    \A s \in Sessions :
        ses[s].pc = "exited" /\ ses[s].code # 1 ~> ses[s].pc \in {"done", "gone"}

\* "crash saved, restarting..." (libfuzzer_ui.py:172-175): the engine is
\* restarted only after it saved a crash.
RestartsAfterCrash ==
    [][\A s \in Sessions :
         ses[s].pc = "exited" /\ ses'[s].pc = "spawn" => engine[s] = "crashed"]_vars
=============================================================================
