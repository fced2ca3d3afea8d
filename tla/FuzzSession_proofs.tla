------------------------- MODULE FuzzSession_proofs -------------------------
(***************************************************************************)
(* Proofs about FuzzSession: the statistics file is the history of its     *)
(* output directory, for any sessions, however often each is interrupted,  *)
(* restarts its engine or writes the file.                                 *)
(***************************************************************************)
EXTENDS FuzzSession, SequenceTheorems, TLAPS

Stages == {"off", "spawn", "reading", "exited", "load", "truncate", "write", "done", "gone"}
Entries == [of : Sessions, start_time : Int, pulses : Nat, events : Nat]
States == [pc : Stages, start : Int, pulses : Nat, events : Nat, final : BOOLEAN,
           code : Int, seen : Seq(Entries)]

-----------------------------------------------------------------------------
(***************************************************************************)
(* The inductive invariant.                                                *)
(***************************************************************************)
SessionTypeOK ==
    /\ clock \in Nat
    /\ file \in [parses : BOOLEAN, list : Seq(Entries)]
    /\ ses \in [Sessions -> States]
    /\ flushed \in [Sessions -> Entries]
    /\ started \in Seq(Sessions)
    /\ damaged \in BOOLEAN

\* A session has a start time from its start on, which is in the file with it.
StartsAreKept ==
    /\ \A s \in Sessions : IF ses[s].pc = "off" THEN ses[s].start = -1 ELSE ses[s].start \in Nat
    /\ \A i \in 1 .. Len(started) :
         /\ ses[started[i]].pc # "off"
         /\ flushed[started[i]].start_time = ses[started[i]].start
    /\ \A i, j \in 1 .. Len(started) : started[i] = started[j] => i = j

\* What the file should hold.
Recorded == [i \in 1 .. Len(started) |-> flushed[started[i]]]

StartsDiffer ==
    \A s, t \in Sessions : ses[s].start = ses[t].start /\ ses[s].pc # "off" => s = t

\* One session at a time, and if it wrote the file it was the last to begin to.
ActiveIsLast ==
    /\ \A s, t \in Sessions : Active(s) /\ Active(t) => s = t
    /\ \A i \in 1 .. Len(started) : Active(started[i]) => i = Len(started)

FileIsRecorded ==
    /\ file.parses => file.list = Recorded
    /\ ~file.parses => \E s \in Sessions : ses[s].pc = "write"
    /\ \A s \in Sessions : ses[s].pc \in {"truncate", "write"} => ses[s].seen = Recorded

Undamaged == StartsDiffer /\ ActiveIsLast /\ FileIsRecorded

SessionInv ==
    /\ SessionTypeOK /\ StartsAreKept /\ LastPulseWritten
    /\ ~damaged => Undamaged

-----------------------------------------------------------------------------
(***************************************************************************)
(* Types.                                                                  *)
(***************************************************************************)

\* What a session writes of itself is an entry, and says what the session knows.
LEMMA EntryType ==
  ASSUME SessionTypeOK, NEW s \in Sessions
  PROVE  /\ Entry(s) \in Entries
         /\ Entry(s).start_time = ses[s].start
         /\ Entry(s).pulses = ses[s].pulses /\ Entry(s).events = ses[s].events
         /\ Entry(s).of = s
BY DEF SessionTypeOK, States, Entry, Entries

\* A step of one session that leaves the file and the history alone.
Untouched == UNCHANGED <<file, flushed, started>>

\* What a step makes of a session, and that it leaves the others as they were.
OnlyChanges(s) ==
    /\ ses' \in [Sessions -> States]
    /\ \A t \in Sessions : t # s => ses'[t] = ses[t]

\* A line of the engine leaves the start of the session, and at most asks for a write.
LEMMA AfterLineType ==
  ASSUME SessionTypeOK, NEW s \in Sessions, NEW n \in Nat, AfterLine(s, n)
  PROVE  /\ OnlyChanges(s)
         /\ ses'[s].start = ses[s].start
         /\ ses'[s].pc \in {ses[s].pc, "load"}
<1>1. ses \in [Sessions -> States]
  BY DEF SessionTypeOK
<1>2. CASE ses' = [ses EXCEPT ![s].events = n]
  BY <1>1, <1>2 DEF States, OnlyChanges
<1>3. CASE ses' = [ses EXCEPT ![s].events = n, ![s].pulses = @ + 1, ![s].pc = "load"]
  <2>1. ses[s].pulses + 1 \in Nat
    BY <1>1 DEF States
  <2> QED
    BY <1>1, <1>3, <2>1 DEF States, OnlyChanges, Stages
<1> QED
  BY <1>2, <1>3 DEF AfterLine

-----------------------------------------------------------------------------
(***************************************************************************)
(* Steps of a session that do not touch the file.                          *)
(***************************************************************************)

\* Between starting and writing, whatever a session does.
LEMMA QuietStep ==
  ASSUME SessionInv, NEW s \in Sessions,
         Active(s), ses[s].pc # "write",
         Untouched, clock' = clock, damaged' = damaged,
         OnlyChanges(s), ses'[s].start = ses[s].start,
         ses'[s].pc \in {"spawn", "reading", "exited", "load", "gone"}
  PROVE  SessionInv'
<1> USE DEF Untouched, OnlyChanges, Active
<1>1. SessionTypeOK /\ StartsAreKept /\ LastPulseWritten /\ (~damaged => Undamaged)
  BY DEF SessionInv
<1>2. SessionTypeOK'
  BY <1>1 DEF SessionTypeOK
<1>3. \A t \in Sessions :
        /\ ses'[t].start = ses[t].start
        /\ ses'[t].pc = "off" <=> ses[t].pc = "off"
        /\ ses'[t].pc = "done" <=> ses[t].pc = "done"
        /\ ses'[t].pc = "write" <=> ses[t].pc = "write"
        /\ ses'[t].pc = "done" \/ ses'[t].pc \in {"truncate", "write"} => ses'[t] = ses[t]
        /\ Active(t)' => Active(t)
  OBVIOUS
<1>4. \A i \in 1 .. Len(started) : started[i] \in Sessions
  BY <1>1 DEF SessionTypeOK
<1>5. StartsAreKept'
  BY <1>1, <1>3, <1>4 DEF StartsAreKept
<1>6. LastPulseWritten'
  BY <1>1, <1>3 DEF LastPulseWritten, Entry
<1>7. Recorded' = Recorded
  BY DEF Recorded
<1>8. ASSUME ~damaged PROVE Undamaged'
  <2>1. StartsDiffer /\ ActiveIsLast /\ FileIsRecorded
    BY <1>1, <1>8 DEF Undamaged
  <2>2. StartsDiffer'
    BY <1>3, <2>1 DEF StartsDiffer
  <2>3. ActiveIsLast'
    BY <1>3, <1>4, <2>1 DEF ActiveIsLast
  <2>4. FileIsRecorded'
    BY <1>3, <1>7, <2>1 DEF FileIsRecorded
  <2> QED
    BY <2>2, <2>3, <2>4 DEF Undamaged
<1> QED
  BY <1>2, <1>5, <1>6, <1>8 DEF SessionInv

\* The steps that wait for the engine or its lines keep the invariant: they touch no file.
LEMMA InterfaceStep ==
  ASSUME SessionInv, NEW s \in Sessions,
         \/ Spawn(s) \/ Restart(s) \/ Finish(s)
         \/ StatusLine(s) \/ CrashLine(s)
         \/ \E code \in ExitCodes : EngineExits(s, code)
  PROVE  SessionInv'
<1>1. SessionTypeOK /\ ses \in [Sessions -> States]
  BY DEF SessionInv, SessionTypeOK
<1>2. ses[s].events \in Nat /\ ses[s].events + 1 \in Nat /\ ses[s].pulses + 1 \in Nat
  BY <1>1 DEF States
<1> USE DEF Untouched, OnlyChanges, Active, history
<1>3. CASE Spawn(s)
  <2>1. OnlyChanges(s) /\ ses'[s].start = ses[s].start /\ ses'[s].pc = "reading"
    BY <1>1, <1>3 DEF Spawn, Goto, States, Stages
  <2> QED
    BY <1>3, <2>1, QuietStep DEF Spawn
<1>4. CASE Restart(s)
  <2>1. OnlyChanges(s) /\ ses'[s].start = ses[s].start /\ ses'[s].pc = "spawn"
    BY <1>1, <1>4 DEF Restart, Goto, States, Stages
  <2> QED
    BY <1>4, <2>1, QuietStep DEF Restart
<1>5. CASE Finish(s)
  <2>1. ses' = [ses EXCEPT ![s].pulses = ses[s].pulses + 1, ![s].final = TRUE, ![s].pc = "load"]
    BY <1>5 DEF Finish
  <2>2. OnlyChanges(s) /\ ses'[s].start = ses[s].start /\ ses'[s].pc = "load"
    BY <1>1, <1>2, <2>1 DEF States, Stages
  <2> QED
    BY <1>5, <2>2, QuietStep DEF Finish
<1>6. CASE StatusLine(s)
  <2>1. PICK n \in Nat : AfterLine(s, n)
    BY <1>2, <1>6 DEF StatusLine
  <2> QED
    BY <1>1, <1>6, <2>1, AfterLineType, QuietStep DEF StatusLine
<1>7. CASE CrashLine(s)
  <2>1. AfterLine(s, ses[s].events + 1)
    BY <1>7 DEF CrashLine
  <2> QED
    BY <1>1, <1>2, <1>7, <2>1, AfterLineType, QuietStep DEF CrashLine
<1>8. ASSUME NEW code \in ExitCodes, EngineExits(s, code) PROVE SessionInv'
  <2>1. code \in Int
    BY DEF ExitCodes
  <2>2. ses' = [ses EXCEPT ![s].pc = "exited", ![s].code = code]
    BY <1>8 DEF EngineExits
  <2>3. OnlyChanges(s) /\ ses'[s].start = ses[s].start /\ ses'[s].pc = "exited"
    BY <1>1, <2>1, <2>2 DEF States, Stages
  <2> QED
    BY <1>8, <2>3, QuietStep DEF EngineExits
<1> QED
  BY <1>3, <1>4, <1>5, <1>6, <1>7, <1>8

\* A session that starts is the latest: no session before it has its time.
LEMMA StartStep ==
  ASSUME SessionInv, NEW s \in Sessions, Start(s)
  PROVE  SessionInv'
<1>1. SessionTypeOK /\ StartsAreKept /\ LastPulseWritten /\ (~damaged => Undamaged)
  BY DEF SessionInv
<1>2. ses \in [Sessions -> States] /\ clock \in Nat /\ clock \in Int
  BY <1>1 DEF SessionTypeOK
<1>3. ses' = [ses EXCEPT ![s].pc = "spawn", ![s].start = clock]
  BY DEF Start
<1>4. OnlyChanges(s) /\ ses'[s].start = clock /\ ses'[s].pc = "spawn"
  BY <1>2, <1>3 DEF OnlyChanges, States, Stages
<1>5. /\ ses[s].pc = "off"
      /\ UNCHANGED <<clock, file, flushed, started>>
      /\ damaged' \in BOOLEAN
      /\ ~damaged' => ~damaged /\ \A t \in Sessions : ~Active(t) /\ ses[t].start # clock
  BY <1>1 DEF Start, SessionTypeOK
<1> USE DEF OnlyChanges
<1>6. SessionTypeOK'
  BY <1>1, <1>4, <1>5 DEF SessionTypeOK
<1>7. \A i \in 1 .. Len(started) : started[i] \in Sessions /\ started[i] # s
  BY <1>1, <1>5 DEF SessionTypeOK, StartsAreKept
<1>8. StartsAreKept'
  <2>1. \A t \in Sessions : IF ses'[t].pc = "off" THEN ses'[t].start = -1 ELSE ses'[t].start \in Nat
    BY <1>1, <1>2, <1>4 DEF StartsAreKept
  <2> QED
    BY <1>1, <1>4, <1>5, <1>7, <2>1 DEF StartsAreKept
<1>9. LastPulseWritten'
  BY <1>1, <1>4, <1>5 DEF LastPulseWritten, Entry
<1>10. ASSUME ~damaged' PROVE Undamaged'
  <2>1. StartsDiffer /\ FileIsRecorded /\ \A t \in Sessions : ~Active(t) /\ ses[t].start # clock
    BY <1>1, <1>5, <1>10 DEF Undamaged
  <2>2. StartsDiffer'
    BY <1>4, <2>1 DEF StartsDiffer
  <2>3. ActiveIsLast'
    BY <1>4, <1>5, <1>7, <2>1 DEF ActiveIsLast, Active
  <2>4. FileIsRecorded'
    BY <1>4, <1>5, <2>1 DEF FileIsRecorded, Recorded
  <2> QED
    BY <2>2, <2>3, <2>4 DEF Undamaged
<1> QED
  BY <1>6, <1>8, <1>9, <1>10 DEF SessionInv

\* An interruption between two accesses to the file is a quiet step, one
\* between the truncation and the write damages the file.
LEMMA InterruptStep ==
  ASSUME SessionInv, NEW s \in Sessions, Interrupt(s)
  PROVE  SessionInv'
<1>1. SessionTypeOK /\ StartsAreKept /\ LastPulseWritten
  BY DEF SessionInv
<1>2. ses \in [Sessions -> States] /\ <<>> \in Seq(Entries) /\ damaged \in BOOLEAN
  BY <1>1, EmptySeq DEF SessionTypeOK
<1>3. ses' = [ses EXCEPT ![s].pc = "gone", ![s].seen = <<>>]
  BY DEF Interrupt
<1>4. /\ OnlyChanges(s)
      /\ ses'[s].start = ses[s].start /\ ses'[s].pc = "gone"
  BY <1>2, <1>3 DEF OnlyChanges, States, Stages
<1>5. CASE ses[s].pc # "write"
  <2>1. damaged' = damaged
    BY <1>2, <1>5 DEF Interrupt
  <2> QED
    BY <1>4, <1>5, <2>1, QuietStep DEF Interrupt, Untouched
<1>6. CASE ses[s].pc = "write"
  <2>1. damaged' /\ damaged' \in BOOLEAN /\ UNCHANGED <<clock, file, flushed, started>>
    BY <1>6, <1>2 DEF Interrupt
  <2>2. SessionTypeOK'
    BY <1>1, <1>4, <2>1 DEF SessionTypeOK, OnlyChanges
  <2>3. \A i \in 1 .. Len(started) : started[i] \in Sessions
    BY <1>1 DEF SessionTypeOK
  <2>4. StartsAreKept'
    BY <1>1, <1>4, <1>6, <2>1, <2>3 DEF StartsAreKept, OnlyChanges
  <2>5. LastPulseWritten'
    BY <1>1, <1>4, <2>1 DEF LastPulseWritten, Entry, OnlyChanges
  <2> QED
    BY <2>1, <2>2, <2>4, <2>5 DEF SessionInv
<1> QED
  BY <1>5, <1>6

-----------------------------------------------------------------------------
(***************************************************************************)
(* Steps of the exporter.                                                  *)
(***************************************************************************)

\* What should be on disk is a list of entries, one for each session that has written.
LEMMA RecordedType ==
  ASSUME SessionTypeOK
  PROVE  /\ Recorded \in Seq(Entries)
         /\ Len(Recorded) = Len(started) /\ Len(started) \in Nat
         /\ \A i \in 1 .. Len(started) :
              started[i] \in Sessions /\ Recorded[i] = flushed[started[i]]
<1>1. Len(started) \in Nat /\ \A i \in 1 .. Len(started) : started[i] \in Sessions
  BY DEF SessionTypeOK
<1>2. \A i \in 1 .. Len(started) : flushed[started[i]] \in Entries
  BY <1>1 DEF SessionTypeOK
<1>3. Recorded \in Seq(Entries)
  BY <1>1, <1>2, IsASeq DEF Recorded
<1> QED
  BY <1>1, <1>3 DEF Recorded

\* What the exporter writes: the list with its own element last.
LEMMA UpdatedType ==
  ASSUME NEW list \in Seq(Entries), NEW e \in Entries
  PROVE  Updated(list, e) \in Seq(Entries)
<1>1. CASE list # <<>> /\ Last(list).start_time = e.start_time
  <2>1. Len(list) \in 1 .. Len(list)
    BY <1>1, EmptySeq
  <2> QED
    BY <1>1, <2>1, ExceptSeq DEF Updated
<1>2. CASE ~(list # <<>> /\ Last(list).start_time = e.start_time)
  BY <1>2, AppendProperties DEF Updated
<1> QED
  BY <1>1, <1>2

\* A session reads the whole history: alone, it finds no torn file.
LEMMA LoadStep ==
  ASSUME SessionInv, NEW s \in Sessions, Load(s)
  PROVE  SessionInv'
<1> USE DEF OnlyChanges
<1>1. SessionTypeOK /\ StartsAreKept /\ LastPulseWritten /\ (~damaged => Undamaged)
  BY DEF SessionInv
<1> DEFINE seen == IF file.parses THEN file.list ELSE <<>>
<1>2. ses \in [Sessions -> States] /\ seen \in Seq(Entries)
  BY <1>1, EmptySeq DEF SessionTypeOK
<1>3. ses' = [ses EXCEPT ![s].seen = seen, ![s].pc = "truncate"] /\ ses[s].pc = "load"
  BY DEF Load
<1> HIDE DEF seen
<1>4. OnlyChanges(s)
  BY <1>2, <1>3 DEF States, Stages
<1>5. ses'[s].start = ses[s].start /\ ses'[s].pc = "truncate" /\ ses'[s].seen = seen
  BY <1>2, <1>3 DEF States
<1>6. UNCHANGED <<clock, file, flushed, started, damaged>>
  BY DEF Load, history
<1>7. SessionTypeOK'
  BY <1>1, <1>4, <1>6 DEF SessionTypeOK
<1>8. StartsAreKept'
  BY <1>1, <1>3, <1>4, <1>5, <1>6, RecordedType DEF StartsAreKept
<1>9. LastPulseWritten'
  BY <1>1, <1>4, <1>5, <1>6 DEF LastPulseWritten, Entry
<1>10. ASSUME ~damaged PROVE Undamaged'
  <2>1. StartsDiffer /\ ActiveIsLast /\ FileIsRecorded
    BY <1>1, <1>10 DEF Undamaged
  <2>2. Active(s)
    BY <1>3 DEF Active
  <2>3. file.parses
    BY <1>3, <2>1, <2>2 DEF FileIsRecorded, ActiveIsLast, Active
  <2>4. seen = Recorded /\ Recorded' = Recorded
    BY <1>6, <2>1, <2>3 DEF FileIsRecorded, seen, Recorded
  <2>5. StartsDiffer'
    BY <1>3, <1>4, <1>5, <2>1 DEF StartsDiffer
  <2>6. ActiveIsLast'
    <3>1. \A t \in Sessions : Active(t)' => Active(t)
      BY <1>4, <2>2 DEF Active
    <3> QED
      BY <1>1, <1>6, <2>1, <3>1, RecordedType DEF ActiveIsLast
  <2>7. FileIsRecorded'
    BY <1>3, <1>4, <1>5, <1>6, <2>1, <2>3, <2>4 DEF FileIsRecorded
  <2> QED
    BY <2>5, <2>6, <2>7 DEF Undamaged
<1> QED
  BY <1>6, <1>7, <1>8, <1>9, <1>10 DEF SessionInv

\* What it read is still the history when it truncates the file.
LEMMA TruncateStep ==
  ASSUME SessionInv, NEW s \in Sessions, Truncate(s)
  PROVE  SessionInv'
<1> USE DEF OnlyChanges
<1>1. SessionTypeOK /\ StartsAreKept /\ LastPulseWritten /\ (~damaged => Undamaged)
  BY DEF SessionInv
<1>2. ses \in [Sessions -> States] /\ <<>> \in Seq(Entries)
  BY <1>1, EmptySeq DEF SessionTypeOK
<1>3. ses[s].pc = "truncate" /\ ses' = [ses EXCEPT ![s].pc = "write"]
  BY DEF Truncate, Goto
<1>4. OnlyChanges(s)
  BY <1>2, <1>3 DEF States, Stages
<1>5. ses'[s].start = ses[s].start /\ ses'[s].pc = "write" /\ ses'[s].seen = ses[s].seen
  BY <1>2, <1>3 DEF States
<1>6. file' = [parses |-> FALSE, list |-> <<>>] /\ UNCHANGED <<clock, flushed, started, damaged>>
  BY DEF Truncate, history
<1>7. SessionTypeOK'
  BY <1>1, <1>2, <1>4, <1>6 DEF SessionTypeOK
<1>8. StartsAreKept'
  BY <1>1, <1>3, <1>4, <1>5, <1>6, RecordedType DEF StartsAreKept
<1>9. LastPulseWritten'
  BY <1>1, <1>4, <1>5, <1>6 DEF LastPulseWritten, Entry
<1>10. ASSUME ~damaged PROVE Undamaged'
  <2>1. StartsDiffer /\ ActiveIsLast /\ FileIsRecorded
    BY <1>1, <1>10 DEF Undamaged
  <2>2. Recorded' = Recorded /\ ses[s].seen = Recorded
    BY <1>3, <1>6, <2>1 DEF FileIsRecorded, Recorded
  <2>3. StartsDiffer'
    BY <1>3, <1>4, <1>5, <2>1 DEF StartsDiffer
  <2>4. ActiveIsLast'
    <3>1. \A t \in Sessions : Active(t)' => Active(t)
      BY <1>3, <1>4 DEF Active
    <3> QED
      BY <1>1, <1>6, <2>1, <3>1, RecordedType DEF ActiveIsLast
  <2>5. FileIsRecorded'
    BY <1>4, <1>5, <1>6, <2>1, <2>2 DEF FileIsRecorded
  <2> QED
    BY <2>3, <2>4, <2>5 DEF Undamaged
<1> QED
  BY <1>6, <1>7, <1>8, <1>9, <1>10 DEF SessionInv

\* The list a session writes is the history with what it wrote last brought
\* up to date: its element is the last one if it has one, and if it has none
\* the last one has another start time.
LEMMA WrittenIsRecorded ==
  ASSUME SessionTypeOK, StartsAreKept, Undamaged,
         NEW s \in Sessions, Write(s)
  PROVE  Updated(Recorded, Entry(s)) = Recorded'
<1> DEFINE e == Entry(s)
           n == Len(started)
<1>1. /\ Recorded \in Seq(Entries) /\ Len(Recorded) = n /\ n \in Nat
      /\ \A i \in 1 .. n : started[i] \in Sessions /\ Recorded[i] = flushed[started[i]]
  BY RecordedType
<1>2. e \in Entries /\ e.start_time = ses[s].start
  BY EntryType
<1>3. /\ Active(s) /\ ses[s].pc = "write"
      /\ flushed' = [flushed EXCEPT ![s] = e]
      /\ started' = IF Contains(started, s) THEN started ELSE Append(started, s)
  BY DEF Write, Active
<1>4. flushed \in [Sessions -> Entries] /\ started \in Seq(Sessions)
  BY DEF SessionTypeOK
<1>5. \A t \in Sessions : flushed'[t] = IF t = s THEN e ELSE flushed[t]
  BY <1>3, <1>4
<1> HIDE DEF e
<1>6. CASE Contains(started, s)
  <2>1. PICK i \in 1 .. n : started[i] = s
    BY <1>6 DEF Contains
  <2>2. i = n /\ n \in 1 .. n
    BY <1>1, <1>3, <2>1 DEF Undamaged, ActiveIsLast
  <2>3. Recorded # <<>> /\ Last(Recorded).start_time = e.start_time
    <3>1. Last(Recorded) = flushed[s]
      BY <1>1, <2>1, <2>2 DEF Last
    <3>2. flushed[s].start_time = ses[s].start
      BY <2>1 DEF StartsAreKept
    <3>3. Recorded # <<>>
      BY <1>1, <2>2, EmptySeq
    <3> QED
      BY <1>2, <3>1, <3>2, <3>3
  <2>4. Updated(Recorded, e) = [Recorded EXCEPT ![n] = e]
    BY <1>1, <2>3 DEF Updated
  <2> DEFINE new == [Recorded EXCEPT ![n] = e]
  <2>5. /\ new \in Seq(Entries) /\ Len(new) = n
        /\ \A j \in 1 .. n : new[j] = IF j = n THEN e ELSE Recorded[j]
    BY <1>1, <1>2, <2>2, ExceptSeq
  <2>6. started' = started /\ Recorded' = [j \in 1 .. n |-> flushed'[started[j]]]
    BY <1>3, <1>6 DEF Recorded
  <2>7. \A j \in 1 .. n : started[j] = s => j = n
    BY <2>1, <2>2 DEF StartsAreKept
  <2>8. \A j \in 1 .. n : new[j] = flushed'[started[j]]
    BY <1>1, <1>5, <2>1, <2>2, <2>5, <2>7
  <2> HIDE DEF new
  <2>9. new = [j \in 1 .. n |-> new[j]]
    BY <2>5
  <2> QED
    BY <2>4, <2>6, <2>8, <2>9 DEF new, e
<1>7. CASE ~Contains(started, s)
  <2>1. \A i \in 1 .. n : started[i] # s
    BY <1>7 DEF Contains
  <2>2. ~(Recorded # <<>> /\ Last(Recorded).start_time = e.start_time)
    <3> SUFFICES ASSUME Recorded # <<>>
                 PROVE  Last(Recorded).start_time # e.start_time
      OBVIOUS
    <3>1. n \in 1 .. n
      BY <1>1, EmptySeq
    <3>2. Last(Recorded).start_time = ses[started[n]].start /\ ses[started[n]].pc # "off"
      BY <1>1, <3>1 DEF Last, StartsAreKept
    <3>3. started[n] \in Sessions /\ started[n] # s
      BY <1>1, <2>1, <3>1
    <3> QED
      BY <1>2, <3>2, <3>3 DEF Undamaged, StartsDiffer
  <2> DEFINE new == Append(Recorded, e)
  <2>3. Updated(Recorded, e) = new
    BY <2>2 DEF Updated
  <2>4. /\ new \in Seq(Entries) /\ Len(new) = n + 1
        /\ \A j \in 1 .. n : new[j] = Recorded[j]
        /\ new[n + 1] = e
    BY <1>1, <1>2, AppendProperties
  <2>5. /\ Len(started') = n + 1
        /\ \A j \in 1 .. n : started'[j] = started[j]
        /\ started'[n + 1] = s
    BY <1>3, <1>4, <1>7, AppendProperties
  <2>6. Recorded' = [j \in 1 .. n + 1 |-> flushed'[started'[j]]]
    BY <2>5 DEF Recorded
  <2>7. \A j \in 1 .. n : new[j] = flushed'[started'[j]]
    BY <1>1, <1>5, <2>1, <2>4, <2>5
  <2>8. \A j \in 1 .. n + 1 : new[j] = flushed'[started'[j]]
    BY <1>1, <1>5, <2>4, <2>5, <2>7
  <2> HIDE DEF new
  <2>9. new = [j \in 1 .. n + 1 |-> new[j]]
    BY <1>1, <2>4, LenProperties
  <2> QED
    BY <2>3, <2>6, <2>8, <2>9 DEF e
<1> QED
  BY <1>6, <1>7

\* A write keeps the invariant: the heart is WrittenIsRecorded, for the file it leaves.
LEMMA WriteStep ==
  ASSUME SessionInv, NEW s \in Sessions, Write(s)
  PROVE  SessionInv'
<1> USE DEF OnlyChanges
<1> DEFINE next == IF ses[s].final THEN "done" ELSE "reading"
           list == Updated(ses[s].seen, Entry(s))
<1>1. SessionTypeOK /\ StartsAreKept /\ LastPulseWritten /\ (~damaged => Undamaged)
  BY DEF SessionInv
<1>2. ses \in [Sessions -> States] /\ <<>> \in Seq(Entries) /\ next \in Stages
  BY <1>1, EmptySeq DEF SessionTypeOK, Stages
<1>3. ses[s].pc = "write" /\ ses' = [ses EXCEPT ![s].seen = <<>>, ![s].pc = next]
  BY DEF Write
<1>4. next \in {"done", "reading"}
  OBVIOUS
<1> HIDE DEF next
<1>5. OnlyChanges(s)
  BY <1>2, <1>3 DEF States
<1>6. /\ ses'[s].start = ses[s].start /\ ses'[s].pc = next
      /\ ses'[s].pulses = ses[s].pulses /\ ses'[s].events = ses[s].events
  BY <1>2, <1>3 DEF States
<1>7. list \in Seq(Entries) /\ Entry(s) \in Entries
  <2>1. ses[s].seen \in Seq(Entries)
    BY <1>2 DEF States
  <2> QED
    BY <1>1, <2>1, EntryType, UpdatedType
<1>8. /\ file' = [parses |-> TRUE, list |-> list]
      /\ flushed' = [flushed EXCEPT ![s] = Entry(s)]
      /\ started' = IF Contains(started, s) THEN started ELSE Append(started, s)
      /\ UNCHANGED <<clock, damaged>>
  BY DEF Write
<1> HIDE DEF list
<1>9. started' \in Seq(Sessions) /\ flushed' \in [Sessions -> Entries]
  BY <1>1, <1>7, <1>8, AppendProperties DEF SessionTypeOK
<1>10. SessionTypeOK'
  BY <1>1, <1>5, <1>7, <1>8, <1>9 DEF SessionTypeOK
<1>11. /\ flushed'[s] = Entry(s)
       /\ \A t \in Sessions : t # s => flushed'[t] = flushed[t]
  BY <1>1, <1>8 DEF SessionTypeOK
<1>12. Entry(s)' = Entry(s)
  BY <1>6 DEF Entry
<1>13. LastPulseWritten'
  BY <1>1, <1>5, <1>11, <1>12 DEF LastPulseWritten, Entry
\* Where the elements of the new history come from.
<1> DEFINE n == Len(started)
<1>14. /\ n \in Nat /\ \A i \in 1 .. n : started[i] \in Sessions
       /\ \/ Contains(started, s) /\ started' = started
          \/ /\ \A i \in 1 .. n : started[i] # s
             /\ Len(started') = n + 1
             /\ \A i \in 1 .. n : started'[i] = started[i]
             /\ started'[n + 1] = s
  <2>1. CASE Contains(started, s)
    BY <1>1, <1>8, <2>1, RecordedType
  <2>2. CASE ~Contains(started, s)
    BY <1>1, <1>8, <2>2, RecordedType, AppendProperties DEF SessionTypeOK, Contains
  <2> QED
    BY <2>1, <2>2
<1> HIDE DEF n
<1>15. StartsAreKept'
  <2>1. \A t \in Sessions :
          /\ IF ses'[t].pc = "off" THEN ses'[t].start = -1 ELSE ses'[t].start \in Nat
          /\ ses[t].pc # "off" => ses'[t].pc # "off"
          /\ ses'[t].start = ses[t].start
    BY <1>1, <1>3, <1>4, <1>5, <1>6 DEF StartsAreKept
  <2>2. flushed'[s].start_time = ses[s].start
    BY <1>1, <1>11, EntryType
  <2>3. ASSUME NEW t \in Sessions, ses[t].pc # "off",
               t = s \/ flushed[t].start_time = ses[t].start
        PROVE  ses'[t].pc # "off" /\ flushed'[t].start_time = ses'[t].start
    BY <1>11, <2>1, <2>2, <2>3
  <2>4. ASSUME NEW i \in 1 .. Len(started')
        PROVE  /\ started'[i] \in Sessions /\ ses[started'[i]].pc # "off"
               /\ started'[i] = s \/ flushed[started'[i]].start_time = ses[started'[i]].start
    <3>1. \A j \in 1 .. n : /\ ses[started[j]].pc # "off"
                            /\ flushed[started[j]].start_time = ses[started[j]].start
      BY <1>1 DEF StartsAreKept, n
    <3>2. CASE started' = started
      <4>1. i \in 1 .. n
        BY <3>2 DEF n
      <4> QED
        BY <1>14, <3>1, <3>2, <4>1
    <3>3. CASE started' # started
      <4>1. i \in 1 .. n \/ started'[i] = s
        BY <1>14, <3>3
      <4>2. CASE i \in 1 .. n
        <5>1. started'[i] = started[i]
          BY <1>14, <3>3, <4>2
        <5> QED
          BY <1>14, <3>1, <4>2, <5>1
      <4>3. CASE started'[i] = s
        BY <1>3, <4>3
      <4> QED
        BY <4>1, <4>2, <4>3
    <3> QED
      BY <3>2, <3>3
  <2>5. \A i \in 1 .. Len(started') : /\ ses'[started'[i]].pc # "off"
                                      /\ flushed'[started'[i]].start_time = ses'[started'[i]].start
    BY <2>3, <2>4
  <2>6. \A i, j \in 1 .. Len(started') : started'[i] = started'[j] => i = j
    <3>1. \A i, j \in 1 .. n : started[i] = started[j] => i = j
      BY <1>1 DEF StartsAreKept, n
    <3>2. CASE started' = started
      BY <3>1, <3>2 DEF n
    <3>3. CASE started' # started
      BY <1>14, <3>1, <3>3
    <3> QED
      BY <3>2, <3>3
  <2> QED
    BY <2>1, <2>5, <2>6 DEF StartsAreKept
<1>16. ASSUME ~damaged PROVE Undamaged'
  <2>1. Undamaged /\ StartsDiffer /\ ActiveIsLast /\ FileIsRecorded
    BY <1>1, <1>16 DEF Undamaged
  <2>2. ses[s].seen = Recorded
    BY <1>3, <2>1 DEF FileIsRecorded
  <2>3. file'.parses /\ file'.list = Recorded'
    BY <1>1, <1>8, <2>1, <2>2, WrittenIsRecorded DEF list
  <2>4. StartsDiffer'
    BY <1>3, <1>4, <1>5, <1>6, <2>1 DEF StartsDiffer
  <2>5. Active(s) /\ \A t \in Sessions : Active(t)' => Active(t)
    BY <1>3, <1>5 DEF Active
  <2>6. \A t \in Sessions : Active(t) => t = s
    BY <2>1, <2>5 DEF ActiveIsLast
  <2>7. ActiveIsLast'
    <3>1. \A t, u \in Sessions : Active(t)' /\ Active(u)' => t = u
      BY <2>5, <2>6
    <3>2. \A t \in Sessions : t # s => ~(ses'[t].pc \notin {"off", "done", "gone"})
      BY <1>5, <2>6 DEF Active
    <3>3. ASSUME NEW i \in 1 .. Len(started'), ses'[started'[i]].pc \notin {"off", "done", "gone"}
          PROVE  i = Len(started')
      <4>1. CASE started' = started
        <5>1. i \in 1 .. n /\ started[i] \in Sessions
          BY <1>14, <4>1 DEF n
        <5>2. started[i] = s
          BY <3>2, <3>3, <4>1, <5>1
        <5> QED
          BY <2>1, <2>5, <4>1, <5>1, <5>2 DEF ActiveIsLast, n
      <4>2. CASE started' # started
        <5>1. i \in 1 .. n => started'[i] \in Sessions /\ started'[i] # s
          BY <1>14, <4>2
        <5>2. i \notin 1 .. n
          BY <3>2, <3>3, <5>1
        <5> QED
          BY <1>14, <4>2, <5>2
      <4> QED
        BY <4>1, <4>2
    <3> QED
      BY <3>1, <3>3 DEF ActiveIsLast, Active
  <2>8. \A t \in Sessions : ses'[t].pc \notin {"truncate", "write"}
    BY <1>4, <1>5, <1>6, <2>6 DEF Active
  <2>9. FileIsRecorded'
    BY <2>3, <2>8 DEF FileIsRecorded
  <2> QED
    BY <2>4, <2>7, <2>9 DEF Undamaged
<1> QED
  BY <1>8, <1>10, <1>13, <1>15, <1>16 DEF SessionInv

-----------------------------------------------------------------------------
(***************************************************************************)
(* The invariant and the properties.                                       *)
(***************************************************************************)

\* Before the first session there is nothing to be lost.
LEMMA InitInv == Init => SessionInv
<1> SUFFICES ASSUME Init PROVE SessionInv
  OBVIOUS
<1>1. <<>> \in Seq(Entries) /\ <<>> \in Seq(Sessions) /\ Len(<<>>) = 0
  BY EmptySeq
<1>2. NoSession \in States
  BY <1>1 DEF NoSession, States, Stages
<1>3. ses \in [Sessions -> States] /\ \A s \in Sessions : ses[s] = NoSession
  BY <1>2 DEF Init
<1>4. flushed \in [Sessions -> Entries]
  BY DEF Init, NoEntry, Entries
<1>5. SessionTypeOK
  BY <1>1, <1>3, <1>4 DEF Init, SessionTypeOK
<1>6. StartsAreKept /\ LastPulseWritten
  BY <1>1, <1>3 DEF Init, StartsAreKept, LastPulseWritten, NoSession
<1>7. Recorded = <<>>
  BY <1>1 DEF Init, Recorded
<1>8. Undamaged
  BY <1>1, <1>3, <1>7 DEF Init, NoSession, Undamaged, StartsDiffer, ActiveIsLast, Active, FileIsRecorded
<1> QED
  BY <1>5, <1>6, <1>8 DEF SessionInv

\* Time alone changes nothing that is recorded.
LEMMA TickStep ==
  ASSUME SessionInv, Tick
  PROVE  SessionInv'
<1>1. clock' \in Nat /\ UNCHANGED <<file, ses, flushed, started, damaged>>
  BY DEF SessionInv, SessionTypeOK, Tick, history
<1> QED
  BY <1>1 DEF SessionInv, SessionTypeOK, StartsAreKept, LastPulseWritten, Entry, Undamaged,
              StartsDiffer, ActiveIsLast, Active, FileIsRecorded, Recorded

\* Each step keeps the invariant.
LEMMA SessionInvStep ==
  ASSUME SessionInv, [Next]_vars
  PROVE  SessionInv'
<1>1. CASE Tick
  BY <1>1, TickStep
<1>2. ASSUME NEW s \in Sessions, Start(s) PROVE SessionInv'
  BY <1>2, StartStep
<1>3. ASSUME NEW s \in Sessions,
             \/ Spawn(s) \/ Restart(s) \/ Finish(s)
             \/ StatusLine(s) \/ CrashLine(s)
             \/ \E code \in ExitCodes : EngineExits(s, code)
      PROVE  SessionInv'
  BY <1>3, InterfaceStep
<1>4. ASSUME NEW s \in Sessions, Load(s) \/ Truncate(s) \/ Write(s) PROVE SessionInv'
  BY <1>4, LoadStep, TruncateStep, WriteStep
<1>5. ASSUME NEW s \in Sessions, Interrupt(s) PROVE SessionInv'
  BY <1>5, InterruptStep
<1>6. CASE UNCHANGED vars
  BY <1>6 DEF vars, history, SessionInv, SessionTypeOK, StartsAreKept, LastPulseWritten, Entry,
              Undamaged, StartsDiffer, ActiveIsLast, Active, FileIsRecorded, Recorded
<1> QED
  BY <1>1, <1>2, <1>3, <1>4, <1>5, <1>6 DEF Next, SessionStep

\* The inductive invariant holds in every reachable state.
THEOREM SessionInvariance == Spec => []SessionInv
<1>1. SessionInv /\ [Next]_vars => SessionInv'
  BY SessionInvStep
<1> QED
  BY <1>1, InitInv, PTL DEF Spec

\* Unless a write was cut short, sessions overlapped or began in the same
\* second, stat.json holds one element for each session that wrote it, in the
\* order they started, as that session wrote it last (stats_exporter.py:94-111).
THEOREM HistoryIsKept == Spec => []FileIsHistory
<1>1. SessionInv => FileIsHistory
  BY DEF SessionInv, Undamaged, FileIsRecorded, FileIsHistory, Recorded
<1> QED
  BY <1>1, SessionInvariance, PTL

\* stat.json fails to parse only between the truncation and the write of a
\* session, or after the history was damaged (stats_exporter.py:110-111).
THEOREM TornFilesExplained == Spec => []TornOnlyByInterrupt
<1>1. SessionInv => TornOnlyByInterrupt
  BY DEF SessionInv, Undamaged, FileIsRecorded, TornOnlyByInterrupt
<1> QED
  BY <1>1, SessionInvariance, PTL

\* A session that ended by itself wrote all of its pulses and events
\* (libfuzzer_ui.py:180-181).
THEOREM LastPulseIsWritten == Spec => []LastPulseWritten
<1>1. SessionInv => LastPulseWritten
  BY DEF SessionInv
<1> QED
  BY <1>1, SessionInvariance, PTL
=============================================================================
