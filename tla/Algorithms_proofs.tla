-------------------------- MODULE Algorithms_proofs --------------------------
(***************************************************************************)
(* Proofs about the parts of MCAlgorithms: the seeds of a session, the     *)
(* responses of a structure-aware harness, the configuration lines of the  *)
(* htaccess harness, the walk of a call graph.                             *)
(***************************************************************************)
EXTENDS Seeds, AjpResponses, ConfLines, CallGraph, SequenceTheorems, FiniteSetTheorems,
        WellFoundedInduction, TLAPS

-----------------------------------------------------------------------------
(***************************************************************************)
(* What FlattenSeq makes of a list of sequences.                           *)
(***************************************************************************)
\* A nonempty set of numbers has a least one.
LEMMA First ==
  ASSUME NEW T, T \subseteq Nat, T # {}
  PROVE  \E x \in T : \A y \in T : x <= y
<1>1. \E x \in T : \A y \in T : ~(<<y, x>> \in OpToRel(<, Nat))
  BY WFMin, NatLessThanWellFounded, Zenon
<1>2. PICK x \in T : \A y \in T : ~(<<y, x>> \in OpToRel(<, Nat))
  BY <1>1
<1>3. \A y \in T : ~(y < x)
  BY <1>2, Zenon DEF OpToRel
<1> QED
  BY <1>3

\* The function in the definition of FlattenSeq: what the first i sequences make.
IsFlatten(ss, n, g) ==
    g = [i \in 1 .. n |-> IF i = 1 THEN ss[i] ELSE g[i - 1] \o ss[i]]

\* What that function is at one place.
LEMMA FlattenStep ==
  ASSUME NEW ss, NEW n \in Nat, NEW g, IsFlatten(ss, n, g), NEW i \in 1 .. n
  PROVE  g[i] = IF i = 1 THEN ss[i] ELSE g[i - 1] \o ss[i]
<1> DEFINE r(f) == [j \in 1 .. n |-> IF j = 1 THEN ss[j] ELSE f[j - 1] \o ss[j]]
<1>1. g = r(g)
  BY Zenon DEF IsFlatten
<1>2. \A f : r(f)[i] = IF i = 1 THEN ss[i] ELSE f[i - 1] \o ss[i]
  OBVIOUS
<1> HIDE DEF r
<1> QED
  BY <1>1, <1>2, Zenon

\* There is such a function: one that is short of the last sequence goes on with it.
LEMMA FlattenExists ==
  ASSUME NEW ss, NEW n \in Nat
  PROVE  \E g : IsFlatten(ss, n, g)
<1> DEFINE Bad == {k \in Nat : ~\E g : IsFlatten(ss, k, g)}
<1>1. SUFFICES ASSUME Bad # {} PROVE FALSE
  OBVIOUS
<1>2. PICK k \in Bad : \A j \in Bad : k <= j
  BY <1>1, First
<1>3. k # 0
  <2>1. IsFlatten(ss, 0, <<>>)
    BY DEF IsFlatten
  <2> QED
    BY <1>2, <2>1
<1>4. PICK g : IsFlatten(ss, k - 1, g)
  BY <1>2, <1>3
<1> DEFINE h == [i \in 1 .. k |-> IF i = k THEN (IF k = 1 THEN ss[k] ELSE g[k - 1] \o ss[k])
                                 ELSE g[i]]
<1>5. k \in Nat /\ k > 0
  BY <1>2, <1>3
<1>6. \A i \in 1 .. k : h[i] = IF i = 1 THEN ss[i] ELSE h[i - 1] \o ss[i]
  <2> SUFFICES ASSUME NEW i \in 1 .. k
               PROVE  h[i] = IF i = 1 THEN ss[i] ELSE h[i - 1] \o ss[i]
    OBVIOUS
  <2>1. CASE i = k
    BY <1>5, <2>1
  <2>2. CASE i # k
    <3>1. i \in 1 .. k - 1 /\ (i # 1 => i - 1 \in 1 .. k - 1)
      BY <1>5, <2>2
    <3>2. g[i] = IF i = 1 THEN ss[i] ELSE g[i - 1] \o ss[i]
      BY <1>4, <1>5, <3>1, FlattenStep
    <3>3. h[i] = g[i] /\ (i # 1 => h[i - 1] = g[i - 1])
      BY <1>5, <2>2, <3>1
    <3> QED
      BY <3>2, <3>3
  <2> QED
    BY <2>1, <2>2
<1>7. h = [i \in 1 .. k |-> h[i]]
  OBVIOUS
<1> HIDE DEF h
<1>8. IsFlatten(ss, k, h)
  BY <1>6, <1>7, Zenon DEF IsFlatten
<1> QED
  BY <1>2, <1>8

\* FlattenSeq is that function at the end of the list.
LEMMA FlattenIsLast ==
  ASSUME NEW ss, Len(ss) \in Nat, Len(ss) # 0
  PROVE  \E f : IsFlatten(ss, Len(ss), f) /\ FlattenSeq(ss) = f[Len(ss)]
<1> DEFINE f == CHOOSE flatten : flatten = [i \in 1 .. Len(ss) |->
                  IF i = 1 THEN ss[i] ELSE flatten[i - 1] \o ss[i]]
<1>1. \E g : g = [i \in 1 .. Len(ss) |-> IF i = 1 THEN ss[i] ELSE g[i - 1] \o ss[i]]
  BY FlattenExists, Zenon DEF IsFlatten
<1>2. f = [i \in 1 .. Len(ss) |-> IF i = 1 THEN ss[i] ELSE f[i - 1] \o ss[i]]
  BY <1>1, Zenon
<1>3. FlattenSeq(ss) = f[Len(ss)]
  BY Zenon DEF FlattenSeq
<1> QED
  BY <1>2, <1>3, Zenon DEF IsFlatten

\* A list with one more sequence makes what the shorter one does, with that sequence.
LEMMA FlattenOneMore ==
  ASSUME NEW ss, NEW tt, NEW n \in Nat, NEW k \in Nat, n # 0, k = n + 1,
         Len(ss) = n, Len(tt) = k, \A i \in 1 .. n : ss[i] = tt[i]
  PROVE  FlattenSeq(tt) = FlattenSeq(ss) \o tt[k]
<1>1. n \in 1 .. n /\ k \in 1 .. k /\ k # 0 /\ k # 1 /\ k - 1 = n /\ n <= k
  OBVIOUS
<1>2. PICK f : IsFlatten(ss, n, f) /\ FlattenSeq(ss) = f[n]
  BY FlattenIsLast
<1>3. PICK g : IsFlatten(tt, k, g) /\ FlattenSeq(tt) = g[k]
  BY <1>1, FlattenIsLast, Zenon
<1>4. \A i \in 1 .. n : f[i] = g[i]
  <2> DEFINE Bad == {i \in 1 .. n : f[i] # g[i]}
  <2>1. SUFFICES ASSUME Bad # {} PROVE FALSE
    OBVIOUS
  <2>2. Bad \subseteq Nat
    OBVIOUS
  <2>3. PICK i \in Bad : \A j \in Bad : i <= j
    BY <2>1, <2>2, First, Zenon
  <2>4. i \in 1 .. n /\ i \in 1 .. k
    BY <1>1, <2>3
  <2>5. /\ f[i] = IF i = 1 THEN ss[i] ELSE f[i - 1] \o ss[i]
        /\ g[i] = IF i = 1 THEN tt[i] ELSE g[i - 1] \o tt[i]
    BY <1>2, <1>3, <2>4, FlattenStep
  <2>6. i # 1 => f[i - 1] = g[i - 1]
    BY <2>3
  <2> QED
    BY <2>3, <2>4, <2>5, <2>6
<1>5. g[k] = IF k = 1 THEN tt[k] ELSE g[k - 1] \o tt[k]
  BY <1>1, <1>3, FlattenStep
<1> QED
  BY <1>1, <1>2, <1>3, <1>4, <1>5

\* What FlattenSeq makes of a list with one more sequence, the first one included.
LEMMA FlattenAppend ==
  ASSUME NEW S, NEW ss \in Seq(Seq(S)), NEW e \in Seq(S)
  PROVE  FlattenSeq(Append(ss, e)) = FlattenSeq(ss) \o e
<1> SUFFICES ASSUME NEW tt, tt = Append(ss, e), NEW n \in Nat, Len(ss) = n,
                    NEW k \in Nat, k = n + 1
             PROVE  FlattenSeq(tt) = FlattenSeq(ss) \o e
  <2>1. Len(ss) \in Nat /\ Len(ss) + 1 \in Nat
    OBVIOUS
  <2> QED
    BY <2>1, Zenon
<1>1. Len(tt) = k /\ tt[k] = e /\ \A i \in 1 .. n : ss[i] = tt[i]
  BY AppendProperties
<1>2. CASE n = 0
  <2>1. ss = <<>> /\ FlattenSeq(ss) = <<>>
    BY <1>2 DEF FlattenSeq
  <2>2. <<>> \o e = e
    OBVIOUS
  <2>3. k # 0 /\ k = 1 /\ k \in 1 .. k
    BY <1>2
  <2>4. PICK g : IsFlatten(tt, k, g) /\ FlattenSeq(tt) = g[k]
    BY <1>1, <2>3, FlattenIsLast
  <2>5. g[k] = IF k = 1 THEN tt[k] ELSE g[k - 1] \o tt[k]
    BY <2>3, <2>4, FlattenStep, Zenon
  <2> QED
    BY <1>1, <2>1, <2>2, <2>3, <2>4, <2>5
<1>3. CASE n # 0
  <2>1. n # 0 /\ k = n + 1 /\ Len(ss) = n /\ Len(tt) = k /\ \A i \in 1 .. n : ss[i] = tt[i]
    BY <1>1, <1>3
  <2>2. FlattenSeq(tt) = FlattenSeq(ss) \o tt[k]
    BY <2>1, FlattenOneMore, Zenon
  <2> QED
    BY <1>1, <2>2
<1> QED
  BY <1>2, <1>3

-----------------------------------------------------------------------------
(***************************************************************************)
(* Seeds: what is in the queues of the fuzzer.                             *)
(***************************************************************************)
SeedStages == {"idle", "default", "draw", "copy", "run", "clean"}
Chosen == Grammars \union {NoGrammar}
Drawable == UNION {Expansions(g) : g \in Chosen}
Contents == Drawable \union {Absent, Cut, Own, <<"GET / HTTP/1.1">>}
Marks == SeedDirs \union {"none", "cut", "outlived"}
FuzzCommands == [pc : SeedStages, grammar : Chosen, dir : SeedDirs, out : Outputs,
                 resume : BOOLEAN, seen : SUBSET Drawable, tries : Nat, left : SUBSET SeedNames]

SeedsTypeOK ==
    /\ seeds \in [SeedDirs -> [SeedNames -> Contents]]
    /\ queue \in [Outputs -> [SeedNames -> Contents]]
    /\ copyOf \in [Outputs -> [SeedNames -> Marks]]
    /\ fuzz \in FuzzCommands

\* The mark of a file of a queue says what the file is: that of a directory, that
\* it is the seed of that directory as it is now; and in fuzz-output no copy
\* outlives its seed.
GoodCopy(o, n) ==
    /\ copyOf[o][n] = "none" <=> queue[o][n] = Absent
    /\ \A d \in SeedDirs : copyOf[o][n] = d => queue[o][n] = seeds[d][n]
    /\ copyOf[o][n] = "outlived" => o # DefaultOutput
CopiesHaveSeeds == \A o \in Outputs, n \in SeedNames : GoodCopy(o, n)

\* No file of a queue named n is a copy out of the directory d.
NoCopies(d, n) == \A o \in Outputs : copyOf[o][n] # d

\* Seeds are made only where no copy of an older one is left.
NothingStale ==
    /\ fuzz.pc = "default" => fuzz.dir = DefaultSeeds /\ There(seeds[DefaultSeeds]) = {}
    /\ fuzz.pc = "draw" => \A n \in GrammarSeeds : NoCopies(fuzz.dir, n)

\* What is not copied yet is still to be copied.
CopiesMissing ==
    /\ fuzz.pc = "copy" =>
         /\ fuzz.left \subseteq There(seeds[fuzz.dir])
         /\ There(seeds[fuzz.dir]) \ There(queue[fuzz.out]) \subseteq fuzz.left
    /\ fuzz.pc = "run" /\ ~fuzz.resume => There(seeds[fuzz.dir]) \subseteq There(queue[fuzz.out])

SeedsInv == SeedsTypeOK /\ CopiesHaveSeeds /\ NothingStale /\ CopiesMissing

\* The commands and files that are there at first.
LEMMA SeedConstants ==
  /\ NoFuzz \in FuzzCommands /\ NoFuzz.pc = "idle"
  /\ NoFiles \in [SeedNames -> Contents]
  /\ UserSeeds \in [SeedDirs -> [SeedNames -> Contents]]
  /\ DefaultSeed \in SeedNames /\ DefaultSeed \notin GrammarSeeds
  /\ \A i : GrammarSeed(i) \in GrammarSeeds
  /\ GrammarSeeds \subseteq SeedNames
  /\ Absent \in Contents /\ Cut \in Contents /\ <<"GET / HTTP/1.1">> \in Contents
  /\ Cut # Absent
<1>1. NoFuzz \in FuzzCommands
  BY DirsAssumption DEF NoFuzz, FuzzCommands, SeedStages, Chosen
<1>2. Absent \in Contents /\ Cut \in Contents /\ Own \in Contents
      /\ <<"GET / HTTP/1.1">> \in Contents
  BY DEF Contents
<1>3. NoFiles \in [SeedNames -> Contents] /\ UserSeeds \in [SeedDirs -> [SeedNames -> Contents]]
  BY <1>2, UserAssumption DEF NoFiles
<1>4. Cut # Absent
  BY DEF Cut, Absent
<1> QED
  BY <1>1, <1>2, <1>3, <1>4 DEF NoFuzz, DefaultSeed, GrammarSeeds, GrammarSeed, SeedNames

\* One file of one directory is written.
LEMMA OneFile ==
  ASSUME NEW D, NEW N, NEW C, NEW f \in [D -> [N -> C]], NEW d \in D, NEW n \in N, NEW c \in C,
         NEW g, g = [f EXCEPT ![d][n] = c]
  PROVE  /\ g \in [D -> [N -> C]]
         /\ g[d][n] = c
         /\ \A e \in D, m \in N : e # d \/ m # n => g[e][m] = f[e][m]
<1>1. g = [f EXCEPT ![d] = [f[d] EXCEPT ![n] = c]]
  OBVIOUS
<1>2. f[d] \in [N -> C]
  OBVIOUS
<1> DEFINE h == [f[d] EXCEPT ![n] = c]
<1>3. h \in [N -> C] /\ h[n] = c /\ \A m \in N : m # n => h[m] = f[d][m]
  BY <1>2
<1>4. g = [f EXCEPT ![d] = h]
  BY <1>1
<1> HIDE DEF h
<1> QED
  BY <1>3, <1>4

\* A seed may be written where no queue has a copy of it.
LEMMA SeedWritten ==
  ASSUME SeedsTypeOK, CopiesHaveSeeds, NEW d \in SeedDirs, NEW n \in SeedNames, NEW c \in Contents,
         seeds' = [seeds EXCEPT ![d][n] = c], UNCHANGED <<queue, copyOf>>, NoCopies(d, n)
  PROVE  seeds' \in [SeedDirs -> [SeedNames -> Contents]] /\ CopiesHaveSeeds'
<1>1. /\ seeds' \in [SeedDirs -> [SeedNames -> Contents]]
      /\ \A e \in SeedDirs, m \in SeedNames : e # d \/ m # n => seeds'[e][m] = seeds[e][m]
  <2>1. seeds \in [SeedDirs -> [SeedNames -> Contents]]
    BY DEF SeedsTypeOK
  <2> QED
    BY <2>1, OneFile, Zenon
<1>2. ASSUME NEW o \in Outputs, NEW m \in SeedNames PROVE GoodCopy(o, m)'
  <2>1. GoodCopy(o, m) /\ copyOf[o][n] # d
    BY DEF CopiesHaveSeeds, NoCopies
  <2>2. ASSUME NEW e \in SeedDirs, copyOf[o][m] = e PROVE queue[o][m] = seeds'[e][m]
    <3>1. queue[o][m] = seeds[e][m]
      BY <2>1, <2>2 DEF GoodCopy
    <3>2. e # d \/ m # n
      BY <2>1, <2>2
    <3> QED
      BY <1>1, <3>1, <3>2
  <2>3. queue' = queue /\ copyOf' = copyOf
    OBVIOUS
  <2> QED
    BY <2>1, <2>2, <2>3 DEF GoodCopy
<1> QED
  BY <1>1, <1>2 DEF CopiesHaveSeeds

\* A file of a queue may be written with a mark that says what it is.
LEMMA QueueWritten ==
  ASSUME SeedsTypeOK, CopiesHaveSeeds, NEW o \in Outputs, NEW n \in SeedNames, NEW c \in Contents,
         NEW k \in Marks, queue' = [queue EXCEPT ![o][n] = c],
         copyOf' = [copyOf EXCEPT ![o][n] = k], UNCHANGED seeds,
         k = "none" <=> c = Absent, k \in SeedDirs => c = seeds[k][n], k # "outlived"
  PROVE  /\ queue' \in [Outputs -> [SeedNames -> Contents]]
         /\ copyOf' \in [Outputs -> [SeedNames -> Marks]]
         /\ CopiesHaveSeeds'
         /\ queue'[o][n] = c
         /\ \A p \in Outputs, m \in SeedNames : p # o \/ m # n => queue'[p][m] = queue[p][m]
<1>1. /\ queue' \in [Outputs -> [SeedNames -> Contents]]
      /\ queue'[o][n] = c
      /\ \A p \in Outputs, m \in SeedNames : p # o \/ m # n => queue'[p][m] = queue[p][m]
  <2>1. queue \in [Outputs -> [SeedNames -> Contents]]
    BY DEF SeedsTypeOK
  <2> QED
    BY <2>1, OneFile, Zenon
<1>2. /\ copyOf' \in [Outputs -> [SeedNames -> Marks]]
      /\ copyOf'[o][n] = k
      /\ \A p \in Outputs, m \in SeedNames : p # o \/ m # n => copyOf'[p][m] = copyOf[p][m]
  <2>1. copyOf \in [Outputs -> [SeedNames -> Marks]]
    BY DEF SeedsTypeOK
  <2> QED
    BY <2>1, OneFile, Zenon
<1>3. ASSUME NEW p \in Outputs, NEW m \in SeedNames PROVE GoodCopy(p, m)'
  <2>1. CASE p = o /\ m = n
    BY <1>1, <1>2, <2>1 DEF GoodCopy
  <2>2. CASE p # o \/ m # n
    <3>1. GoodCopy(p, m)
      BY DEF CopiesHaveSeeds
    <3>2. queue'[p][m] = queue[p][m] /\ copyOf'[p][m] = copyOf[p][m] /\ seeds' = seeds
      BY <1>1, <1>2, <2>2
    <3> QED
      BY <3>1, <3>2 DEF GoodCopy
  <2> QED
    BY <2>1, <2>2
<1> QED
  BY <1>1, <1>2, <1>3 DEF CopiesHaveSeeds

\* Where there is no seed there is no copy out of that directory.
LEMMA NoSeedNoCopies ==
  ASSUME CopiesHaveSeeds, NEW d \in SeedDirs, NEW n \in SeedNames, n \notin There(seeds[d])
  PROVE  NoCopies(d, n)
<1> SUFFICES ASSUME NEW o \in Outputs, copyOf[o][n] = d PROVE FALSE
  BY DEF NoCopies
<1>1. queue[o][n] = Absent
  BY DEF CopiesHaveSeeds, GoodCopy, There
<1>2. copyOf[o][n] = "none"
  BY <1>1 DEF CopiesHaveSeeds, GoodCopy
<1> QED
  BY <1>2, DirsAssumption

\* Of a seed that is not there no queue has a copy.
LEMMA NoSeedsNoCopies ==
  CopiesHaveSeeds => \A d \in SeedDirs, n \in SeedNames :
                       n \notin There(seeds[d]) => NoCopies(d, n)
BY NoSeedNoCopies

\* After the seeds, a command that resumes runs, another one has all files to
\* copy that its queue lacks.
LEMMA AfterSeedsType ==
  ASSUME NEW c \in FuzzCommands, NEW dir
  PROVE  /\ AfterSeeds(c, dir) \in FuzzCommands
         /\ AfterSeeds(c, dir).dir = c.dir /\ AfterSeeds(c, dir).out = c.out
         /\ \/ AfterSeeds(c, dir).pc = "run" /\ AfterSeeds(c, dir).resume
            \/ /\ AfterSeeds(c, dir).pc = "copy"
               /\ AfterSeeds(c, dir).left = There(dir) \ There(queue[c.out])
<1>1. CASE c.resume
  <2>1. AfterSeeds(c, dir) = [c EXCEPT !.pc = "run", !.left = {}]
    BY <1>1 DEF AfterSeeds
  <2> QED
    BY <1>1, <2>1 DEF FuzzCommands, SeedStages
<1>2. CASE ~c.resume
  <2> DEFINE missing == There(dir) \ There(queue[c.out])
  <2>1. AfterSeeds(c, dir) = [c EXCEPT !.pc = "copy", !.left = missing]
    BY <1>2 DEF AfterSeeds
  <2>2. missing \subseteq SeedNames
    BY DEF There
  <2> HIDE DEF missing
  <2>3. AfterSeeds(c, dir) \in FuzzCommands
    BY <2>1, <2>2 DEF FuzzCommands, SeedStages
  <2>4. /\ AfterSeeds(c, dir).pc = "copy" /\ AfterSeeds(c, dir).left = missing
        /\ AfterSeeds(c, dir).dir = c.dir /\ AfterSeeds(c, dir).out = c.out
    BY <2>1 DEF FuzzCommands
  <2> QED
    BY <2>3, <2>4 DEF missing
<1> QED
  BY <1>1, <1>2

\* A command that goes on with AfterSeeds has all it needs if the queues are good.
LEMMA AfterSeedsInv ==
  ASSUME NEW c \in FuzzCommands, fuzz' = AfterSeeds(c, seeds'[c.dir]), UNCHANGED <<queue, copyOf>>,
         SeedsTypeOK, seeds' \in [SeedDirs -> [SeedNames -> Contents]], CopiesHaveSeeds'
  PROVE  SeedsInv'
<1> DEFINE dir == seeds'[c.dir]
<1>1. /\ fuzz' \in FuzzCommands /\ fuzz'.dir = c.dir /\ fuzz'.out = c.out
      /\ \/ fuzz'.pc = "run" /\ fuzz'.resume
         \/ fuzz'.pc = "copy" /\ fuzz'.left = There(seeds'[c.dir]) \ There(queue[c.out])
  <2>1. fuzz' = AfterSeeds(c, dir)
    OBVIOUS
  <2> HIDE DEF dir
  <2>2. /\ fuzz' \in FuzzCommands /\ fuzz'.dir = c.dir /\ fuzz'.out = c.out
        /\ \/ fuzz'.pc = "run" /\ fuzz'.resume
           \/ fuzz'.pc = "copy" /\ fuzz'.left = There(dir) \ There(queue[c.out])
    BY <2>1, AfterSeedsType
  <2> QED
    BY <2>2 DEF dir
<1>2. NothingStale' /\ CopiesMissing'
  BY <1>1 DEF NothingStale, CopiesMissing
<1> QED
  BY <1>1, <1>2 DEF SeedsInv, SeedsTypeOK

\* A command that goes on to draw seeds has no copies of their names.
LEMMA DrawsInv ==
  ASSUME NEW c \in FuzzCommands, fuzz' = [c EXCEPT !.pc = "draw"], UNCHANGED <<queue, copyOf>>,
         SeedsTypeOK, seeds' \in [SeedDirs -> [SeedNames -> Contents]], CopiesHaveSeeds',
         There(seeds'[c.dir]) \intersect GrammarSeeds = {}
  PROVE  SeedsInv'
<1>1. fuzz' \in FuzzCommands /\ fuzz'.pc = "draw" /\ fuzz'.dir = c.dir /\ c.dir \in SeedDirs
  BY DEF FuzzCommands, SeedStages
<1>2. (CopiesHaveSeeds => \A d \in SeedDirs, n \in SeedNames :
                             n \notin There(seeds[d]) => NoCopies(d, n))'
  BY NoSeedsNoCopies, PTL
<1>3. \A n \in GrammarSeeds : NoCopies(c.dir, n)'
  <2>1. \A n \in GrammarSeeds : n \in SeedNames /\ n \notin There(seeds'[c.dir])
    BY SeedConstants
  <2> QED
    BY <1>1, <1>2, <2>1
<1>4. NothingStale' /\ CopiesMissing'
  BY <1>1, <1>3 DEF NothingStale, CopiesMissing, NoCopies
<1> QED
  BY <1>1, <1>4 DEF SeedsInv, SeedsTypeOK

\* The command with which a session starts.
NewFuzz(g, d, o, resume) ==
    [NoFuzz EXCEPT !.grammar = g, !.dir = d, !.out = o, !.resume = resume]
LEMMA NewCommand ==
  ASSUME NEW g \in Chosen, NEW d \in SeedDirs, NEW o \in Outputs, NEW resume \in BOOLEAN,
         NEW c, c = NewFuzz(g, d, o, resume)
  PROVE  c \in FuzzCommands /\ c.dir = d /\ c.seen = {}
<1>1. PICK n \in FuzzCommands : n = NoFuzz
  BY SeedConstants
<1>2. n.seen = {}
  BY <1>1 DEF NoFuzz
<1>3. c = [[[[n EXCEPT !.grammar = g] EXCEPT !.dir = d] EXCEPT !.out = o] EXCEPT !.resume = resume]
  BY <1>1 DEF NewFuzz
<1> DEFINE p == [n EXCEPT !.grammar = g]
           q == [p EXCEPT !.dir = d]
           r == [q EXCEPT !.out = o]
<1>4. p \in FuzzCommands /\ p.seen = {}
  BY <1>2 DEF FuzzCommands
<1> HIDE DEF p
<1>5. q \in FuzzCommands /\ q.seen = {} /\ q.dir = d
  BY <1>4 DEF FuzzCommands
<1> HIDE DEF q
<1>6. r \in FuzzCommands /\ r.seen = {} /\ r.dir = d
  BY <1>5 DEF FuzzCommands
<1>7. c = [r EXCEPT !.resume = resume]
  BY <1>3 DEF p, q
<1> HIDE DEF r
<1> QED
  BY <1>6, <1>7 DEF FuzzCommands

\* A command that starts makes seeds only where none are named like them.
LEMMA StartFuzzInv ==
  ASSUME SeedsInv, NEW g \in Chosen, NEW d \in SeedDirs, NEW o \in Outputs, NEW resume \in BOOLEAN,
         StartFuzz(g, d, o, resume)
  PROVE  SeedsInv'
<1> DEFINE command == [NoFuzz EXCEPT !.grammar = g, !.dir = d, !.out = o, !.resume = resume]
<1>1. command \in FuzzCommands /\ command.dir = d
  <2>1. \A c : c = NewFuzz(g, d, o, resume) => c \in FuzzCommands /\ c.dir = d
    BY NewCommand
  <2> QED
    BY <2>1, Zenon DEF NewFuzz
<1>2. /\ UNCHANGED <<seeds, queue, copyOf>>
      /\ fuzz' = IF d = DefaultSeeds /\ bare /\ There(seeds[d]) = {}
                 THEN [command EXCEPT !.pc = "default"]
                 ELSE IF Draws(g, seeds[d]) THEN [command EXCEPT !.pc = "draw"]
                 ELSE AfterSeeds(command, seeds[d])
  BY Zenon DEF StartFuzz
<1> HIDE DEF command
<1>3. SeedsTypeOK /\ CopiesHaveSeeds /\ seeds \in [SeedDirs -> [SeedNames -> Contents]]
  BY DEF SeedsInv, SeedsTypeOK
<1>4. CopiesHaveSeeds' /\ seeds' \in [SeedDirs -> [SeedNames -> Contents]]
  BY <1>2, <1>3 DEF CopiesHaveSeeds, GoodCopy
<1>5. CASE fuzz' = [command EXCEPT !.pc = "default"] /\ d = DefaultSeeds /\ There(seeds[d]) = {}
  <2>1. fuzz' \in FuzzCommands /\ fuzz'.pc = "default" /\ fuzz'.dir = DefaultSeeds
    BY <1>1, <1>5 DEF FuzzCommands, SeedStages
  <2> QED
    BY <1>2, <1>3, <1>4, <1>5, <2>1 DEF SeedsInv, SeedsTypeOK, NothingStale, CopiesMissing
<1>6. CASE fuzz' = [command EXCEPT !.pc = "draw"] /\ Draws(g, seeds[d])
  <2>1. There(seeds'[command.dir]) \intersect GrammarSeeds = {}
    BY <1>1, <1>2, <1>6 DEF Draws
  <2> QED
    BY <1>1, <1>2, <1>3, <1>4, <1>6, <2>1, DrawsInv
<1>7. CASE fuzz' = AfterSeeds(command, seeds[d])
  <2>1. fuzz' = AfterSeeds(command, seeds'[command.dir])
    BY <1>1, <1>2, <1>7
  <2> QED
    BY <1>1, <1>2, <1>3, <1>4, <2>1, AfterSeedsInv
<1> QED
  BY <1>2, <1>5, <1>6, <1>7

\* The default seed is written into an empty directory.
LEMMA WriteDefaultSeedInv ==
  ASSUME SeedsInv, WriteDefaultSeed
  PROVE  SeedsInv'
<1>1. /\ SeedsTypeOK /\ CopiesHaveSeeds /\ fuzz.pc = "default"
      /\ fuzz.dir = DefaultSeeds /\ There(seeds[DefaultSeeds]) = {}
  BY DEF SeedsInv, NothingStale, WriteDefaultSeed
<1>2. DefaultSeeds \in SeedDirs /\ NoCopies(DefaultSeeds, DefaultSeed)
  BY <1>1, DirsAssumption, SeedConstants, NoSeedNoCopies
<1>3. /\ seeds' = [seeds EXCEPT ![DefaultSeeds][DefaultSeed] = <<"GET / HTTP/1.1">>]
      /\ UNCHANGED <<queue, copyOf>>
  BY DEF WriteDefaultSeed
<1>4. seeds' \in [SeedDirs -> [SeedNames -> Contents]] /\ CopiesHaveSeeds'
  <2>1. /\ DefaultSeed \in SeedNames
        /\ \A c \in Contents : seeds' = [seeds EXCEPT ![DefaultSeeds][DefaultSeed] = c] =>
             seeds' \in [SeedDirs -> [SeedNames -> Contents]] /\ CopiesHaveSeeds'
    BY <1>1, <1>2, <1>3, SeedConstants, SeedWritten
  <2> QED
    BY <1>3, <2>1, SeedConstants
<1>5. fuzz \in FuzzCommands
  BY <1>1 DEF SeedsTypeOK
<1>6. CASE fuzz' = [fuzz EXCEPT !.pc = "draw"] /\ Draws(fuzz.grammar, seeds'[DefaultSeeds])
  <2>1. There(seeds'[fuzz.dir]) \intersect GrammarSeeds = {}
    BY <1>1, <1>6 DEF Draws
  <2> QED
    BY <1>1, <1>3, <1>4, <1>5, <1>6, <2>1, DrawsInv
<1>7. CASE fuzz' = AfterSeeds(fuzz, seeds'[DefaultSeeds])
  BY <1>1, <1>3, <1>4, <1>5, <1>7, AfterSeedsInv
<1> QED
  BY <1>6, <1>7 DEF WriteDefaultSeed

\* A drawn seed takes the name of no copy.
LEMMA DrawSeedInv ==
  ASSUME SeedsInv, DrawSeed
  PROVE  SeedsInv'
<1>1. /\ SeedsTypeOK /\ CopiesHaveSeeds /\ fuzz.pc = "draw"
      /\ \A n \in GrammarSeeds : NoCopies(fuzz.dir, n)
  BY DEF SeedsInv, NothingStale, DrawSeed
<1>2. PICK data \in Expansions(fuzz.grammar) :
         LET written == Len(SetToSeq(fuzz.seen))
             new == data \notin fuzz.seen
             drawn == [fuzz EXCEPT !.seen = @ \union {data}, !.tries = @ + 1]
             total == IF new THEN written + 1 ELSE written
         IN /\ seeds' = IF new THEN [seeds EXCEPT ![fuzz.dir][GrammarSeed(written)] = data] ELSE seeds
            /\ fuzz' = IF total = Count \/ drawn.tries = 3 * Count
                       THEN AfterSeeds(drawn, seeds'[fuzz.dir]) ELSE drawn
  BY DEF DrawSeed
<1> DEFINE drawn == [fuzz EXCEPT !.seen = fuzz.seen \union {data}, !.tries = fuzz.tries + 1]
           name == GrammarSeed(Len(SetToSeq(fuzz.seen)))
<1>3. data \in Drawable /\ data \in Contents
  BY <1>1, <1>2 DEF SeedsTypeOK, FuzzCommands, Drawable, Contents
<1>4. /\ drawn \in FuzzCommands /\ drawn.pc = "draw"
      /\ drawn.dir = fuzz.dir /\ fuzz.dir \in SeedDirs
  <2>1. fuzz.seen \union {data} \in SUBSET Drawable
    BY <1>1, <1>3 DEF SeedsTypeOK, FuzzCommands
  <2>2. fuzz.tries + 1 \in Nat
    BY <1>1 DEF SeedsTypeOK, FuzzCommands
  <2> QED
    BY <1>1, <2>1, <2>2 DEF SeedsTypeOK, FuzzCommands
<1>5. name \in GrammarSeeds /\ name \in SeedNames
  BY SeedConstants
<1>6. seeds' = [seeds EXCEPT ![fuzz.dir][name] = data] \/ seeds' = seeds
  BY <1>2
<1>7. fuzz' = drawn \/ fuzz' = AfterSeeds(drawn, seeds'[fuzz.dir])
  BY <1>2
<1> HIDE DEF drawn, name
<1>8. UNCHANGED <<queue, copyOf>>
  BY DEF DrawSeed
<1>9. seeds' \in [SeedDirs -> [SeedNames -> Contents]] /\ CopiesHaveSeeds'
  <2>1. CASE seeds' = [seeds EXCEPT ![fuzz.dir][name] = data]
    <3>1. NoCopies(fuzz.dir, name)
      BY <1>1, <1>5
    <3> QED
      BY <1>1, <1>3, <1>4, <1>5, <1>8, <2>1, <3>1, SeedWritten, Zenon
  <2>2. CASE seeds' = seeds
    BY <1>1, <1>8, <2>2 DEF SeedsTypeOK, CopiesHaveSeeds, GoodCopy
  <2> QED
    BY <1>6, <2>1, <2>2
<1>10. CASE fuzz' = drawn
  <2>1. NothingStale' /\ CopiesMissing'
    BY <1>1, <1>4, <1>8, <1>10 DEF NothingStale, CopiesMissing, NoCopies
  <2> QED
    BY <1>1, <1>4, <1>8, <1>9, <1>10, <2>1 DEF SeedsInv, SeedsTypeOK
<1>11. CASE fuzz' = AfterSeeds(drawn, seeds'[fuzz.dir])
  BY <1>1, <1>4, <1>8, <1>9, <1>11, AfterSeedsInv
<1> QED
  BY <1>7, <1>10, <1>11

\* A copy is of the seed as it is.
LEMMA CopySeedInv ==
  ASSUME SeedsInv, CopySeed
  PROVE  SeedsInv'
<1> DEFINE d == fuzz.dir
           o == fuzz.out
<1>1. /\ SeedsTypeOK /\ CopiesHaveSeeds /\ fuzz.pc = "copy"
      /\ fuzz.left \subseteq There(seeds[d]) /\ There(seeds[d]) \ There(queue[o]) \subseteq fuzz.left
  BY DEF SeedsInv, CopiesMissing, CopySeed
<1>2. seeds' = seeds /\ d \in SeedDirs /\ o \in Outputs /\ fuzz \in FuzzCommands
  BY <1>1 DEF CopySeed, SeedsTypeOK, FuzzCommands
<1>3. CASE fuzz.left = {} /\ fuzz' = [fuzz EXCEPT !.pc = "run"] /\ UNCHANGED <<queue, copyOf>>
  <2>1. fuzz' \in FuzzCommands /\ fuzz'.pc = "run" /\ fuzz'.dir = d /\ fuzz'.out = o
    BY <1>2, <1>3 DEF FuzzCommands, SeedStages
  <2>2. CopiesHaveSeeds'
    BY <1>1, <1>2, <1>3 DEF CopiesHaveSeeds, GoodCopy
  <2> QED
    BY <1>1, <1>2, <1>3, <2>1, <2>2 DEF SeedsInv, SeedsTypeOK, NothingStale, CopiesMissing
<1>4. ASSUME NEW n \in fuzz.left, queue' = [queue EXCEPT ![o][n] = seeds[d][n]],
             copyOf' = [copyOf EXCEPT ![o][n] = d], fuzz' = [fuzz EXCEPT !.left = fuzz.left \ {n}]
      PROVE  SeedsInv'
  <2>1. n \in There(seeds[d]) /\ n \in SeedNames /\ seeds[d][n] \in Contents
    BY <1>1, <1>2 DEF There, SeedsTypeOK
  <2>2. d \in Marks /\ d # "none" /\ d # "outlived" /\ seeds[d][n] # Absent
    BY <1>2, <2>1, DirsAssumption DEF Marks, There
  <2>3. PICK c \in Contents : c = seeds[d][n]
    BY <2>1
  <2>4. /\ queue' \in [Outputs -> [SeedNames -> Contents]]
        /\ copyOf' \in [Outputs -> [SeedNames -> Marks]]
        /\ CopiesHaveSeeds'
        /\ queue'[o][n] = c
        /\ \A p \in Outputs, m \in SeedNames : p # o \/ m # n => queue'[p][m] = queue[p][m]
    <3>1. /\ queue' = [queue EXCEPT ![o][n] = c] /\ copyOf' = [copyOf EXCEPT ![o][n] = d]
          /\ d = "none" <=> c = Absent
      BY <1>4, <2>2, <2>3
    <3>2. d \in SeedDirs => c = seeds[d][n]
      BY <2>3
    <3> HIDE DEF d, o
    <3> QED
      BY <1>1, <1>2, <2>1, <2>2, <3>1, <3>2, QueueWritten, Zenon
  <2>5. fuzz.left \ {n} \subseteq SeedNames
    BY <1>2 DEF FuzzCommands
  <2>6. /\ fuzz' \in FuzzCommands /\ fuzz'.pc = "copy" /\ fuzz'.left = fuzz.left \ {n}
        /\ fuzz'.dir = d /\ fuzz'.out = o
    BY <1>1, <1>2, <1>4, <2>5 DEF FuzzCommands
  <2>7. There(queue'[o]) = There(queue[o]) \union {n}
    BY <1>2, <2>1, <2>2, <2>3, <2>4 DEF There
  <2>8. CopiesMissing' /\ NothingStale'
    BY <1>1, <1>2, <2>6, <2>7 DEF CopiesMissing, NothingStale
  <2> QED
    BY <1>1, <1>2, <2>4, <2>6, <2>8 DEF SeedsInv, SeedsTypeOK
<1> QED
  BY <1>3, <1>4 DEF CopySeed

\* What a command that ended or begins to clean leaves is good if its files are.
LEMMA SettledInv ==
  ASSUME fuzz' \in FuzzCommands, fuzz'.pc \in {"idle", "clean"},
         seeds' \in [SeedDirs -> [SeedNames -> Contents]],
         queue' \in [Outputs -> [SeedNames -> Contents]],
         copyOf' \in [Outputs -> [SeedNames -> Marks]], CopiesHaveSeeds'
  PROVE  SeedsInv'
BY DEF SeedsInv, SeedsTypeOK, NothingStale, CopiesMissing

\* The copies that outlive their seed are in other queues than that of fuzz-output.
LEMMA OutliveInv ==
  ASSUME SeedsTypeOK, CopiesHaveSeeds, There(queue[DefaultOutput]) = {}, NEW n \in SeedNames,
         seeds' = [seeds EXCEPT ![DefaultSeeds][n] = Absent], Outlive(n), queue' = queue
  PROVE  /\ seeds' \in [SeedDirs -> [SeedNames -> Contents]]
         /\ copyOf' \in [Outputs -> [SeedNames -> Marks]]
         /\ CopiesHaveSeeds'
<1>1. /\ seeds' \in [SeedDirs -> [SeedNames -> Contents]]
      /\ \A e \in SeedDirs, m \in SeedNames :
           e # DefaultSeeds \/ m # n => seeds'[e][m] = seeds[e][m]
  <2>1. /\ seeds \in [SeedDirs -> [SeedNames -> Contents]] /\ DefaultSeeds \in SeedDirs
        /\ Absent \in Contents
    BY DirsAssumption, SeedConstants DEF SeedsTypeOK
  <2> QED
    BY <2>1, OneFile, Zenon
<1>2. \A o \in Outputs : copyOf'[o] =
        [copyOf[o] EXCEPT ![n] = IF copyOf[o][n] = DefaultSeeds THEN "outlived" ELSE copyOf[o][n]]
  BY DEF Outlive
<1>3. ASSUME NEW o \in Outputs
      PROVE  /\ copyOf'[o] \in [SeedNames -> Marks]
             /\ copyOf'[o][n] = IF copyOf[o][n] = DefaultSeeds THEN "outlived" ELSE copyOf[o][n]
             /\ \A m \in SeedNames : m # n => copyOf'[o][m] = copyOf[o][m]
  <2>1. copyOf[o] \in [SeedNames -> Marks]
    BY DEF SeedsTypeOK
  <2>2. PICK k : k = IF copyOf[o][n] = DefaultSeeds THEN "outlived" ELSE copyOf[o][n]
    OBVIOUS
  <2>3. k \in Marks
    BY <2>1, <2>2 DEF Marks
  <2>4. copyOf'[o] = [copyOf[o] EXCEPT ![n] = k]
    BY <1>2, <2>2
  <2> QED
    BY <2>1, <2>2, <2>3, <2>4
<1>4. copyOf' \in [Outputs -> [SeedNames -> Marks]]
  BY <1>3 DEF Outlive
<1>5. ASSUME NEW o \in Outputs, NEW m \in SeedNames PROVE GoodCopy(o, m)'
  <2>1. GoodCopy(o, m) /\ queue' = queue
    BY DEF CopiesHaveSeeds
  <2>2. CASE m # n
    <3>1. copyOf'[o][m] = copyOf[o][m] /\ \A e \in SeedDirs : seeds'[e][m] = seeds[e][m]
      BY <1>1, <1>3, <2>2
    <3> QED
      BY <2>1, <3>1 DEF GoodCopy
  <2>3. CASE m = n /\ copyOf[o][n] = DefaultSeeds
    <3>1. copyOf'[o][m] = "outlived"
      BY <1>3, <2>3
    <3>2. copyOf[o][m] # "none"
      BY <2>3, DirsAssumption
    <3>3. queue[o][m] # Absent
      BY <2>1, <3>2 DEF GoodCopy
    <3>4. o # DefaultOutput
      BY <3>3 DEF There
    <3> QED
      BY <2>1, <3>1, <3>3, <3>4, DirsAssumption DEF GoodCopy
  <2>4. CASE m = n /\ copyOf[o][n] # DefaultSeeds
    <3>1. copyOf'[o][m] = copyOf[o][m]
      BY <1>3, <2>4
    <3>2. ASSUME NEW e \in SeedDirs, copyOf[o][m] = e PROVE queue[o][m] = seeds'[e][m]
      BY <1>1, <2>1, <2>4, <3>2 DEF GoodCopy
    <3> QED
      BY <2>1, <3>1, <3>2 DEF GoodCopy
  <2> QED
    BY <2>2, <2>3, <2>4
<1> QED
  BY <1>1, <1>4, <1>5 DEF CopiesHaveSeeds

\* A clean empties the queue of fuzz-output before it removes a seed.
LEMMA CleaningInv ==
  ASSUME SeedsInv, EndFuzz \/ StartCleaning \/ RemoveFromQueue \/ RemoveSeed
  PROVE  SeedsInv'
<1>1. SeedsTypeOK /\ CopiesHaveSeeds
  BY DEF SeedsInv
<1>2. CASE EndFuzz
  <2>1. CopiesHaveSeeds'
    BY <1>1, <1>2 DEF EndFuzz, CopiesHaveSeeds, GoodCopy
  <2> QED
    BY <1>1, <1>2, <2>1, SettledInv, SeedConstants DEF EndFuzz, SeedsTypeOK
<1>3. CASE StartCleaning
  <2> DEFINE left == There(seeds[DefaultSeeds]) \intersect GrammarSeeds
  <2>1. left \subseteq SeedNames
    BY DEF There
  <2> HIDE DEF left
  <2>2. fuzz' = [NoFuzz EXCEPT !.pc = "clean", !.left = left]
    BY <1>3 DEF StartCleaning, left
  <2>3. fuzz' \in FuzzCommands /\ fuzz'.pc = "clean"
    BY <2>1, <2>2, SeedConstants DEF FuzzCommands, SeedStages
  <2>4. CopiesHaveSeeds'
    BY <1>1, <1>3 DEF StartCleaning, CopiesHaveSeeds, GoodCopy
  <2> QED
    BY <1>1, <1>3, <2>3, <2>4, SettledInv DEF StartCleaning, SeedsTypeOK
<1>4. CASE RemoveFromQueue
  <2>1. PICK n \in There(queue[DefaultOutput]) :
            /\ queue' = [queue EXCEPT ![DefaultOutput][n] = Absent]
            /\ copyOf' = [copyOf EXCEPT ![DefaultOutput][n] = "none"]
    BY <1>4 DEF RemoveFromQueue
  <2>2. n \in SeedNames /\ UNCHANGED <<seeds, fuzz>> /\ fuzz.pc = "clean"
    BY <1>4 DEF RemoveFromQueue, There
  <2>3. PICK k \in Marks : k = "none"
    BY DEF Marks
  <2>4. DefaultOutput \in Outputs /\ k \notin SeedDirs /\ Absent \in Contents
    BY <2>3, DirsAssumption, SeedConstants
  <2>5. PICK c \in Contents : c = Absent
    BY <2>4
  <2>6. /\ queue' \in [Outputs -> [SeedNames -> Contents]]
        /\ copyOf' \in [Outputs -> [SeedNames -> Marks]] /\ CopiesHaveSeeds'
    <3>1. /\ queue' = [queue EXCEPT ![DefaultOutput][n] = c]
          /\ copyOf' = [copyOf EXCEPT ![DefaultOutput][n] = k]
          /\ k # "outlived" /\ (k = "none" <=> c = Absent) /\ (k \in SeedDirs => c = seeds[k][n])
      BY <2>1, <2>3, <2>4, <2>5
    <3> QED
      BY <1>1, <2>2, <2>4, <3>1, QueueWritten
  <2> QED
    BY <1>1, <2>2, <2>6, SettledInv DEF SeedsTypeOK
<1>5. CASE RemoveSeed
  <2>1. There(queue[DefaultOutput]) = {} /\ queue' = queue /\ fuzz.pc = "clean"
    BY <1>5 DEF RemoveSeed
  <2>2. CASE fuzz' = NoFuzz /\ UNCHANGED <<seeds, copyOf>>
    <3>1. CopiesHaveSeeds'
      BY <1>1, <2>1, <2>2 DEF CopiesHaveSeeds, GoodCopy
    <3> QED
      BY <1>1, <2>1, <2>2, <3>1, SeedConstants, SettledInv DEF SeedsTypeOK
  <2>3. ASSUME NEW n \in fuzz.left, seeds' = [seeds EXCEPT ![DefaultSeeds][n] = Absent], Outlive(n),
               fuzz' = [fuzz EXCEPT !.left = fuzz.left \ {n}]
        PROVE  SeedsInv'
    <3>1. n \in SeedNames /\ fuzz.left \ {n} \subseteq SeedNames
      BY <1>1 DEF SeedsTypeOK, FuzzCommands
    <3>2. /\ seeds' \in [SeedDirs -> [SeedNames -> Contents]]
          /\ copyOf' \in [Outputs -> [SeedNames -> Marks]] /\ CopiesHaveSeeds'
      BY <1>1, <2>1, <2>3, <3>1, OutliveInv
    <3>3. fuzz' \in FuzzCommands /\ fuzz'.pc = "clean"
      BY <1>1, <2>1, <2>3, <3>1 DEF SeedsTypeOK, FuzzCommands
    <3> QED
      BY <1>1, <2>1, <3>2, <3>3, SettledInv DEF SeedsTypeOK
  <2> QED
    BY <1>5, <2>2, <2>3 DEF RemoveSeed
<1> QED
  BY <1>2, <1>3, <1>4, <1>5

\* An interruption cuts at most the file that was being written.
LEMMA InterruptSeedingInv ==
  ASSUME SeedsInv, InterruptSeeding
  PROVE  SeedsInv'
<1>1. SeedsTypeOK /\ CopiesHaveSeeds /\ NothingStale /\ CopiesMissing
  BY DEF SeedsInv
<1>2. fuzz' \in FuzzCommands /\ fuzz'.pc = "idle" /\ fuzz.dir \in SeedDirs /\ fuzz.out \in Outputs
  BY <1>1, SeedConstants DEF InterruptSeeding, SeedsTypeOK, FuzzCommands
<1>3. CASE UNCHANGED <<seeds, queue, copyOf>>
  <2>1. CopiesHaveSeeds'
    BY <1>1, <1>3 DEF CopiesHaveSeeds, GoodCopy
  <2> QED
    BY <1>1, <1>2, <1>3, <2>1, SettledInv DEF SeedsTypeOK
<1>4. ASSUME NEW d \in SeedDirs, NEW n \in SeedNames, NoCopies(d, n),
             seeds' = [seeds EXCEPT ![d][n] = Cut], UNCHANGED <<queue, copyOf>>
      PROVE  SeedsInv'
  <2>1. PICK c \in Contents : c = Cut
    BY SeedConstants
  <2>2. seeds' = [seeds EXCEPT ![d][n] = c]
    BY <1>4, <2>1
  <2>3. seeds' \in [SeedDirs -> [SeedNames -> Contents]] /\ CopiesHaveSeeds'
    BY <1>1, <1>4, <2>2, SeedWritten, Zenon
  <2> QED
    BY <1>1, <1>2, <1>4, <2>3, SettledInv DEF SeedsTypeOK
<1>5. CASE /\ fuzz.pc = "default"
           /\ seeds' = [seeds EXCEPT ![DefaultSeeds][DefaultSeed] = Cut]
           /\ UNCHANGED <<queue, copyOf>>
  <2>1. DefaultSeeds \in SeedDirs /\ DefaultSeed \in SeedNames
    BY DirsAssumption, SeedConstants
  <2>2. NoCopies(DefaultSeeds, DefaultSeed)
    BY <1>1, <1>5, <2>1, NoSeedNoCopies DEF NothingStale
  <2> QED
    BY <1>4, <1>5, <2>1, <2>2
<1>6. CASE /\ fuzz.pc = "draw"
           /\ seeds' = [seeds EXCEPT ![fuzz.dir][GrammarSeed(Len(SetToSeq(fuzz.seen)))] = Cut]
           /\ UNCHANGED <<queue, copyOf>>
  <2> DEFINE name == GrammarSeed(Len(SetToSeq(fuzz.seen)))
  <2>1. name \in GrammarSeeds /\ name \in SeedNames
    BY SeedConstants
  <2>2. seeds' = [seeds EXCEPT ![fuzz.dir][name] = Cut]
    BY <1>6
  <2> HIDE DEF name
  <2>3. NoCopies(fuzz.dir, name)
    BY <1>1, <1>6, <2>1 DEF NothingStale
  <2> QED
    BY <1>2, <1>4, <1>6, <2>1, <2>2, <2>3
<1>7. ASSUME fuzz.pc = "copy", NEW n \in fuzz.left,
             queue' = [queue EXCEPT ![fuzz.out][n] = Cut],
             copyOf' = [copyOf EXCEPT ![fuzz.out][n] = "cut"], seeds' = seeds
      PROVE  SeedsInv'
  <2>1. n \in SeedNames
    BY <1>1, <1>7 DEF SeedsTypeOK, FuzzCommands
  <2>2. PICK o \in Outputs : o = fuzz.out
    BY <1>2
  <2>3. PICK c \in Contents : c = Cut
    BY SeedConstants
  <2>4. PICK k \in Marks : k = "cut"
    BY DEF Marks
  <2>5. /\ queue' = [queue EXCEPT ![o][n] = c] /\ copyOf' = [copyOf EXCEPT ![o][n] = k]
        /\ k # "outlived" /\ (k = "none" <=> c = Absent) /\ (k \in SeedDirs => c = seeds[k][n])
    BY <1>7, <2>2, <2>3, <2>4, SeedConstants, DirsAssumption
  <2>6. /\ queue' \in [Outputs -> [SeedNames -> Contents]]
        /\ copyOf' \in [Outputs -> [SeedNames -> Marks]] /\ CopiesHaveSeeds'
    <3>1. /\ SeedsTypeOK /\ CopiesHaveSeeds /\ seeds' = seeds
          /\ queue' = [queue EXCEPT ![o][n] = c] /\ copyOf' = [copyOf EXCEPT ![o][n] = k]
      BY <1>1, <1>7, <2>5
    <3>2. k # "outlived" /\ (k = "none" <=> c = Absent) /\ (k \in SeedDirs => c = seeds[k][n])
      BY <2>5
    <3> QED
      BY <2>1, <3>1, <3>2, QueueWritten, Zenon
  <2> QED
    BY <1>1, <1>2, <1>7, <2>6, SettledInv DEF SeedsTypeOK
<1> QED
  BY <1>3, <1>5, <1>6, <1>7 DEF InterruptSeeding

\* Every step keeps the invariant.
LEMMA SeedsNextInv ==
  ASSUME SeedsInv, [SeedsNext]_seedVars
  PROVE  SeedsInv'
<1>1. ASSUME NEW g \in Grammars \union {NoGrammar}, NEW d \in SeedDirs, NEW o \in Outputs,
             NEW resume \in BOOLEAN, StartFuzz(g, d, o, resume)
      PROVE  SeedsInv'
  BY <1>1, StartFuzzInv DEF Chosen
<1>2. CASE UNCHANGED seedVars
  <2>1. UNCHANGED <<seeds, queue, copyOf, fuzz>>
    BY <1>2 DEF seedVars
  <2>2. SeedsTypeOK' /\ CopiesHaveSeeds' /\ NothingStale' /\ CopiesMissing'
    BY <2>1 DEF SeedsInv, SeedsTypeOK, CopiesHaveSeeds, GoodCopy, NothingStale, NoCopies,
                CopiesMissing
  <2> QED
    BY <2>2 DEF SeedsInv
<1> QED
  BY <1>1, <1>2, WriteDefaultSeedInv, DrawSeedInv, CopySeedInv, CleaningInv, InterruptSeedingInv
     DEF SeedsNext

\* The inductive invariant holds in every reachable state: a mark says what the
\* file of a queue is, seeds are made only where no copy of an older one is left,
\* and what a fuzzer lacks is still to be copied.
THEOREM SeedsInvariance == SeedsSpec => []SeedsInv
<1>1. SeedsInit => SeedsInv
  <2> SUFFICES ASSUME SeedsInit PROVE SeedsInv
    OBVIOUS
  <2>1. /\ seeds = UserSeeds /\ queue = [o \in Outputs |-> NoFiles] /\ fuzz = NoFuzz
        /\ copyOf = [o \in Outputs |-> [n \in SeedNames |-> "none"]]
    BY DEF SeedsInit
  <2>2. SeedsTypeOK
    <3>1. "none" \in Marks
      BY DEF Marks
    <3> QED
      BY <2>1, <3>1, SeedConstants DEF SeedsTypeOK
  <2>3. CopiesHaveSeeds
    <3>1. \A o \in Outputs, n \in SeedNames : copyOf[o][n] = "none" /\ queue[o][n] = Absent
      BY <2>1 DEF NoFiles
    <3> QED
      BY <3>1, DirsAssumption DEF CopiesHaveSeeds, GoodCopy
  <2> QED
    BY <2>1, <2>2, <2>3, SeedConstants DEF SeedsInv, NothingStale, CopiesMissing
<1>2. SeedsInv /\ [SeedsNext]_seedVars => SeedsInv'
  BY SeedsNextInv
<1> QED
  BY <1>1, <1>2, PTL DEF SeedsSpec

\* A fuzzer that was not resumed finds each seed in its queue as the seed is
\* now, unless a file of its name is in the way: a copy cut short, one out of
\* another seed directory, or, elsewhere than in fuzz-output, one that a clean
\* left without its seed (libfuzzer.py:24-29, method_dispatcher.py:828, 837).
THEOREM QueuesHoldSeeds == SeedsSpec => []QueueHoldsSeeds
<1>1. ASSUME SeedsInv, fuzz.pc = "run", ~fuzz.resume, NEW n \in There(seeds[fuzz.dir])
      PROVE  queue[fuzz.out][n] = seeds[fuzz.dir][n] \/ NotItsCopy(fuzz.out, n, fuzz.dir)
  <2>1. /\ fuzz.dir \in SeedDirs /\ fuzz.out \in Outputs /\ n \in SeedNames
        /\ n \in There(queue[fuzz.out]) /\ copyOf[fuzz.out][n] \in Marks
    BY <1>1 DEF SeedsInv, SeedsTypeOK, FuzzCommands, CopiesMissing, There
  <2>2. GoodCopy(fuzz.out, n) /\ copyOf[fuzz.out][n] # "none"
    BY <1>1, <2>1 DEF SeedsInv, CopiesHaveSeeds, GoodCopy, There
  <2> QED
    BY <2>1, <2>2 DEF GoodCopy, NotItsCopy, Marks
<1>2. SeedsInv => QueueHoldsSeeds
  BY <1>1 DEF QueueHoldsSeeds
<1> QED
  BY <1>2, SeedsInvariance, PTL

-----------------------------------------------------------------------------
(***************************************************************************)
(* Seeds: what is drawn from a grammar.                                    *)
(***************************************************************************)
\* Strings that have no non-terminal in them.
Clean(g) == {data \in Seq(STRING) : Concrete(g, data)}

\* A symbol that is not a non-terminal is such a string.
LEMMA CleanOne ==
  ASSUME NEW g, NEW t \in STRING, t \notin DOMAIN g
  PROVE  <<t>> \in Clean(g)
<1>1. <<t>> \in Seq(STRING)
  <2>1. \A S : \A u \in S : <<u>> \in Seq(S)
    OBVIOUS
  <2> QED
    BY <2>1, Zenon
<1>2. DOMAIN <<t>> = {1} /\ <<t>>[1] = t
  OBVIOUS
<1> QED
  BY <1>1, <1>2 DEF Clean, Concrete

\* Put one after the other they have none in them either.
LEMMA CleanConcat ==
  ASSUME NEW g, NEW a \in Clean(g), NEW b \in Clean(g)
  PROVE  a \o b \in Clean(g)
<1>1. a \in Seq(STRING) /\ b \in Seq(STRING) /\ Concrete(g, a) /\ Concrete(g, b)
  BY DEF Clean
<1>2. a \o b \in Seq(STRING) /\ Len(a \o b) = Len(a) + Len(b)
  BY <1>1
<1>3. ASSUME NEW i \in DOMAIN (a \o b) PROVE (a \o b)[i] \notin DOMAIN g
  <2>1. i \in 1 .. Len(a) + Len(b)
    BY <1>1, <1>2
  <2>2. CASE i <= Len(a)
    BY <1>1, <2>1, <2>2 DEF Concrete
  <2>3. CASE i > Len(a)
    <3>1. i - Len(a) \in DOMAIN b /\ (a \o b)[i] = b[i - Len(a)]
      BY <1>1, <2>1, <2>3
    <3> QED
      BY <1>1, <3>1 DEF Concrete
  <2> QED
    BY <1>1, <2>1, <2>2, <2>3
<1> QED
  BY <1>2, <1>3 DEF Clean, Concrete

\* Nor has what any number of them make.
LEMMA FlattenClean ==
  ASSUME NEW g, NEW ss, NEW n \in Nat, Len(ss) = n, \A i \in 1 .. n : ss[i] \in Clean(g),
         n = 0 => ss = <<>>
  PROVE  FlattenSeq(ss) \in Clean(g)
<1>1. CASE n = 0
  <2>1. FlattenSeq(ss) = <<>>
    BY <1>1 DEF FlattenSeq
  <2>2. <<>> \in Clean(g)
    BY DEF Clean, Concrete
  <2> QED
    BY <2>1, <2>2
<1>2. CASE n # 0
  <2>1. PICK f : IsFlatten(ss, n, f) /\ FlattenSeq(ss) = f[n]
    BY <1>2, FlattenIsLast
  <2> DEFINE Bad == {i \in 1 .. n : f[i] \notin Clean(g)}
  <2>2. Bad = {}
    <3>1. SUFFICES ASSUME Bad # {} PROVE FALSE
      OBVIOUS
    <3>2. Bad \subseteq Nat
      OBVIOUS
    <3>3. PICK i \in Bad : \A j \in Bad : i <= j
      BY <3>1, <3>2, First, Zenon
    <3>4. i \in 1 .. n
      BY <3>3
    <3>5. f[i] = IF i = 1 THEN ss[i] ELSE f[i - 1] \o ss[i]
      BY <2>1, <3>4, FlattenStep
    <3>6. CASE i = 1
      BY <3>3, <3>4, <3>5, <3>6
    <3>7. CASE i # 1
      <4>1. f[i - 1] \in Clean(g)
        BY <3>3, <3>4, <3>7
      <4>2. f[i - 1] \o ss[i] \in Clean(g)
        BY <3>4, <4>1, CleanConcat
      <4> QED
        BY <3>3, <3>5, <3>7, <4>2
    <3> QED
      BY <3>6, <3>7
  <2>3. n \in 1 .. n
    BY <1>2
  <2> QED
    BY <2>1, <2>2, <2>3
<1> QED
  BY <1>1, <1>2

\* Nor what is made of a production whose symbols all have such ways only.
LEMMA JoinsClean ==
  ASSUME NEW g, NEW p \in Seq(STRING), NEW ways, \A t \in Range(p) : ways[t] \subseteq Clean(g)
  PROVE  Joins(ways, p) \subseteq Clean(g)
<1> SUFFICES ASSUME NEW d \in Joins(ways, p) PROVE d \in Clean(g)
  OBVIOUS
<1>1. PICK q \in [DOMAIN p -> UNION Range(ways)] :
         d = FlattenSeq(q) /\ \A i \in DOMAIN p : q[i] \in ways[p[i]]
  BY DEF Joins
<1>2. PICK n \in Nat : n = Len(p) /\ DOMAIN p = 1 .. n
  OBVIOUS
<1>3. \A i \in 1 .. n : q[i] \in Clean(g)
  BY <1>1, <1>2 DEF Range
<1>4. q \in Seq(Clean(g)) /\ Len(q) = n
  <2>1. q = [i \in 1 .. n |-> q[i]]
    BY <1>1, <1>2
  <2>2. q \in [1 .. n -> Clean(g)]
    BY <1>3, <2>1
  <2> QED
    BY <2>2
<1>5. n = 0 => q = <<>>
  BY <1>4
<1> QED
  BY <1>1, <1>3, <1>4, <1>5, FlattenClean

\* The shortest production is one of them.
LEMMA ShortestIsOne ==
  ASSUME NEW ps \in Seq(Seq(STRING)), Len(ps) > 0
  PROVE  Shortest(ps) \in Range(ps) /\ Shortest(ps) \in Seq(STRING)
<1> DEFINE Minimal(i) == \A j \in DOMAIN ps : Len(ps[i]) <= Len(ps[j])
           lengths == {Len(ps[i]) : i \in DOMAIN ps}
           minimal == {i \in DOMAIN ps : Minimal(i)}
<1>1. DOMAIN ps = 1 .. Len(ps) /\ Len(ps) \in Nat /\ \A i \in DOMAIN ps : Len(ps[i]) \in Nat
  OBVIOUS
<1>2. lengths \subseteq Nat /\ lengths # {}
  <2>1. lengths \subseteq Nat
    BY <1>1
  <2>2. 1 \in DOMAIN ps
    BY <1>1
  <2>3. Len(ps[1]) \in lengths
    BY <2>2
  <2> QED
    BY <2>1, <2>3
<1>3. PICK n \in lengths : \A m \in lengths : n <= m
  BY <1>2, First, Zenon
<1>4. minimal # {}
  <2>1. PICK i \in DOMAIN ps : n = Len(ps[i])
    BY <1>3
  <2>2. \A j \in DOMAIN ps : Len(ps[j]) \in lengths
    OBVIOUS
  <2> HIDE DEF lengths
  <2>3. \A j \in DOMAIN ps : Len(ps[i]) <= Len(ps[j])
    BY <1>3, <2>1, <2>2
  <2> QED
    BY <2>3
<1>5. minimal \subseteq Nat
  BY <1>1
<1>6. PICK i \in minimal : \A j \in minimal : i <= j
  BY <1>4, <1>5, First, Zenon
<1> HIDE DEF Minimal
<1>7. i \in DOMAIN ps /\ Minimal(i) /\ \A j \in 1 .. i - 1 : ~Minimal(j)
  <2>1. i \in DOMAIN ps /\ i \in Nat /\ Minimal(i)
    BY <1>5, <1>6
  <2>2. ASSUME NEW j \in 1 .. i - 1 PROVE ~Minimal(j)
    <3>1. j \in DOMAIN ps /\ ~(i <= j)
      BY <1>1, <2>1
    <3> QED
      BY <1>6, <3>1
  <2> QED
    BY <2>1, <2>2
<1>8. \E k \in DOMAIN ps : Minimal(k) /\ \A j \in 1 .. k - 1 : ~Minimal(j)
  BY <1>7
<1> DEFINE k == CHOOSE k \in DOMAIN ps : Minimal(k) /\ \A j \in 1 .. k - 1 : ~Minimal(j)
<1>9. k \in DOMAIN ps
  BY <1>8, Zenon
<1>10. Shortest(ps) = ps[k]
  BY Zenon DEF Shortest, Minimal
<1> HIDE DEF k
<1> QED
  BY <1>1, <1>9, <1>10 DEF Range

\* Where expansion stops each symbol becomes terminals, if it can in one step.
LEMMA ExpandTerminalClean ==
  ASSUME NEW g, IsGrammar(g), Grounded(g), NEW t \in STRING
  PROVE  ExpandTerminal(g, t) \in Clean(g)
<1>1. CASE t \notin DOMAIN g
  <2>1. ExpandTerminal(g, t) = <<t>>
    BY <1>1 DEF ExpandTerminal
  <2> QED
    BY <1>1, <2>1, CleanOne
<1>2. CASE t \in DOMAIN g
  <2> DEFINE plain == {i \in DOMAIN g[t] : Concrete(g, g[t][i])}
             k == CHOOSE i \in plain : \A j \in plain : i <= j
  <2>1. plain # {} /\ g[t] \in Seq(Seq(STRING))
    BY <1>2 DEF Grounded, IsGrammar
  <2>2. plain \subseteq Nat
    <3>1. \A p \in Seq(Seq(STRING)) : DOMAIN p \subseteq Nat
      OBVIOUS
    <3>2. DOMAIN g[t] \subseteq Nat
      BY <2>1, <3>1, Zenon
    <3> QED
      BY <3>2
  <2>3. \E i \in plain : \A j \in plain : i <= j
    BY <2>1, <2>2, First, Zenon
  <2>4. k \in plain
    BY <2>3, Zenon
  <2>5. ExpandTerminal(g, t) = g[t][k]
    BY <1>2, <2>1, Zenon DEF ExpandTerminal
  <2>6. k \in DOMAIN g[t] /\ Concrete(g, g[t][k])
    BY <2>4
  <2> HIDE DEF k
  <2>7. g[t][k] \in Seq(STRING)
    <3>1. \A p \in Seq(Seq(STRING)) : \A i \in DOMAIN p : p[i] \in Seq(STRING)
      OBVIOUS
    <3> QED
      BY <2>1, <2>6, <3>1, Zenon
  <2> QED
    BY <2>5, <2>6, <2>7 DEF Clean
<1> QED
  BY <1>1, <1>2

\* All ways of all symbols of a grammar have no non-terminal in them.
AllClean(g, ways) == \A s \in DOMAIN g : ways[s] \subseteq Clean(g)

LEMMA AtLimitClean ==
  ASSUME NEW g, IsGrammar(g), Grounded(g)
  PROVE  AllClean(g, AtLimit(g))
<1> SUFFICES ASSUME NEW s \in DOMAIN g PROVE AtLimit(g)[s] \subseteq Clean(g)
  BY DEF AllClean
<1> DEFINE p == Shortest(g[s])
           ways == [t \in Range(p) |-> {ExpandTerminal(g, t)}]
<1>1. p \in Seq(STRING)
  BY ShortestIsOne DEF IsGrammar
<1>2. AtLimit(g)[s] = Joins(ways, p)
  BY DEF AtLimit
<1> HIDE DEF p
<1>3. \A t \in Range(p) : t \in STRING
  BY <1>1 DEF Range
<1>4. \A t \in Range(p) : ways[t] \subseteq Clean(g)
  BY <1>3, ExpandTerminalClean
<1> HIDE DEF ways
<1> QED
  BY <1>1, <1>2, <1>4, JoinsClean

LEMMA AboveLimitClean ==
  ASSUME NEW g, IsGrammar(g), NEW below, AllClean(g, below)
  PROVE  AllClean(g, AboveLimit(g, below))
<1> SUFFICES ASSUME NEW s \in DOMAIN g PROVE AboveLimit(g, below)[s] \subseteq Clean(g)
  BY DEF AllClean
<1> DEFINE ways(p) == [t \in Range(p) |-> IF t \in DOMAIN g THEN below[t] ELSE {<<t>>}]
<1>1. AboveLimit(g, below)[s] = UNION {Joins(ways(p), p) : p \in Range(g[s])}
  BY DEF AboveLimit
<1>2. ASSUME NEW p \in Range(g[s]) PROVE Joins(ways(p), p) \subseteq Clean(g)
  <2>1. p \in Seq(STRING)
    BY DEF IsGrammar, Range
  <2>2. \A t \in Range(p) : t \in STRING
    BY <2>1 DEF Range
  <2>3. \A t \in STRING \ DOMAIN g : <<t>> \in Clean(g)
    BY CleanOne
  <2>4. \A t \in Range(p) : ways(p)[t] \subseteq Clean(g)
    BY <2>2, <2>3 DEF AllClean
  <2> HIDE DEF ways
  <2> QED
    BY <2>1, <2>4, JoinsClean
<1> HIDE DEF ways
<1> QED
  BY <1>1, <1>2

\* The function in the definition of Expansions: what has some levels left to go.
IsExpand(g, n, e) ==
    e = [left \in 0 .. n |-> IF left = 0 THEN AtLimit(g) ELSE AboveLimit(g, e[left - 1])]

\* What it is at each place.
Ways(g, n, e) ==
    \A left \in 0 .. n : /\ left = 0 => e[left] = AtLimit(g)
                         /\ left # 0 => e[left] = AboveLimit(g, e[left - 1])

LEMMA IsExpandStep ==
  ASSUME NEW g, NEW n \in Nat, NEW e, IsExpand(g, n, e)
  PROVE  Ways(g, n, e)
<1> DEFINE r(f) == [left \in 0 .. n |-> IF left = 0 THEN AtLimit(g) ELSE AboveLimit(g, f[left - 1])]
<1>1. e = r(e)
  BY Zenon DEF IsExpand
<1>2. \A f : \A left \in 0 .. n : /\ left = 0 => r(f)[left] = AtLimit(g)
                                  /\ left # 0 => r(f)[left] = AboveLimit(g, f[left - 1])
  OBVIOUS
<1> HIDE DEF r
<1> QED
  BY <1>1, <1>2, Zenon DEF Ways

\* There is such a function.
LEMMA ExpandExists ==
  ASSUME NEW g, NEW n \in Nat
  PROVE  \E e : IsExpand(g, n, e)
<1> DEFINE Bad == {k \in Nat : ~\E e : IsExpand(g, k, e)}
<1>1. SUFFICES ASSUME Bad # {} PROVE FALSE
  OBVIOUS
<1>2. PICK k \in Bad : \A j \in Bad : k <= j
  BY <1>1, First
<1>3. k # 0
  <2> DEFINE h == [left \in 0 .. 0 |-> AtLimit(g)]
  <2>1. h = [left \in 0 .. 0 |-> IF left = 0 THEN AtLimit(g) ELSE AboveLimit(g, h[left - 1])]
    OBVIOUS
  <2> HIDE DEF h
  <2>2. IsExpand(g, 0, h)
    BY <2>1, Zenon DEF IsExpand
  <2> QED
    BY <1>2, <2>2
<1>4. PICK e : IsExpand(g, k - 1, e)
  BY <1>2, <1>3
<1>5. k \in Nat /\ k > 0 /\ k - 1 \in Nat
  BY <1>2, <1>3
<1>6. Ways(g, k - 1, e)
  BY <1>4, <1>5, IsExpandStep
<1> DEFINE h == [left \in 0 .. k |-> IF left = k THEN AboveLimit(g, e[k - 1]) ELSE e[left]]
<1>7. \A left \in 0 .. k : h[left] = IF left = 0 THEN AtLimit(g) ELSE AboveLimit(g, h[left - 1])
  <2> SUFFICES ASSUME NEW left \in 0 .. k
               PROVE  h[left] = IF left = 0 THEN AtLimit(g) ELSE AboveLimit(g, h[left - 1])
    OBVIOUS
  <2>1. CASE left = k
    BY <1>5, <2>1
  <2>2. CASE left # k
    <3>1. left \in 0 .. k - 1 /\ h[left] = e[left] /\ (left # 0 => h[left - 1] = e[left - 1])
      BY <1>5, <2>2
    <3>2. /\ left = 0 => e[left] = AtLimit(g)
          /\ left # 0 => e[left] = AboveLimit(g, e[left - 1])
      BY <1>6, <3>1 DEF Ways
    <3> QED
      BY <3>1, <3>2, Zenon
  <2> QED
    BY <2>1, <2>2
<1>8. h = [left \in 0 .. k |-> h[left]]
  OBVIOUS
<1> HIDE DEF h
<1>9. IsExpand(g, k, h)
  BY <1>7, <1>8, Zenon DEF IsExpand
<1> QED
  BY <1>2, <1>9

\* What can be drawn from a grammar has no non-terminal in it, if each can be
\* grounded in one step.
LEMMA DrawnClean ==
  ASSUME NEW g, IsGrammar(g), Grounded(g)
  PROVE  Expansions(g) \subseteq Clean(g)
<1>1. MaxDepth \in Nat
  BY SizeAssumption
<1> DEFINE e == CHOOSE f : f = [left \in 0 .. MaxDepth |->
                  IF left = 0 THEN AtLimit(g) ELSE AboveLimit(g, f[left - 1])]
<1>2. \E f : f = [left \in 0 .. MaxDepth |->
                    IF left = 0 THEN AtLimit(g) ELSE AboveLimit(g, f[left - 1])]
  BY <1>1, ExpandExists, Zenon DEF IsExpand
<1>3. e = [left \in 0 .. MaxDepth |-> IF left = 0 THEN AtLimit(g) ELSE AboveLimit(g, e[left - 1])]
  BY <1>2, Zenon
<1>4. Expansions(g) = e[MaxDepth][Start]
  BY Zenon DEF Expansions
<1>5. IsExpand(g, MaxDepth, e)
  BY <1>3, Zenon DEF IsExpand
<1> HIDE DEF e
<1>6. Ways(g, MaxDepth, e)
  BY <1>1, <1>5, IsExpandStep
<1> DEFINE Bad == {left \in 0 .. MaxDepth : ~AllClean(g, e[left])}
<1>7. Bad = {}
  <2>1. SUFFICES ASSUME Bad # {} PROVE FALSE
    OBVIOUS
  <2>2. Bad \subseteq Nat
    BY <1>1
  <2>3. PICK k \in Bad : \A j \in Bad : k <= j
    BY <2>1, <2>2, First, Zenon
  <2>4. CASE k = 0
    <3>1. e[k] = AtLimit(g)
      BY <1>6, <2>3, <2>4 DEF Ways
    <3> QED
      BY <2>3, <3>1, AtLimitClean
  <2>5. CASE k # 0
    <3>1. e[k] = AboveLimit(g, e[k - 1])
      BY <1>6, <2>3, <2>5 DEF Ways
    <3>2. k - 1 \in 0 .. MaxDepth /\ k - 1 \notin Bad
      BY <1>1, <2>3, <2>5
    <3>3. AllClean(g, e[k - 1])
      BY <3>2
    <3> QED
      BY <2>3, <3>1, <3>3, AboveLimitClean
  <2> QED
    BY <2>4, <2>5
<1>8. AllClean(g, e[MaxDepth])
  BY <1>1, <1>7
<1> QED
  BY <1>4, <1>8 DEF AllClean, IsGrammar

\* A step that draws nothing, and is of the same grammar or of a new command.
LEMMA NothingDrawn ==
  ASSUME SeedsAreConcrete, \/ fuzz'.grammar = fuzz.grammar /\ fuzz'.seen = fuzz.seen
                           \/ fuzz'.seen = {}
  PROVE  SeedsAreConcrete'
BY DEF SeedsAreConcrete

\* After the seeds a command has the grammar and the seeds it had.
LEMMA AfterSeedsDrawn ==
  ASSUME NEW c \in FuzzCommands, NEW dir
  PROVE  AfterSeeds(c, dir).grammar = c.grammar /\ AfterSeeds(c, dir).seen = c.seen
BY DEF AfterSeeds, FuzzCommands

\* What is drawn has no non-terminal in it.
LEMMA DrawSeedConcrete ==
  ASSUME SeedsTypeOK, SeedsAreConcrete, DrawSeed
  PROVE  SeedsAreConcrete'
<1> USE DEF SeedsTypeOK
<1>1. PICK data \in Expansions(fuzz.grammar) :
         LET written == Len(SetToSeq(fuzz.seen))
             new == data \notin fuzz.seen
             drawn == [fuzz EXCEPT !.seen = @ \union {data}, !.tries = @ + 1]
             total == IF new THEN written + 1 ELSE written
         IN fuzz' = IF total = Count \/ drawn.tries = 3 * Count
                    THEN AfterSeeds(drawn, seeds'[fuzz.dir]) ELSE drawn
  BY DEF DrawSeed
<1> DEFINE drawn == [fuzz EXCEPT !.seen = fuzz.seen \union {data}, !.tries = fuzz.tries + 1]
<1>2. drawn.grammar = fuzz.grammar /\ drawn.seen = fuzz.seen \union {data} /\ drawn \in FuzzCommands
  <2>1. data \in Drawable
    BY <1>1 DEF FuzzCommands, Drawable
  <2>2. fuzz.seen \union {data} \in SUBSET Drawable
    BY <2>1 DEF FuzzCommands
  <2>3. fuzz.tries + 1 \in Nat
    BY DEF FuzzCommands
  <2> QED
    BY <2>2, <2>3 DEF FuzzCommands
<1>3. fuzz' = drawn \/ fuzz' = AfterSeeds(drawn, seeds'[fuzz.dir])
  BY <1>1
<1> HIDE DEF drawn
<1>4. fuzz'.grammar = fuzz.grammar /\ fuzz'.seen = fuzz.seen \union {data}
  BY <1>2, <1>3, AfterSeedsDrawn
<1>5. Grounded(fuzz.grammar) => Concrete(fuzz.grammar, data)
  <2>1. CASE fuzz.grammar \in Grammars
    BY <1>1, <2>1, GrammarAssumption, DrawnClean DEF Clean
  <2>2. CASE fuzz.grammar = NoGrammar
    BY <2>2 DEF NoGrammar, Concrete
  <2> QED
    BY <2>1, <2>2 DEF FuzzCommands, Chosen
<1> QED
  BY <1>4, <1>5 DEF SeedsAreConcrete

\* Where expansion stops at the depth limit too, no non-terminal is left in a
\* seed, whatever the grammars, if each non-terminal of theirs can be grounded in
\* one step (grammar.py:39-60).
THEOREM SeedsHaveNoNonTerminals == SeedsSpec => []SeedsAreConcrete
<1>1. SeedsInit => SeedsAreConcrete
  BY DEF SeedsInit, NoFuzz, SeedsAreConcrete
<1>2. SeedsInv /\ SeedsAreConcrete /\ [SeedsNext]_seedVars => SeedsAreConcrete'
  <2> SUFFICES ASSUME SeedsInv, SeedsAreConcrete, [SeedsNext]_seedVars PROVE SeedsAreConcrete'
    OBVIOUS
  <2>1. SeedsTypeOK /\ fuzz \in FuzzCommands
    BY DEF SeedsInv, SeedsTypeOK
  <2>2. ASSUME NEW g \in Grammars \union {NoGrammar}, NEW d \in SeedDirs, NEW o \in Outputs,
               NEW resume \in BOOLEAN, StartFuzz(g, d, o, resume)
        PROVE  SeedsAreConcrete'
    <3> DEFINE command == [NoFuzz EXCEPT !.grammar = g, !.dir = d, !.out = o, !.resume = resume]
    <3>1. command \in FuzzCommands /\ command.seen = {}
      <4>1. \A c : c = NewFuzz(g, d, o, resume) => c \in FuzzCommands /\ c.seen = {}
        BY NewCommand DEF Chosen
      <4> QED
        BY <4>1, Zenon DEF NewFuzz
    <3>2. \/ fuzz' = [command EXCEPT !.pc = "default"] \/ fuzz' = [command EXCEPT !.pc = "draw"]
          \/ fuzz' = AfterSeeds(command, seeds[d])
      BY <2>2, Zenon DEF StartFuzz
    <3> HIDE DEF command
    <3>3. fuzz'.seen = {}
      BY <3>1, <3>2, AfterSeedsDrawn DEF FuzzCommands
    <3> QED
      BY <3>3, NothingDrawn
  <2>3. CASE WriteDefaultSeed
    <3>1. fuzz' = [fuzz EXCEPT !.pc = "draw"] \/ fuzz' = AfterSeeds(fuzz, seeds'[DefaultSeeds])
      BY <2>3 DEF WriteDefaultSeed
    <3>2. fuzz'.grammar = fuzz.grammar /\ fuzz'.seen = fuzz.seen
      BY <2>1, <3>1, AfterSeedsDrawn DEF FuzzCommands
    <3> QED
      BY <3>2, NothingDrawn
  <2>4. CASE DrawSeed
    BY <2>1, <2>4, DrawSeedConcrete
  <2>5. CASE CopySeed \/ RemoveFromQueue \/ RemoveSeed \/ UNCHANGED seedVars
    <3>1. (fuzz'.grammar = fuzz.grammar /\ fuzz'.seen = fuzz.seen) \/ fuzz' = NoFuzz
      BY <2>1, <2>5 DEF CopySeed, RemoveFromQueue, RemoveSeed, seedVars, FuzzCommands
    <3> QED
      BY <3>1, NothingDrawn DEF NoFuzz
  <2>6. CASE EndFuzz \/ StartCleaning \/ InterruptSeeding
    <3>1. fuzz'.seen = {}
      <4>1. NoFuzz.seen = {}
        BY DEF NoFuzz
      <4> DEFINE left == There(seeds[DefaultSeeds]) \intersect GrammarSeeds
      <4>2. fuzz' = NoFuzz \/ fuzz' = [NoFuzz EXCEPT !.pc = "clean", !.left = left]
        BY <2>6 DEF EndFuzz, StartCleaning, InterruptSeeding
      <4> HIDE DEF left
      <4>3. [NoFuzz EXCEPT !.pc = "clean", !.left = left].seen = {}
        BY DEF NoFuzz
      <4> QED
        BY <4>1, <4>2, <4>3
    <3> QED
      BY <3>1, NothingDrawn
  <2> QED
    BY <2>2, <2>3, <2>4, <2>5, <2>6 DEF SeedsNext
<1> QED
  BY <1>1, <1>2, SeedsInvariance, PTL DEF SeedsSpec

-----------------------------------------------------------------------------
(***************************************************************************)
(* AjpResponses: what is read of the packets is what was written.          *)
(***************************************************************************)
\* The sequence s is found in p from position i on.
Found(p, i, s) ==
    /\ i - 1 + Len(s) <= Len(p)
    /\ \A m \in 1 .. Len(s) : p[i - 1 + m] = s[m]

\* Of what is found the parts are found, one after the other.
LEMMA FoundParts ==
  ASSUME NEW S, NEW p \in Seq(S), NEW i \in Nat, NEW a \in Seq(S), NEW b \in Seq(S),
         Found(p, i, a \o b)
  PROVE  Found(p, i, a) /\ Found(p, i + Len(a), b)
<1>1. Len(a \o b) = Len(a) + Len(b) /\ Len(a) \in Nat /\ Len(b) \in Nat /\ Len(p) \in Nat
  OBVIOUS
<1>2. i - 1 + Len(a) + Len(b) <= Len(p)
  BY <1>1 DEF Found
<1>3. \A m \in 1 .. Len(a) : m \in 1 .. Len(a \o b) /\ (a \o b)[m] = a[m]
  BY <1>1
<1>4. \A m \in 1 .. Len(b) : Len(a) + m \in 1 .. Len(a \o b) /\ (a \o b)[Len(a) + m] = b[m]
  BY <1>1
<1>5. \A m \in 1 .. Len(a) : p[i - 1 + m] = a[m]
  BY <1>3 DEF Found
<1>6. ASSUME NEW m \in 1 .. Len(b) PROVE p[(i + Len(a)) - 1 + m] = b[m]
  <2>1. p[i - 1 + (Len(a) + m)] = b[m]
    BY <1>4 DEF Found
  <2>2. i - 1 + (Len(a) + m) = (i + Len(a)) - 1 + m
    BY <1>1
  <2> QED
    BY <2>1, <2>2
<1>7. i - 1 + Len(a) <= Len(p) /\ (i + Len(a)) - 1 + Len(b) <= Len(p)
  BY <1>1, <1>2
<1> QED
  BY <1>5, <1>6, <1>7, Zenon DEF Found

\* What is found in a part is found in the whole.
LEMMA FoundWithin ==
  ASSUME NEW S, NEW p \in Seq(S), NEW q \in Seq(S), NEW s \in Seq(S),
         NEW i \in Nat, NEW j \in Nat, i > 0, j > 0, Found(p, i, q), Found(q, j, s)
  PROVE  Found(p, i + j - 1, s)
<1>1. Len(p) \in Nat /\ Len(q) \in Nat /\ Len(s) \in Nat
  OBVIOUS
<1>2. i - 1 + Len(q) <= Len(p) /\ j - 1 + Len(s) <= Len(q)
  BY DEF Found
<1>3. ASSUME NEW m \in 1 .. Len(s) PROVE p[(i + j - 1) - 1 + m] = s[m]
  <2>1. j - 1 + m \in 1 .. Len(q)
    BY <1>1, <1>2
  <2>2. p[i - 1 + (j - 1 + m)] = q[j - 1 + m] /\ q[j - 1 + m] = s[m]
    BY <2>1 DEF Found
  <2>3. i - 1 + (j - 1 + m) = (i + j - 1) - 1 + m
    BY <1>1
  <2> QED
    BY <2>2, <2>3
<1>4. (i + j - 1) - 1 + Len(s) <= Len(p)
  BY <1>1, <1>2
<1> QED
  BY <1>3, <1>4, Zenon DEF Found

\* What is found is what is cut out there.
LEMMA FoundIsCut ==
  ASSUME NEW S, NEW p \in Seq(S), NEW i \in Nat, i > 0, NEW s \in Seq(S), Found(p, i, s)
  PROVE  SubSeq(p, i, i - 1 + Len(s)) = s
<1>1. Len(p) \in Nat /\ Len(s) \in Nat /\ i - 1 + Len(s) <= Len(p)
  BY DEF Found
<1> DEFINE c == SubSeq(p, i, i - 1 + Len(s))
<1>2. c \in Seq(S) /\ Len(c) = Len(s)
  BY <1>1
<1>3. \A m \in 1 .. Len(s) : c[m] = p[i - 1 + m]
  BY <1>1
<1>4. \A m \in 1 .. Len(s) : c[m] = s[m]
  BY <1>3 DEF Found
<1> HIDE DEF c
<1>5. c = s
  BY <1>2, <1>4, SeqEqual
<1> QED
  BY <1>5 DEF c

\* A sequence is found in itself.
LEMMA FoundWhole ==
  ASSUME NEW S, NEW p \in Seq(S)
  PROVE  Found(p, 1, p)
BY DEF Found

\* A number below LenMod is written as it is.
LEMMA SmallNumber ==
  ASSUME NEW n \in Nat, n < LenMod
  PROVE  Uint16(n) = <<n \div 256, n % 256>> /\ Uint16(n)[1] = n \div 256 /\ Uint16(n)[2] = n % 256
<1>1. n % LenMod = n
  BY LenModAssumption
<1> QED
  BY <1>1 DEF Uint16

\* And read as it was written.
LEMMA NumberIsRead ==
  ASSUME NEW p \in Seq(Nat), NEW i \in Nat, i > 0, NEW n \in Nat, n < LenMod, Found(p, i, Uint16(n))
  PROVE  ReadLength(p, i) = n /\ p[i] = n \div 256
<1>1. Uint16(n) = <<n \div 256, n % 256>>
  BY SmallNumber
<1>2. p[i] = n \div 256 /\ p[i + 1] = n % 256
  <2>1. Len(Uint16(n)) = 2 /\ Uint16(n)[1] = n \div 256 /\ Uint16(n)[2] = n % 256
    BY <1>1
  <2>2. 1 \in 1 .. 2 /\ 2 \in 1 .. 2 /\ i - 1 + 1 = i /\ i - 1 + 2 = i + 1
    OBVIOUS
  <2> QED
    BY <2>1, <2>2 DEF Found
<1>3. (n \div 256) * 256 + (n % 256) = n
  OBVIOUS
<1> QED
  BY <1>2, <1>3 DEF ReadLength

\* The types of what is written.
LEMMA WrittenTypes ==
  ASSUME NEW n \in Nat, NEW s \in Seq(Nat)
  PROVE  /\ Uint16(n) \in Seq(Nat) /\ Len(Uint16(n)) = 2
         /\ AjpString(s) \in Seq(Nat) /\ Len(AjpString(s)) = Len(s) + 3
<1>1. \A m \in Nat : Uint16(m) \in Seq(Nat) /\ Len(Uint16(m)) = 2
  <2> SUFFICES ASSUME NEW m \in Nat PROVE Uint16(m) \in Seq(Nat) /\ Len(Uint16(m)) = 2
    OBVIOUS
  <2>1. m % LenMod \in Nat
    BY LenModAssumption
  <2>2. \A k \in Nat : k \div 256 \in Nat /\ k % 256 \in Nat
    OBVIOUS
  <2> QED
    BY <2>1, <2>2 DEF Uint16
<1>2. Len(s) \in Nat /\ <<0>> \in Seq(Nat) /\ Len(<<0>>) = 1
  OBVIOUS
<1>3. Uint16(Len(s)) \in Seq(Nat) /\ Len(Uint16(Len(s))) = 2
  BY <1>1, <1>2
<1>4. \A u \in Seq(Nat) : u \o s \o <<0>> \in Seq(Nat) /\ Len(u \o s \o <<0>>) = Len(u) + Len(s) + 1
  <2> SUFFICES ASSUME NEW u \in Seq(Nat)
               PROVE  u \o s \o <<0>> \in Seq(Nat) /\ Len(u \o s \o <<0>>) = Len(u) + Len(s) + 1
    OBVIOUS
  <2>1. u \o s \in Seq(Nat) /\ Len(u \o s) = Len(u) + Len(s)
    OBVIOUS
  <2> QED
    BY <1>2, <2>1
<1>5. AjpString(s) \in Seq(Nat) /\ Len(AjpString(s)) = Len(Uint16(Len(s))) + Len(s) + 1
  BY <1>3, <1>4 DEF AjpString
<1> QED
  BY <1>1, <1>2, <1>3, <1>5

\* A string shorter than LenMod is read as it was written.
LEMMA StringIsRead ==
  ASSUME NEW p \in Seq(Nat), NEW i \in Nat, i > 0, NEW s \in Seq(Nat), Len(s) < LenMod,
         Found(p, i, AjpString(s))
  PROVE  /\ StringAt(p, i) = s /\ AfterString(p, i) = i + Len(AjpString(s))
         /\ ReadLength(p, i) = Len(s) /\ p[i] = Len(s) \div 256
<1>1. Len(s) \in Nat /\ <<0>> \in Seq(Nat)
  OBVIOUS
<1>2. /\ Uint16(Len(s)) \in Seq(Nat) /\ Len(Uint16(Len(s))) = 2
      /\ Len(AjpString(s)) = Len(s) + 3
  BY <1>1, WrittenTypes
<1> DEFINE u == Uint16(Len(s))
<1>3. u \in Seq(Nat) /\ u \o s \in Seq(Nat) /\ AjpString(s) = (u \o s) \o <<0>> /\ Len(u) = 2
  BY <1>2 DEF AjpString
<1> HIDE DEF u
<1>4. Found(p, i, u \o s)
  BY <1>1, <1>3, FoundParts
<1>5. Found(p, i, u) /\ Found(p, i + 2, s)
  BY <1>3, <1>4, FoundParts
<1>6. ReadLength(p, i) = Len(s) /\ p[i] = Len(s) \div 256
  BY <1>1, <1>5, NumberIsRead DEF u
<1>7. SubSeq(p, i + 2, i + 2 - 1 + Len(s)) = s
  BY <1>5, FoundIsCut
<1>8. i + 2 - 1 + Len(s) = i + 1 + Len(s) /\ i + 3 + Len(s) = i + (Len(s) + 3)
  BY <1>1
<1> QED
  BY <1>2, <1>6, <1>7, <1>8 DEF StringAt, AfterString

\* The headers of a message.
MessageHeaders == [code : 0 .. 11, name : Seq(Byte), value : Seq(Byte)]

\* What is written one after the other.
LEMMA PutTogether ==
  ASSUME NEW a \in Seq(Nat), NEW b \in Seq(Nat)
  PROVE  /\ a \o b \in Seq(Nat) /\ Len(a \o b) = Len(a) + Len(b)
         /\ Len(a) \in Nat /\ Len(b) \in Nat
OBVIOUS

\* What a header is written as.
LEMMA HeaderType ==
  ASSUME NEW h \in MessageHeaders
  PROVE  /\ h.name \in Seq(Nat) /\ h.value \in Seq(Nat) /\ h.code \in Nat
         /\ h = [code |-> h.code, name |-> h.name, value |-> h.value]
         /\ Header(h) \in Seq(Nat) /\ Len(Header(h)) > 0
         /\ h.code # 0 => Header(h) = <<160, h.code>> \o AjpString(h.value)
         /\ h.code = 0 => Header(h) = AjpString(h.name) \o AjpString(h.value)
<1>1. h.name \in Seq(Byte) /\ h.value \in Seq(Byte) /\ h.code \in Nat
  BY DEF MessageHeaders
<1>2. h.name \in Seq(Nat) /\ h.value \in Seq(Nat)
  <2>1. Byte \subseteq Nat
    BY DEF Byte
  <2>2. Seq(Byte) \subseteq Seq(Nat)
    BY <2>1, SeqMonotonic
  <2> QED
    BY <1>1, <2>2
<1>3. h = [code |-> h.code, name |-> h.name, value |-> h.value]
  BY DEF MessageHeaders
<1>4. \A s \in Seq(Nat) : AjpString(s) \in Seq(Nat) /\ Len(AjpString(s)) > 0
  <2> SUFFICES ASSUME NEW s \in Seq(Nat) PROVE AjpString(s) \in Seq(Nat) /\ Len(AjpString(s)) > 0
    OBVIOUS
  <2>1. Len(s) \in Nat
    OBVIOUS
  <2>2. AjpString(s) \in Seq(Nat) /\ Len(AjpString(s)) = Len(s) + 3
    BY <2>1, WrittenTypes
  <2> QED
    BY <2>1, <2>2
<1>5. \A c \in Nat : <<160, c>> \in Seq(Nat)
  OBVIOUS
<1>6. /\ h.code # 0 => Header(h) = <<160, h.code>> \o AjpString(h.value)
      /\ h.code = 0 => Header(h) = AjpString(h.name) \o AjpString(h.value)
  BY DEF Header
<1>7. PICK first \in Seq(Nat) : Header(h) = first \o AjpString(h.value)
  BY <1>1, <1>2, <1>4, <1>5, <1>6, Zenon
<1>8. Header(h) \in Seq(Nat) /\ Len(Header(h)) > 0
  <2>1. PICK last \in Seq(Nat) : last = AjpString(h.value) /\ Len(last) > 0
    BY <1>2, <1>4
  <2>2. first \o last \in Seq(Nat) /\ Len(first \o last) > 0
    BY <2>1, PutTogether
  <2> QED
    BY <1>7, <2>1, <2>2
<1> QED
  BY <1>1, <1>2, <1>3, <1>6, <1>8

\* A string that is found in a packet whose length can be said.
LEMMA PacketString ==
  ASSUME NEW p \in Seq(Nat), NEW i \in Nat, i > 0, NEW s \in Seq(Nat), Len(p) < LenMod,
         Found(p, i, AjpString(s))
  PROVE  /\ Len(s) < LenMod /\ Len(s) \in Nat
         /\ StringAt(p, i) = s /\ AfterString(p, i) = i + Len(AjpString(s))
         /\ ReadLength(p, i) = Len(s) /\ p[i] = Len(s) \div 256
<1>1. Len(s) \in Nat /\ Len(p) \in Nat
  OBVIOUS
<1>2. AjpString(s) \in Seq(Nat) /\ Len(AjpString(s)) = Len(s) + 3
  BY <1>1, WrittenTypes
<1>3. Len(s) < LenMod
  BY <1>1, <1>2, LenModAssumption DEF Found
<1>4. /\ StringAt(p, i) = s /\ AfterString(p, i) = i + Len(AjpString(s))
      /\ ReadLength(p, i) = Len(s) /\ p[i] = Len(s) \div 256
  BY <1>3, StringIsRead
<1> QED
  BY <1>1, <1>3, <1>4

\* A header with an encoded name.
LEMMA CodedIsRead ==
  ASSUME NEW p \in Seq(Nat), NEW i \in Nat, i > 0, Len(p) < LenMod, NEW c \in Nat,
         NEW s \in Seq(Nat), Found(p, i, <<160, c>> \o AjpString(s))
  PROVE  /\ p[i] = 160 /\ p[i + 1] = c /\ StringAt(p, i + 2) = s
         /\ AfterString(p, i + 2) = i + Len(<<160, c>> \o AjpString(s))
<1>1. PICK a \in Seq(Nat) : a = <<160, c>> /\ Len(a) = 2 /\ a[1] = 160 /\ a[2] = c
  <2>1. /\ <<160, c>> \in Seq(Nat) /\ Len(<<160, c>>) = 2
        /\ <<160, c>>[1] = 160 /\ <<160, c>>[2] = c
    OBVIOUS
  <2> QED
    BY <2>1, Zenon
<1>2. PICK b \in Seq(Nat) : b = AjpString(s)
  BY WrittenTypes
<1>3. Found(p, i, a \o b)
  BY <1>1, <1>2, Zenon
<1>4. Found(p, i, a) /\ Found(p, i + Len(a), b)
  BY <1>3, FoundParts, Zenon
<1>5. 1 \in 1 .. 2 /\ 2 \in 1 .. 2 /\ i - 1 + 1 = i /\ i - 1 + 2 = i + 1
  OBVIOUS
<1>6. p[i] = 160 /\ p[i + 1] = c
  BY <1>1, <1>4, <1>5 DEF Found
<1>7. PICK j \in Nat : j = i + 2 /\ j > 0 /\ Found(p, j, b)
  <2>1. i + 2 \in Nat /\ i + 2 > 0
    OBVIOUS
  <2> QED
    BY <1>1, <1>4, <2>1, Zenon
<1>8. StringAt(p, j) = s /\ AfterString(p, j) = j + Len(b)
  <2>1. Found(p, j, AjpString(s))
    BY <1>2, <1>7, Zenon
  <2>2. StringAt(p, j) = s /\ AfterString(p, j) = j + Len(AjpString(s))
    BY <1>7, <2>1, PacketString
  <2> QED
    BY <1>2, <2>2, Zenon
<1>9. Len(a \o b) = 2 + Len(b) /\ Len(b) \in Nat
  <2>1. Len(a \o b) = Len(a) + Len(b) /\ Len(b) \in Nat
    OBVIOUS
  <2> QED
    BY <1>1, <2>1
<1>10. j + Len(b) = i + Len(a \o b)
  BY <1>7, <1>9
<1> QED
  BY <1>1, <1>2, <1>6, <1>7, <1>8, <1>10, Zenon

\* A header with a name that is spelled out.
LEMMA NamedIsRead ==
  ASSUME NEW p \in Seq(Nat), NEW i \in Nat, i > 0, Len(p) < LenMod, NEW n \in Seq(Nat),
         Len(n) < 160 * 256, NEW s \in Seq(Nat), Found(p, i, AjpString(n) \o AjpString(s))
  PROVE  /\ p[i] # 160 /\ StringAt(p, i) = n /\ StringAt(p, AfterString(p, i)) = s
         /\ AfterString(p, AfterString(p, i)) = i + Len(AjpString(n) \o AjpString(s))
<1> SUFFICES ASSUME NEW a \in Seq(Nat), a = AjpString(n),
                    NEW b \in Seq(Nat), b = AjpString(s), Found(p, i, a \o b)
             PROVE  /\ p[i] # 160 /\ StringAt(p, i) = n /\ StringAt(p, AfterString(p, i)) = s
                    /\ AfterString(p, AfterString(p, i)) = i + Len(a \o b)
  <2>1. AjpString(n) \in Seq(Nat) /\ AjpString(s) \in Seq(Nat)
    BY WrittenTypes
  <2> QED
    BY <2>1, Zenon
<1>1. Found(p, i, a) /\ Found(p, i + Len(a), b)
  BY FoundParts, Zenon
<1>2. /\ StringAt(p, i) = n /\ AfterString(p, i) = i + Len(a)
      /\ p[i] = Len(n) \div 256 /\ Len(n) \in Nat
  BY <1>1, PacketString
<1>3. p[i] # 160
  <2>1. PICK m \in Nat : m = Len(n) /\ m < 160 * 256 /\ p[i] = m \div 256
    BY <1>2
  <2>2. m \div 256 < 160
    BY <2>1
  <2> QED
    BY <2>1, <2>2
<1>4. PICK j \in Nat : j = i + Len(a) /\ j > 0
  BY <1>1
<1>5. StringAt(p, j) = s /\ AfterString(p, j) = j + Len(b)
  BY <1>1, <1>4, PacketString
<1>6. Len(a \o b) = Len(a) + Len(b) /\ Len(b) \in Nat
  BY PutTogether
<1> QED
  BY <1>1, <1>2, <1>3, <1>4, <1>5, <1>6

\* A header is read as it was written.
LEMMA HeaderIsRead ==
  ASSUME NEW p \in Seq(Nat), NEW i \in Nat, i > 0, NEW h \in MessageHeaders,
         Found(p, i, Header(h)), Len(p) < LenMod,
         h.code # 0 => h.name = <<>>, Len(h.name) < 160 * 256
  PROVE  HeaderAt(p, i) = h /\ AfterHeader(p, i) = i + Len(Header(h))
<1>1. CASE h.code # 0
  <2>1. Found(p, i, <<160, h.code>> \o AjpString(h.value)) /\ h.name = <<>>
    BY <1>1, HeaderType
  <2>2. /\ p[i] = 160 /\ p[i + 1] = h.code /\ StringAt(p, i + 2) = h.value
        /\ AfterString(p, i + 2) = i + Len(<<160, h.code>> \o AjpString(h.value))
    BY <2>1, HeaderType, CodedIsRead
  <2>3. HeaderAt(p, i) = h
    BY <2>1, <2>2, HeaderType DEF HeaderAt
  <2> QED
    BY <1>1, <2>2, <2>3, HeaderType DEF AfterHeader
<1>2. CASE h.code = 0
  <2>1. Found(p, i, AjpString(h.name) \o AjpString(h.value))
    BY <1>2, HeaderType
  <2>2. /\ p[i] # 160 /\ StringAt(p, i) = h.name /\ StringAt(p, AfterString(p, i)) = h.value
        /\ AfterString(p, AfterString(p, i)) = i + Len(AjpString(h.name) \o AjpString(h.value))
    <3>1. h.name \in Seq(Nat) /\ h.value \in Seq(Nat)
      BY HeaderType
    <3> QED
      BY <2>1, <3>1, NamedIsRead
  <2>3. HeaderAt(p, i) = h
    BY <1>2, <2>2, HeaderType DEF HeaderAt
  <2> QED
    BY <1>2, <2>2, <2>3, HeaderType DEF AfterHeader
<1> QED
  BY <1>1, <1>2, HeaderType

\* What is found stays there, and what is put after it is found at the end.
LEMMA FoundLonger ==
  ASSUME NEW p \in Seq(Nat), NEW e \in Seq(Nat), NEW g, g = p \o e
  PROVE  /\ \A i \in Nat, s \in Seq(Nat) : i > 0 /\ Found(p, i, s) => Found(g, i, s)
         /\ Found(g, Len(p) + 1, e)
<1>1. Len(p) \in Nat /\ Len(e) \in Nat /\ Len(g) = Len(p) + Len(e)
  OBVIOUS
<1>2. ASSUME NEW i \in Nat, NEW s \in Seq(Nat), i > 0, Found(p, i, s)
      PROVE  Found(g, i, s)
  <2>1. i - 1 + Len(s) <= Len(p) /\ Len(s) \in Nat
    BY <1>2 DEF Found
  <2>2. ASSUME NEW m \in 1 .. Len(s) PROVE g[i - 1 + m] = s[m]
    <3>1. i - 1 + m \in 1 .. Len(p)
      BY <1>1, <1>2, <2>1
    <3>2. g[i - 1 + m] = p[i - 1 + m]
      BY <3>1
    <3> QED
      BY <1>2, <3>2 DEF Found
  <2>3. i - 1 + Len(s) <= Len(g)
    BY <1>1, <2>1
  <2> QED
    BY <2>2, <2>3, Zenon DEF Found
<1>3. (Len(p) + 1) - 1 + Len(e) <= Len(g) /\ \A m \in 1 .. Len(e) : g[(Len(p) + 1) - 1 + m] = e[m]
  <2>1. (Len(p) + 1) - 1 = Len(p)
    BY <1>1
  <2>2. Len(p) + Len(e) <= Len(g)
    BY <1>1
  <2>3. \A m \in 1 .. Len(e) : g[Len(p) + m] = e[m]
    OBVIOUS
  <2> QED
    BY <2>1, <2>2, <2>3, Zenon
<1>4. Found(g, Len(p) + 1, e)
  BY <1>3, Zenon DEF Found
<1> QED
  BY <1>2, <1>4, Zenon

\* Where the sequences of a list are in what FlattenSeq makes of them: the k-th
\* comes after the first off[k - 1] elements.
Places(ss, n, flat, off) ==
    /\ off \in [0 .. n -> Nat] /\ off[0] = 0 /\ off[n] = Len(flat)
    /\ \A k \in 1 .. n : off[k] = off[k - 1] + Len(ss[k]) /\ Found(flat, off[k - 1] + 1, ss[k])

\* The list tt has one sequence more than ss.
OneMore(ss, n, e, tt) ==
    Len(ss) = n /\ Len(tt) = n + 1 /\ tt[n + 1] = e /\ \A j \in 1 .. n : tt[j] = ss[j]

\* One more sequence takes the place after them.
LEMMA OneMorePlace ==
  ASSUME NEW ss \in Seq(Seq(Nat)), NEW n \in Nat, NEW flat \in Seq(Nat),
         NEW off, Places(ss, n, flat, off), NEW e \in Seq(Nat),
         NEW tt \in Seq(Seq(Nat)), OneMore(ss, n, e, tt)
  PROVE  \E o : Places(tt, n + 1, flat \o e, o)
<1> SUFFICES ASSUME NEW k \in Nat, k = n + 1, NEW g \in Seq(Nat), g = flat \o e,
                    Len(ss) = n, Len(tt) = k, tt[k] = e, \A j \in 1 .. n : tt[j] = ss[j]
             PROVE  \E o : Places(tt, k, g, o)
  <2>1. n + 1 \in Nat /\ flat \o e \in Seq(Nat)
    OBVIOUS
  <2> QED
    BY <2>1, Zenon DEF OneMore
<1> DEFINE o == [j \in 0 .. k |-> IF j = k THEN off[n] + Len(e) ELSE off[j]]
<1>1. /\ off \in [0 .. n -> Nat] /\ off[0] = 0 /\ off[n] = Len(flat)
      /\ \A j \in 1 .. n : off[j] = off[j - 1] + Len(ss[j]) /\ Found(flat, off[j - 1] + 1, ss[j])
  BY DEF Places
<1>2. Len(e) \in Nat /\ Len(flat) \in Nat /\ Len(g) = Len(flat) + Len(e)
  OBVIOUS
<1>3. o \in [0 .. k -> Nat] /\ o[0] = 0 /\ o[k] = Len(g)
  BY <1>1, <1>2
<1>4. /\ \A j \in 1 .. k : o[j - 1] = off[j - 1] /\ j - 1 \in 0 .. n
      /\ \A j \in 1 .. n : o[j] = off[j]
      /\ o[k] = off[n] + Len(e)
  OBVIOUS
<1> HIDE DEF o
<1>5. ASSUME NEW j \in 1 .. k
      PROVE  o[j] = o[j - 1] + Len(tt[j]) /\ Found(g, o[j - 1] + 1, tt[j])
  <2>1. CASE j = k
    <3>1. j - 1 = n /\ tt[j] = e
      BY <2>1
    <3>2. o[j - 1] = off[n]
      BY <1>4, <3>1
    <3>3. Found(g, Len(flat) + 1, e)
      BY FoundLonger
    <3> QED
      BY <1>1, <1>4, <2>1, <3>1, <3>2, <3>3
  <2>2. CASE j # k
    <3>1. j \in 1 .. n /\ o[j - 1] = off[j - 1] /\ o[j] = off[j] /\ off[j - 1] \in Nat
      BY <1>1, <1>4, <2>2
    <3>2. tt[j] = ss[j]
      BY <3>1
    <3>3. PICK s \in Seq(Nat) : s = ss[j]
      BY <3>1
    <3>4. PICK i \in Nat : i = off[j - 1] + 1
      BY <3>1
    <3>5. Found(flat, i, s)
      BY <1>1, <3>1, <3>3, <3>4
    <3>6. Found(g, i, s)
      <4>1. i > 0
        BY <3>1, <3>4
      <4> QED
        BY <3>5, <4>1, FoundLonger
    <3> QED
      BY <1>1, <3>1, <3>2, <3>3, <3>4, <3>6
  <2> QED
    BY <2>1, <2>2
<1>6. Places(tt, k, g, o)
  BY <1>3, <1>5 DEF Places
<1> QED
  BY <1>6

\* Every list of sequences has its places in what FlattenSeq makes of it.
LEMMA FlattenPlaces ==
  ASSUME NEW ss \in Seq(Seq(Nat)), NEW n \in Nat, Len(ss) = n
  PROVE  FlattenSeq(ss) \in Seq(Nat) /\ \E off : Places(ss, n, FlattenSeq(ss), off)
<1> DEFINE Good(tt, k) == FlattenSeq(tt) \in Seq(Nat) /\ \E off : Places(tt, k, FlattenSeq(tt), off)
           Bad == {k \in Nat : \E tt \in Seq(Seq(Nat)) : Len(tt) = k /\ ~Good(tt, k)}
<1>1. SUFFICES ASSUME Bad # {} PROVE FALSE
  BY Zenon
<1>2. PICK k \in Bad : \A j \in Bad : k <= j
  BY <1>1, First
<1>3. PICK tt \in Seq(Seq(Nat)) : Len(tt) = k /\ ~Good(tt, k)
  BY <1>2
<1>4. CASE k = 0
  <2>1. tt = <<>> /\ FlattenSeq(tt) = <<>>
    BY <1>3, <1>4 DEF FlattenSeq
  <2> DEFINE o == [j \in 0 .. 0 |-> 0]
  <2>2. Places(tt, 0, <<>>, o)
    BY <2>1 DEF Places
  <2> QED
    BY <1>3, <1>4, <2>1, <2>2
<1>5. CASE k # 0
  <2>1. PICK l \in Nat : k = l + 1 /\ l \notin Bad
    <3>1. k - 1 \in Nat /\ k = (k - 1) + 1 /\ ~(k <= k - 1)
      BY <1>2, <1>5
    <3> QED
      BY <1>2, <3>1, Zenon
  <2> DEFINE ss0 == SubSeq(tt, 1, l)
  <2>2. /\ ss0 \in Seq(Seq(Nat)) /\ Len(ss0) = l
        /\ \A j \in 1 .. l : tt[j] = ss0[j]
    BY <1>3, <2>1
  <2>3. PICK e \in Seq(Nat) : e = tt[k]
    BY <1>3, <2>1
  <2>4. Append(ss0, e) = tt
    <3>1. Append(ss0, e) \in Seq(Seq(Nat)) /\ Len(Append(ss0, e)) = k
      BY <2>1, <2>2
    <3>2. \A j \in 1 .. k : Append(ss0, e)[j] = tt[j]
      BY <2>1, <2>2, <2>3
    <3> QED
      BY <1>3, <3>1, <3>2, SeqEqual
  <2> HIDE DEF ss0
  <2>5. FlattenSeq(tt) = FlattenSeq(ss0) \o e
    BY <2>2, <2>4, FlattenAppend
  <2>6. Good(ss0, l)
    BY <2>1, <2>2
  <2>7. PICK flat \in Seq(Nat) : flat = FlattenSeq(ss0)
    BY <2>6
  <2>8. PICK off : Places(ss0, l, flat, off)
    BY <2>6, <2>7
  <2>9. PICK g \in Seq(Nat) : g = flat \o e /\ g = FlattenSeq(tt)
    <3>1. flat \o e \in Seq(Nat)
      BY PutTogether
    <3> QED
      BY <2>5, <2>7, <3>1, Zenon
  <2>10. \E o : Places(tt, k, g, o)
    <3>1. OneMore(ss0, l, e, tt)
      BY <1>2, <1>3, <2>1, <2>2, <2>3, <2>9 DEF OneMore
    <3>2. \E o : Places(tt, l + 1, flat \o e, o)
      BY <2>2, <2>8, <3>1, OneMorePlace, Zenon
    <3> QED
      BY <2>1, <2>9, <3>2, Zenon
  <2> QED
    BY <1>3, <2>9, <2>10
<1> QED
  BY <1>4, <1>5

\* A list of headers that is well formed, and what they are written as.
GoodHeaders(hs) ==
    /\ hs \in Seq(MessageHeaders)
    /\ \A k \in DOMAIN hs : /\ hs[k].code # 0 => hs[k].name = <<>>
                            /\ Len(hs[k].name) < 160 * 256
Written(hs) == [k \in DOMAIN hs |-> Header(hs[k])]

\* The headers written are sequences of bytes.
LEMMA WrittenHeaders ==
  ASSUME NEW hs, GoodHeaders(hs), NEW n \in Nat, Len(hs) = n
  PROVE  /\ Written(hs) \in Seq(Seq(Nat)) /\ Len(Written(hs)) = n
         /\ \A k \in 1 .. n : /\ hs[k] \in MessageHeaders
                              /\ Written(hs)[k] = Header(hs[k])
                              /\ Header(hs[k]) \in Seq(Nat) /\ Len(Header(hs[k])) > 0
<1>1. DOMAIN hs = 1 .. n /\ \A k \in 1 .. n : hs[k] \in MessageHeaders
  BY DEF GoodHeaders
<1>2. ASSUME NEW k \in 1 .. n
      PROVE  Header(hs[k]) \in Seq(Nat) /\ Len(Header(hs[k])) > 0
  BY <1>1, HeaderType, Zenon
<1>3. Written(hs) = [k \in 1 .. n |-> Header(hs[k])]
  BY <1>1 DEF Written
<1> QED
  BY <1>1, <1>2, <1>3

\* The headers hs are read in p from i on, the k-th off[k - 1] bytes further.
HeaderPlaces(hs, n, p, i, off) ==
    /\ off \in [0 .. n -> Nat] /\ off[0] = 0
    /\ \A k \in 1 .. n : /\ HeaderAt(p, i + off[k - 1]) = hs[k]
                         /\ AfterHeader(p, i + off[k - 1]) = i + off[k]

\* A list of headers in a packet: each is found where the one before it ends, and
\* there are no more of them than the packet is long.
LEMMA HeadersAreFound ==
  ASSUME NEW hs, GoodHeaders(hs), NEW n \in Nat, Len(hs) = n, NEW p \in Seq(Nat), Len(p) < LenMod,
         NEW i \in Nat, i > 0, Found(p, i, FlattenSeq(Written(hs)))
  PROVE  n < LenMod /\ \E off : HeaderPlaces(hs, n, p, i, off)
<1>1. PICK ss \in Seq(Seq(Nat)) :
         /\ ss = Written(hs) /\ Len(ss) = n
         /\ \A k \in 1 .. n : /\ hs[k] \in MessageHeaders /\ ss[k] = Header(hs[k])
                              /\ ss[k] \in Seq(Nat) /\ Len(ss[k]) > 0
  BY WrittenHeaders
<1>2. PICK flat \in Seq(Nat) : flat = FlattenSeq(ss) /\ \E off : Places(ss, n, flat, off)
  BY <1>1, FlattenPlaces, Zenon
<1>3. PICK off : Places(ss, n, flat, off)
  BY <1>2
<1>4. /\ off \in [0 .. n -> Nat] /\ off[0] = 0 /\ off[n] = Len(flat)
      /\ \A k \in 1 .. n : off[k] = off[k - 1] + Len(ss[k]) /\ Found(flat, off[k - 1] + 1, ss[k])
  BY <1>3 DEF Places
<1>5. Found(p, i, flat)
  BY <1>1, <1>2
<1>6. ASSUME NEW k \in 1 .. n
      PROVE  HeaderAt(p, i + off[k - 1]) = hs[k] /\ AfterHeader(p, i + off[k - 1]) = i + off[k]
  <2>1. PICK h \in MessageHeaders : h = hs[k] /\ (h.code # 0 => h.name = <<>>)
                                   /\ Len(h.name) < 160 * 256
    <3>1. k \in DOMAIN hs
      BY DEF GoodHeaders
    <3> QED
      BY <1>1, <3>1 DEF GoodHeaders
  <2>2. PICK s \in Seq(Nat) : s = Header(h) /\ s = ss[k]
    BY <1>1, <2>1
  <2>3. PICK o \in Nat : o = off[k - 1]
    <3>1. k - 1 \in 0 .. n
      OBVIOUS
    <3> QED
      BY <1>4, <3>1
  <2>4. Found(flat, o + 1, s) /\ o + 1 \in Nat /\ o + 1 > 0
    <3>1. Found(flat, o + 1, s)
      BY <1>4, <2>2, <2>3, Zenon
    <3> QED
      BY <3>1
  <2>5. Found(p, i + (o + 1) - 1, s)
    BY <1>5, <2>4, FoundWithin
  <2>6. PICK j \in Nat : j = i + o /\ j > 0 /\ j = i + (o + 1) - 1
    OBVIOUS
  <2>7. Found(p, j, Header(h))
    BY <2>2, <2>5, <2>6
  <2>8. HeaderAt(p, j) = h /\ AfterHeader(p, j) = j + Len(Header(h))
    BY <2>1, <2>6, <2>7, HeaderIsRead
  <2>9. off[k] = o + Len(s) /\ Len(s) \in Nat
    BY <1>4, <2>2, <2>3
  <2>10. j + Len(Header(h)) = i + off[k]
    <3>1. PICK l \in Nat : l = Len(s) /\ l = Len(Header(h))
      BY <2>2, <2>9, Zenon
    <3>2. off[k] = o + l /\ j = i + o
      BY <2>6, <2>9, <3>1, Zenon
    <3> QED
      BY <3>1, <3>2
  <2> QED
    BY <2>1, <2>3, <2>6, <2>8, <2>10
<1>7. n <= off[n]
  <2> DEFINE Bad == {k \in 0 .. n : off[k] < k}
  <2>1. Bad = {}
    <3>1. SUFFICES ASSUME Bad # {} PROVE FALSE
      OBVIOUS
    <3>2. Bad \subseteq Nat
      OBVIOUS
    <3>3. PICK k \in Bad : \A j \in Bad : k <= j
      BY <3>1, <3>2, First, Zenon
    <3>4. k \in 1 .. n /\ k - 1 \in 0 .. n /\ k - 1 \notin Bad /\ off[k] < k
      BY <1>4, <3>3
    <3>5. off[k - 1] \in Nat /\ off[k - 1] >= k - 1
      BY <1>4, <3>4
    <3>6. off[k] = off[k - 1] + Len(ss[k]) /\ Len(ss[k]) > 0 /\ Len(ss[k]) \in Nat
      BY <1>1, <1>4, <3>4
    <3> QED
      BY <3>4, <3>5, <3>6
  <2>2. n \in 0 .. n /\ off[n] \in Nat
    BY <1>4
  <2>3. ~(off[n] < n)
    BY <2>1, <2>2
  <2> QED
    BY <2>2, <2>3
<1>8. n < LenMod
  <2>1. Len(flat) \in Nat /\ Len(p) \in Nat /\ Len(flat) <= Len(p)
    BY <1>5 DEF Found
  <2> QED
    BY <1>4, <1>7, <2>1, LenModAssumption
<1> QED
  BY <1>4, <1>6, <1>8 DEF HeaderPlaces

\* A list of headers is read as it was written.
LEMMA HeadersAreRead ==
  ASSUME NEW hs, GoodHeaders(hs), NEW n \in Nat, Len(hs) = n, NEW p \in Seq(Nat), Len(p) < LenMod,
         NEW i \in Nat, i > 0, Found(p, i, FlattenSeq(Written(hs)))
  PROVE  HeadersAt(p, i, n) = hs
<1>0. PICK off : HeaderPlaces(hs, n, p, i, off)
  BY HeadersAreFound
<1>1. /\ off \in [0 .. n -> Nat] /\ off[0] = 0
      /\ \A k \in 1 .. n : /\ HeaderAt(p, i + off[k - 1]) = hs[k]
                           /\ AfterHeader(p, i + off[k - 1]) = i + off[k]
  BY <1>0 DEF HeaderPlaces
<1> DEFINE Is(f) == f = [k \in 1 .. n |-> IF k = 1 THEN i ELSE AfterHeader(p, f[k - 1])]
           place == CHOOSE f : f = [k \in 1 .. n |-> IF k = 1 THEN i ELSE AfterHeader(p, f[k - 1])]
           g == [k \in 1 .. n |-> i + off[k - 1]]
<1>2. Is(g)
  <2>1. \A k \in 1 .. n : g[k] = IF k = 1 THEN i ELSE AfterHeader(p, g[k - 1])
    <3> SUFFICES ASSUME NEW k \in 1 .. n
                 PROVE  g[k] = IF k = 1 THEN i ELSE AfterHeader(p, g[k - 1])
      OBVIOUS
    <3>1. CASE k = 1
      BY <1>1, <3>1
    <3>2. CASE k # 1
      <4>1. k - 1 \in 1 .. n
        BY <3>2
      <4>2. g[k - 1] = i + off[(k - 1) - 1] /\ g[k] = i + off[k - 1]
        BY <4>1
      <4>3. AfterHeader(p, i + off[(k - 1) - 1]) = i + off[k - 1]
        BY <1>1, <4>1
      <4> QED
        BY <3>2, <4>2, <4>3
    <3> QED
      BY <3>1, <3>2
  <2>2. g = [k \in 1 .. n |-> g[k]]
    OBVIOUS
  <2> HIDE DEF g
  <2> QED
    BY <2>1, <2>2, Zenon
<1>3. Is(place)
  BY <1>2, Zenon
<1>4. HeadersAt(p, i, n) = [k \in 1 .. n |-> HeaderAt(p, place[k])]
  BY Zenon DEF HeadersAt
<1> HIDE DEF place
<1>5. \A k \in 1 .. n : place[k] = IF k = 1 THEN i ELSE AfterHeader(p, place[k - 1])
  <2> DEFINE r(f) == [k \in 1 .. n |-> IF k = 1 THEN i ELSE AfterHeader(p, f[k - 1])]
  <2>1. place = r(place)
    BY <1>3, Zenon
  <2>2. \A f : \A k \in 1 .. n : r(f)[k] = IF k = 1 THEN i ELSE AfterHeader(p, f[k - 1])
    OBVIOUS
  <2> HIDE DEF r
  <2> QED
    BY <2>1, <2>2, Zenon
<1>6. \A k \in 1 .. n : place[k] = i + off[k - 1]
  <2> DEFINE Bad == {k \in 1 .. n : place[k] # i + off[k - 1]}
  <2>1. SUFFICES ASSUME Bad # {} PROVE FALSE
    OBVIOUS
  <2>2. Bad \subseteq Nat
    OBVIOUS
  <2>3. PICK k \in Bad : \A j \in Bad : k <= j
    BY <2>1, <2>2, First, Zenon
  <2>4. k \in 1 .. n /\ place[k] # i + off[k - 1]
    BY <2>3
  <2>5. k # 1
    BY <1>1, <1>5, <2>4
  <2>6. k - 1 \in 1 .. n /\ k - 1 \notin Bad
    BY <2>3, <2>4, <2>5
  <2>7. place[k - 1] = i + off[(k - 1) - 1]
    BY <2>6
  <2>8. AfterHeader(p, i + off[(k - 1) - 1]) = i + off[k - 1]
    BY <1>1, <2>6
  <2> QED
    BY <1>5, <2>4, <2>5, <2>7, <2>8
<1>7. \A k \in 1 .. n : HeaderAt(p, place[k]) = hs[k]
  BY <1>1, <1>6
<1>8. hs = [k \in 1 .. n |-> hs[k]]
  BY DEF GoodHeaders
<1> QED
  BY <1>4, <1>7, <1>8

\* What FlattenSeq makes of sequences over S is one.
LEMMA FlattenType ==
  ASSUME NEW S, NEW ss \in Seq(Seq(S)), NEW n \in Nat, Len(ss) = n
  PROVE  FlattenSeq(ss) \in Seq(S)
<1>1. CASE n = 0
  <2>1. ss = <<>> /\ FlattenSeq(ss) = <<>>
    BY <1>1 DEF FlattenSeq
  <2>2. \A T : <<>> \in Seq(T)
    OBVIOUS
  <2> QED
    BY <2>1, <2>2, Zenon
<1>2. CASE n # 0
  <2>1. PICK f : IsFlatten(ss, n, f) /\ FlattenSeq(ss) = f[n]
    BY <1>2, FlattenIsLast
  <2> DEFINE Bad == {i \in 1 .. n : f[i] \notin Seq(S)}
  <2>2. Bad = {}
    <3>1. SUFFICES ASSUME Bad # {} PROVE FALSE
      OBVIOUS
    <3>2. Bad \subseteq Nat
      OBVIOUS
    <3>3. PICK i \in Bad : \A j \in Bad : i <= j
      BY <3>1, <3>2, First, Zenon
    <3>4. i \in 1 .. n /\ ss[i] \in Seq(S)
      BY <3>3
    <3>5. f[i] = IF i = 1 THEN ss[i] ELSE f[i - 1] \o ss[i]
      BY <2>1, <3>4, FlattenStep
    <3>6. CASE i = 1
      BY <3>3, <3>4, <3>5, <3>6
    <3>7. CASE i # 1
      <4>1. f[i - 1] \in Seq(S)
        BY <3>3, <3>4, <3>7
      <4>2. f[i - 1] \o ss[i] \in Seq(S)
        BY <3>4, <4>1, ConcatProperties
      <4> QED
        BY <3>3, <3>5, <3>7, <4>2
    <3> QED
      BY <3>6, <3>7
  <2>3. n \in 1 .. n
    BY <1>2
  <2> QED
    BY <2>1, <2>2, <2>3
<1> QED
  BY <1>1, <1>2

\* The parts of a message.
LEMMA ResponseParts ==
  ASSUME NEW r, IsResponse(r)
  PROVE  /\ r = [cpong |-> r.cpong, status |-> r.status, msg |-> r.msg, headers |-> r.headers,
                 chunks |-> r.chunks, reuse |-> r.reuse]
         /\ r.cpong \in BOOLEAN /\ r.reuse \in BOOLEAN
         /\ r.status \in Nat /\ r.status < LenMod
         /\ r.msg \in Seq(Nat) /\ r.headers \in Seq(MessageHeaders)
         /\ \A k \in DOMAIN r.headers : r.headers[k].code # 0 => r.headers[k].name = <<>>
         /\ Chunks(r) \in Seq(Seq(Nat))
<1> DEFINE M == [code : 0 .. 11, name : Seq(Byte), value : Seq(Byte)]
<1>1. /\ r \in [cpong : BOOLEAN, status : Nat, msg : Seq(Byte), headers : Seq(M),
                chunks : Seq(Seq(Byte)), reuse : BOOLEAN]
      /\ r.status < LenMod
      /\ \A k \in DOMAIN r.headers : r.headers[k].code # 0 => r.headers[k].name = <<>>
  BY DEF IsResponse
<1> HIDE DEF M
<1>2. /\ r = [cpong |-> r.cpong, status |-> r.status, msg |-> r.msg, headers |-> r.headers,
              chunks |-> r.chunks, reuse |-> r.reuse]
      /\ r.cpong \in BOOLEAN /\ r.reuse \in BOOLEAN /\ r.status \in Nat /\ r.status < LenMod
      /\ r.msg \in Seq(Byte) /\ r.headers \in Seq(M) /\ r.chunks \in Seq(Seq(Byte))
  BY <1>1
<1>3. Byte \subseteq Nat
  BY DEF Byte
<1>4. r.msg \in Seq(Nat)
  BY <1>2, <1>3, SeqMonotonic
<1>5. r.headers \in Seq(MessageHeaders)
  BY <1>2, Zenon DEF M, MessageHeaders
<1>6. Chunks(r) \in Seq(Seq(Nat))
  <2> DEFINE cs == [k \in DOMAIN r.chunks |-> IF r.chunks[k] = <<>> THEN <<>> ELSE <<r.chunks[k]>>]
  <2>1. PICK m \in Nat : m = Len(r.chunks) /\ DOMAIN r.chunks = 1 .. m
    BY <1>2, LenProperties, Zenon
  <2>2. ASSUME NEW k \in 1 .. m PROVE cs[k] \in Seq(Seq(Nat))
    <3>1. r.chunks[k] \in Seq(Byte)
      BY <1>2, <2>1
    <3>2. r.chunks[k] \in Seq(Nat)
      BY <1>3, <3>1, SeqMonotonic
    <3>3. \A S : <<>> \in Seq(S) /\ \A x \in S : <<x>> \in Seq(S)
      OBVIOUS
    <3>4. <<>> \in Seq(Seq(Nat)) /\ <<r.chunks[k]>> \in Seq(Seq(Nat))
      BY <3>2, <3>3, Zenon
    <3> QED
      BY <2>1, <3>4
  <2>3. cs \in [1 .. m -> Seq(Seq(Nat))]
    BY <2>1, <2>2
  <2>4. Chunks(r) = FlattenSeq(cs)
    BY Zenon DEF Chunks
  <2> HIDE DEF cs
  <2>5. cs \in Seq(Seq(Seq(Nat))) /\ Len(cs) = m
    BY <2>3
  <2> QED
    BY <2>4, <2>5, FlattenType
<1> QED
  BY <1>1, <1>2, <1>4, <1>5, <1>6

\* What is read of the packet with the headers.
LEMMA HeadIsRead ==
  ASSUME NEW r, IsResponse(r), NEW p, p = SendHeaders(r), Len(p) < LenMod,
         \A k \in DOMAIN r.headers : Len(r.headers[k].name) < 160 * 256
  PROVE  /\ p[1] = 4 /\ ReadLength(p, 2) = r.status /\ StringAt(p, 4) = r.msg
         /\ HeadersAt(p, AfterString(p, 4) + 2, ReadLength(p, AfterString(p, 4))) = r.headers
<1>1. GoodHeaders(r.headers)
  BY ResponseParts DEF GoodHeaders
<1>2. PICK n \in Nat : n = Len(r.headers)
  BY <1>1 DEF GoodHeaders
<1>3. Written(r.headers) \in Seq(Seq(Nat)) /\ Len(Written(r.headers)) = n
  BY <1>1, <1>2, WrittenHeaders
<1>4. PICK e \in Seq(Nat) : e = FlattenSeq(Written(r.headers))
  BY <1>3, FlattenPlaces
<1>5. PICK d \in Seq(Nat) : d = Uint16(n) /\ Len(d) = 2
  BY WrittenTypes
<1>6. PICK c \in Seq(Nat) : c = AjpString(r.msg)
  BY ResponseParts, WrittenTypes
<1>7. PICK b \in Seq(Nat) : b = Uint16(r.status) /\ Len(b) = 2
  BY ResponseParts, WrittenTypes
<1>8. PICK a \in Seq(Nat) : a = <<4>> /\ Len(a) = 1 /\ a[1] = 4
  <2>1. <<4>> \in Seq(Nat) /\ Len(<<4>>) = 1 /\ <<4>>[1] = 4
    OBVIOUS
  <2> QED
    BY <2>1, Zenon
<1>9. p = (((a \o b) \o c) \o d) \o e
  BY <1>2, <1>4, <1>5, <1>6, <1>7, <1>8, Zenon DEF SendHeaders, Written
<1>10. PICK ab \in Seq(Nat) : ab = a \o b /\ Len(ab) = 3
  <2>1. a \o b \in Seq(Nat) /\ Len(a \o b) = Len(a) + Len(b)
    BY PutTogether, Zenon
  <2>2. Len(a) + Len(b) = 3
    BY <1>7, <1>8
  <2> QED
    BY <2>1, <2>2, Zenon
<1>11. PICK abc \in Seq(Nat) : abc = ab \o c /\ Len(abc) = 3 + Len(c)
  <2>1. ab \o c \in Seq(Nat) /\ Len(ab \o c) = Len(ab) + Len(c)
    BY PutTogether, Zenon
  <2> QED
    BY <1>10, <2>1, Zenon
<1>12. PICK abcd \in Seq(Nat) : abcd = abc \o d /\ Len(abcd) = 5 + Len(c)
  <2>1. abc \o d \in Seq(Nat) /\ Len(abc \o d) = Len(abc) + Len(d)
    BY PutTogether, Zenon
  <2>2. Len(c) \in Nat
    OBVIOUS
  <2>3. Len(abc) + Len(d) = 5 + Len(c)
    BY <1>5, <1>11, <2>2
  <2> QED
    BY <2>1, <2>3, Zenon
<1>13. p = abcd \o e
  BY <1>9, <1>10, <1>11, <1>12, Zenon
<1>14. p \in Seq(Nat)
  BY <1>13, PutTogether
<1>15. 1 \in Nat /\ Found(p, 1, abcd \o e)
  BY <1>13, <1>14, FoundWhole, Zenon
<1>16. Found(p, 1, abcd) /\ Found(p, 1 + Len(abcd), e)
  BY <1>14, <1>15, FoundParts, Zenon
<1>17. Found(p, 1, abc) /\ Found(p, 1 + Len(abc), d)
  BY <1>12, <1>14, <1>15, <1>16, FoundParts, Zenon
<1>18. Found(p, 1, ab) /\ Found(p, 1 + Len(ab), c)
  BY <1>11, <1>14, <1>15, <1>17, FoundParts, Zenon
<1>19. Found(p, 1, a) /\ Found(p, 1 + Len(a), b)
  BY <1>10, <1>14, <1>15, <1>18, FoundParts, Zenon
<1>20. p[1] = 4
  <2>1. 1 \in 1 .. 1 /\ 1 - 1 + 1 = 1
    OBVIOUS
  <2> QED
    BY <1>8, <1>19, <2>1, Zenon DEF Found
<1>21. ReadLength(p, 2) = r.status
  <2>1. Found(p, 2, Uint16(r.status))
    BY <1>7, <1>8, <1>19
  <2>2. PICK n0 \in Nat : n0 = r.status /\ n0 < LenMod
    BY ResponseParts
  <2>3. Found(p, 2, Uint16(n0)) /\ 2 \in Nat /\ 2 > 0
    BY <2>1, <2>2
  <2> QED
    BY <1>14, <2>2, <2>3, NumberIsRead
<1>22. /\ StringAt(p, 4) = r.msg /\ AfterString(p, 4) = 4 + Len(c)
  <2>1. PICK m \in Seq(Nat) : m = r.msg
    BY ResponseParts
  <2>2. Found(p, 4, AjpString(m)) /\ 4 \in Nat /\ 4 > 0
    BY <1>6, <1>10, <1>18, <2>1
  <2>3. StringAt(p, 4) = m /\ AfterString(p, 4) = 4 + Len(AjpString(m))
    BY <1>14, <2>2, PacketString
  <2> QED
    BY <1>6, <2>1, <2>3
<1>23. PICK i \in Nat : i = AfterString(p, 4) /\ i = 4 + Len(c) /\ i > 0
  <2>1. 4 + Len(c) \in Nat /\ 4 + Len(c) > 0
    OBVIOUS
  <2> QED
    BY <1>22, <2>1
<1>24. PICK j \in Nat : j = i + 2 /\ j > 0
  OBVIOUS
<1>25. Found(p, i, Uint16(n)) /\ Found(p, j, FlattenSeq(Written(r.headers)))
  <2>1. i = 1 + Len(abc) /\ j = 1 + Len(abcd)
    BY <1>11, <1>12, <1>23, <1>24
  <2> QED
    BY <1>4, <1>5, <1>16, <1>17, <2>1, Zenon
<1>26. n < LenMod /\ HeadersAt(p, j, n) = r.headers
  BY <1>1, <1>2, <1>14, <1>24, <1>25, HeadersAreFound, HeadersAreRead
<1>27. ReadLength(p, i) = n
  BY <1>14, <1>23, <1>25, <1>26, NumberIsRead
<1> QED
  BY <1>20, <1>21, <1>22, <1>23, <1>24, <1>26, <1>27

\* What is read of a packet with a chunk.
LEMMA ChunkIsRead ==
  ASSUME NEW s \in Seq(Nat), NEW p, p = BodyChunk(s), Len(p) < LenMod
  PROVE  p[1] = 3 /\ StringAt(p, 2) = s
<1>1. PICK a \in Seq(Nat) : a = <<3>> /\ Len(a) = 1 /\ a[1] = 3
  <2>1. <<3>> \in Seq(Nat) /\ Len(<<3>>) = 1 /\ <<3>>[1] = 3
    OBVIOUS
  <2> QED
    BY <2>1, Zenon
<1>2. PICK b \in Seq(Nat) : b = AjpString(s)
  BY WrittenTypes
<1>3. p = a \o b
  BY <1>1, <1>2, Zenon DEF BodyChunk
<1>4. p \in Seq(Nat)
  BY <1>3, PutTogether
<1>5. 1 \in Nat /\ Found(p, 1, a \o b)
  BY <1>3, <1>4, FoundWhole, Zenon
<1>6. Found(p, 1, a) /\ Found(p, 1 + Len(a), b)
  BY <1>4, <1>5, FoundParts, Zenon
<1>7. Found(p, 2, AjpString(s))
  BY <1>1, <1>2, <1>6
<1>8. StringAt(p, 2) = s
  BY <1>4, <1>7, PacketString
<1>9. 1 \in 1 .. 1 /\ 1 - 1 + 1 = 1
  OBVIOUS
<1>10. p[1] = 3
  BY <1>1, <1>6, <1>9, Zenon DEF Found
<1> QED
  BY <1>8, <1>10

\* How many packets come before the one with the headers.
Before(r) == IF r.cpong THEN 1 ELSE 0

\* The payloads, by their positions.
PayloadsInOrder(r, P) ==
    LET c == Before(r)
        n == Len(Chunks(r))
    IN /\ P \in Seq(Seq(Nat)) /\ Len(P) = c + n + 2
       /\ c = 1 => P[1] = <<9>>
       /\ P[c + 1] = SendHeaders(r)
       /\ \A k \in 1 .. n : P[c + 1 + k] = BodyChunk(Chunks(r)[k])
       /\ P[c + n + 2] = EndResponse(r)

\* The payloads are sequences of bytes.
LEMMA PayloadTypes ==
  ASSUME NEW r, IsResponse(r)
  PROVE  /\ <<9>> \in Seq(Nat) /\ SendHeaders(r) \in Seq(Nat) /\ EndResponse(r) \in Seq(Nat)
         /\ \A k \in DOMAIN Chunks(r) : BodyChunk(Chunks(r)[k]) \in Seq(Nat)
<1>1. \A m \in Nat, n \in Nat : <<m>> \in Seq(Nat) /\ <<m, n>> \in Seq(Nat)
  OBVIOUS
<1>2. <<9>> \in Seq(Nat) /\ EndResponse(r) \in Seq(Nat)
  BY <1>1 DEF EndResponse
<1>3. \A v \in Seq(Nat), w \in Seq(Nat) : v \o w \in Seq(Nat)
  OBVIOUS
<1>4. SendHeaders(r) \in Seq(Nat)
  <2>2. PICK n \in Nat : n = Len(r.headers)
    BY ResponseParts
  <2>3. FlattenSeq(Written(r.headers)) \in Seq(Nat)
    <3>1. \A k \in 1 .. n : Header(r.headers[k]) \in Seq(Nat)
      <4>1. \A k \in 1 .. n : r.headers[k] \in MessageHeaders
        BY <2>2, ResponseParts
      <4> QED
        BY <4>1, HeaderType, Zenon
    <3>2. DOMAIN r.headers = 1 .. n
      BY <2>2, ResponseParts
    <3>3. Written(r.headers) \in Seq(Seq(Nat)) /\ Len(Written(r.headers)) = n
      BY <3>1, <3>2 DEF Written
    <3> QED
      BY <3>3, FlattenPlaces
  <2>4. AjpString(r.msg) \in Seq(Nat) /\ Uint16(r.status) \in Seq(Nat)
    <3>1. PICK m \in Seq(Nat) : m = r.msg
      BY ResponseParts
    <3>2. PICK t \in Nat : t = r.status
      BY ResponseParts
    <3>3. AjpString(m) \in Seq(Nat) /\ Uint16(t) \in Seq(Nat)
      BY WrittenTypes
    <3> QED
      BY <3>1, <3>2, <3>3
  <2>5. Uint16(n) \in Seq(Nat)
    <3>1. \A T : <<>> \in Seq(T)
      OBVIOUS
    <3>2. PICK m : m \in Seq(Nat)
      BY <3>1, Zenon
    <3> QED
      BY <3>2, WrittenTypes
  <2>6. <<4>> \in Seq(Nat)
    BY <1>1
  <2> QED
    BY <1>3, <2>2, <2>3, <2>4, <2>5, <2>6, Zenon DEF SendHeaders, Written
<1>5. ASSUME NEW k \in DOMAIN Chunks(r)
      PROVE  BodyChunk(Chunks(r)[k]) \in Seq(Nat)
  <2>1. PICK s \in Seq(Nat) : s = Chunks(r)[k]
    BY ResponseParts
  <2>2. AjpString(s) \in Seq(Nat) /\ <<3>> \in Seq(Nat)
    BY <1>1, WrittenTypes
  <2> QED
    BY <1>3, <2>1, <2>2, Zenon DEF BodyChunk
<1> QED
  BY <1>2, <1>4, <1>5

\* x is the elements of v and then those of w.
Then(v, w, x) ==
    /\ x \in Seq(Seq(Nat)) /\ Len(x) = Len(v) + Len(w)
    /\ \A k \in 1 .. Len(v) : x[k] = v[k]
    /\ \A k \in 1 .. Len(w) : x[Len(v) + k] = w[k]

LEMMA Joined ==
  ASSUME NEW v \in Seq(Seq(Nat)), NEW w \in Seq(Seq(Nat))
  PROVE  Then(v, w, v \o w)
<1>1. v \o w \in Seq(Seq(Nat))
  <2>1. \A S : \A y \in Seq(S), z \in Seq(S) : y \o z \in Seq(S)
    OBVIOUS
  <2> QED
    BY <2>1, Zenon
<1>2. Len(v \o w) = Len(v) + Len(w)
  OBVIOUS
<1>3. \A k \in 1 .. Len(v) : (v \o w)[k] = v[k]
  OBVIOUS
<1>4. \A k \in 1 .. Len(w) : (v \o w)[Len(v) + k] = w[k]
  OBVIOUS
<1> QED
  BY <1>1, <1>2, <1>3, <1>4, Zenon DEF Then

LEMMA PayloadsAreInOrder ==
  ASSUME NEW r, IsResponse(r)
  PROVE  PayloadsInOrder(r, Payloads(r))
<1>1. \A s \in Seq(Nat) : /\ <<s>> \in Seq(Seq(Nat)) /\ Len(<<s>>) = 1 /\ <<s>>[1] = s
  OBVIOUS
<1>2. PICK h \in Seq(Nat) : h = SendHeaders(r)
  BY PayloadTypes
<1>3. PICK e \in Seq(Nat) : e = EndResponse(r)
  BY PayloadTypes
<1>4. PICK q \in Seq(Nat) : q = <<9>>
  BY PayloadTypes
<1>5. PICK b \in Seq(Seq(Nat)) : b = <<h>> /\ Len(b) = 1 /\ b[1] = h
  BY <1>1
<1>6. PICK d \in Seq(Seq(Nat)) : d = <<e>> /\ Len(d) = 1 /\ d[1] = e
  BY <1>1
<1>7. PICK u \in Seq(Seq(Nat)) : u = <<q>> /\ Len(u) = 1 /\ u[1] = q
  BY <1>1
<1>8. PICK c \in {0, 1} : c = Before(r)
  BY DEF Before
<1>9. PICK a \in Seq(Seq(Nat)) : /\ a = (IF r.cpong THEN <<q>> ELSE <<>>)
                                 /\ Len(a) = c /\ (c = 1 => a[1] = q)
  <2>1. PICK z : z \in Seq(Seq(Nat)) /\ z = <<>>
    <3>1. \A T : <<>> \in Seq(T)
      OBVIOUS
    <3> QED
      BY <3>1, Zenon
  <2>2. CASE r.cpong
    <3>1. c = 1
      BY <1>8, <2>2 DEF Before
    <3> QED
      BY <1>7, <2>2, <3>1
  <2>3. CASE ~r.cpong
    <3>1. c = 0
      BY <1>8, <2>3 DEF Before
    <3>2. Len(<<>>) = 0
      OBVIOUS
    <3>3. z = (IF r.cpong THEN <<q>> ELSE <<>>)
      BY <2>1, <2>3, Zenon
    <3>4. Len(z) = c /\ (c = 1 => z[1] = q)
      BY <2>1, <3>1, <3>2
    <3> QED
      BY <2>1, <3>3, <3>4, Zenon
  <2> QED
    BY <2>2, <2>3
<1>10. PICK cs \in Seq(Seq(Nat)) : cs = Chunks(r)
  BY ResponseParts
<1>11. PICK n \in Nat : n = Len(cs) /\ DOMAIN cs = 1 .. n
  BY LenProperties
<1>12. PICK f \in Seq(Seq(Nat)) : /\ f = [k \in DOMAIN cs |-> BodyChunk(cs[k])]
                                  /\ Len(f) = n /\ \A k \in 1 .. n : f[k] = BodyChunk(cs[k])
  <2> DEFINE g == [k \in DOMAIN cs |-> BodyChunk(cs[k])]
  <2>1. \A k \in 1 .. n : BodyChunk(cs[k]) \in Seq(Nat)
    BY <1>10, <1>11, PayloadTypes
  <2>2. g \in Seq(Seq(Nat)) /\ Len(g) = n /\ \A k \in 1 .. n : g[k] = BodyChunk(cs[k])
    BY <1>11, <2>1
  <2> QED
    BY <2>2, Zenon
<1>13. Payloads(r) = ((a \o b) \o f) \o d
  BY <1>2, <1>3, <1>4, <1>5, <1>6, <1>9, <1>10, <1>12, Zenon DEF Payloads
<1>14. PICK ab : ab = a \o b /\ Then(a, b, ab)
  BY Joined, Zenon
<1>15. ab \in Seq(Seq(Nat)) /\ Len(ab) = c + 1 /\ ab[c + 1] = h /\ (c = 1 => ab[1] = q)
  BY <1>5, <1>9, <1>14 DEF Then
<1>16. PICK abf : abf = ab \o f /\ Then(ab, f, abf)
  BY <1>15, Joined, Zenon
<1>17. /\ abf \in Seq(Seq(Nat)) /\ Len(abf) = c + 1 + n /\ abf[c + 1] = h /\ (c = 1 => abf[1] = q)
       /\ \A k \in 1 .. n : abf[c + 1 + k] = f[k]
  <2>1. abf \in Seq(Seq(Nat)) /\ Len(abf) = c + 1 + n
    BY <1>12, <1>15, <1>16 DEF Then
  <2>2. abf[c + 1] = h /\ (c = 1 => abf[1] = q)
    BY <1>15, <1>16 DEF Then
  <2>3. \A k \in 1 .. n : abf[c + 1 + k] = f[k]
    BY <1>12, <1>15, <1>16 DEF Then
  <2> QED
    BY <2>1, <2>2, <2>3
<1>18. PICK P : P = abf \o d /\ Then(abf, d, P)
  BY <1>17, Joined, Zenon
<1>19. P \in Seq(Seq(Nat)) /\ Len(P) = c + n + 2 /\ P[c + n + 2] = e
  BY <1>6, <1>17, <1>18 DEF Then
<1>20. P[c + 1] = h /\ (c = 1 => P[1] = q)
  BY <1>17, <1>18 DEF Then
<1>21. \A k \in 1 .. n : P[c + 1 + k] = f[k]
  BY <1>17, <1>18 DEF Then
<1>22. P = Payloads(r)
  BY <1>13, <1>14, <1>16, <1>18, Zenon
<1>23. \A k \in 1 .. n : P[c + 1 + k] = BodyChunk(Chunks(r)[k])
  BY <1>10, <1>12, <1>21
<1>24. Before(r) = c /\ Len(Chunks(r)) = n
  BY <1>8, <1>10, <1>11
<1> QED
  BY <1>2, <1>3, <1>4, <1>19, <1>20, <1>22, <1>23, <1>24 DEF PayloadsInOrder

\* What the payloads begin with: only the last with the code of the end.
Begins(r, P, c, n) ==
    /\ c = 1 => P[1][1] = 9
    /\ P[c + 1][1] = 4
    /\ \A k \in 1 .. n : P[c + 1 + k][1] = 3 /\ StringAt(P[c + 1 + k], 2) = Chunks(r)[k]
    /\ P[c + n + 2][1] = 5 /\ P[c + n + 2][2] = (IF r.reuse THEN 1 ELSE 0)

LEMMA FirstBytes ==
  ASSUME NEW r, IsResponse(r), Fits(r), NEW P, P = Payloads(r),
         NEW c \in {0, 1}, c = Before(r), NEW n \in Nat, n = Len(Chunks(r))
  PROVE  Begins(r, P, c, n)
<1>1. /\ P \in Seq(Seq(Nat)) /\ Len(P) = c + n + 2
      /\ c = 1 => P[1] = <<9>>
      /\ P[c + 1] = SendHeaders(r)
      /\ \A k \in 1 .. n : P[c + 1 + k] = BodyChunk(Chunks(r)[k])
      /\ P[c + n + 2] = EndResponse(r)
  BY PayloadsAreInOrder DEF PayloadsInOrder
<1>2. Len(P) = c + n + 2 /\ \A k \in 1 .. Len(P) : Len(P[k]) < LenMod
  <2>1. DOMAIN P = 1 .. Len(P)
    BY <1>1, LenProperties, Zenon
  <2>2. \A k \in DOMAIN P : Len(P[k]) < LenMod
    BY Zenon DEF Fits
  <2> QED
    BY <1>1, <2>1, <2>2
<1>3. c = 1 => P[1][1] = 9
  BY <1>1
<1>4. P[c + 1][1] = 4
  <2>1. PICK p : p = SendHeaders(r) /\ p = P[c + 1]
    BY <1>1
  <2>2. c + 1 \in 1 .. Len(P)
    BY <1>1
  <2>3. Len(p) < LenMod
    BY <1>2, <2>1, <2>2
  <2>4. \A k \in DOMAIN r.headers : Len(r.headers[k].name) < 160 * 256
    BY Zenon DEF Fits
  <2>5. p[1] = 4
    BY <2>1, <2>3, <2>4, HeadIsRead, Zenon
  <2> QED
    BY <2>1, <2>5
<1>5. ASSUME NEW k \in 1 .. n
      PROVE  P[c + 1 + k][1] = 3 /\ StringAt(P[c + 1 + k], 2) = Chunks(r)[k]
  <2>1. PICK cs \in Seq(Seq(Nat)) : cs = Chunks(r)
    BY ResponseParts
  <2>2. PICK s \in Seq(Nat) : s = Chunks(r)[k]
    BY <2>1
  <2>3. PICK p : p = BodyChunk(s) /\ p = P[c + 1 + k]
    BY <1>1, <2>2, Zenon
  <2>4. c + 1 + k \in 1 .. Len(P)
    BY <1>2
  <2>5. Len(p) < LenMod
    BY <1>2, <2>3, <2>4
  <2>6. p[1] = 3 /\ StringAt(p, 2) = s
    BY <2>3, <2>5, ChunkIsRead, Zenon
  <2> QED
    BY <2>2, <2>3, <2>6
<1>6. P[c + n + 2][1] = 5 /\ P[c + n + 2][2] = (IF r.reuse THEN 1 ELSE 0)
  BY <1>1 DEF EndResponse
<1> QED
  BY <1>3, <1>4, <1>5, <1>6, Zenon DEF Begins

\* All payloads read, mod_proxy_ajp has the message.
LEMMA MessageIsRead ==
  ASSUME NEW r, IsResponse(r), Fits(r), packets = Payloads(r)
  PROVE  InOrder /\ Received = [r EXCEPT !.chunks = Chunks(r)]
<1>1. PICK c \in {0, 1} : c = Before(r)
  BY DEF Before
<1>2. PICK cs \in Seq(Seq(Nat)) : cs = Chunks(r)
  BY ResponseParts
<1>3. PICK n \in Nat : n = Len(cs) /\ DOMAIN cs = 1 .. n
  BY LenProperties
<1>4. /\ c = 1 => packets[1][1] = 9
      /\ packets[c + 1][1] = 4
      /\ \A k \in 1 .. n : packets[c + 1 + k][1] = 3 /\ StringAt(packets[c + 1 + k], 2) = cs[k]
      /\ packets[c + n + 2][2] = (IF r.reuse THEN 1 ELSE 0)
  <2>1. n = Len(Chunks(r))
    BY <1>2, <1>3
  <2>2. Begins(r, packets, c, n)
    BY <1>1, <2>1, FirstBytes, Zenon
  <2> QED
    BY <1>2, <2>2, Zenon DEF Begins
<1>5. /\ packets \in Seq(Seq(Nat)) /\ Len(packets) = c + n + 2 /\ packets[c + 1] = SendHeaders(r)
  BY <1>1, <1>2, <1>3, PayloadsAreInOrder DEF PayloadsInOrder
<1>6. HeadAt = c + 1
  <2>1. CASE c = 1
    BY <1>4, <2>1 DEF HeadAt
  <2>2. CASE c = 0
    BY <1>4, <2>2 DEF HeadAt
  <2> QED
    BY <2>1, <2>2
<1>7. InOrder
  <2>1. \A k \in c + 2 .. c + n + 1 : packets[k][1] = 3
    <3>1. ASSUME NEW k \in c + 2 .. c + n + 1 PROVE packets[k][1] = 3
      <4>1. PICK j \in 1 .. n : k = c + 1 + j
        <5>1. k - (c + 1) \in 1 .. n /\ k = c + 1 + (k - (c + 1))
          OBVIOUS
        <5> QED
          BY <5>1, Zenon
      <4> QED
        BY <1>4, <4>1
    <3> QED
      BY <3>1
  <2> QED
    BY <1>4, <1>5, <1>6, <2>1 DEF InOrder
<1>8. PICK p : p = packets[c + 1] /\ p = SendHeaders(r)
  BY <1>5
<1>9. /\ ReadLength(p, 2) = r.status /\ StringAt(p, 4) = r.msg
      /\ HeadersAt(p, AfterString(p, 4) + 2, ReadLength(p, AfterString(p, 4))) = r.headers
  <2>1. DOMAIN Payloads(r) = 1 .. c + n + 2
    BY <1>5
  <2>2. c + 1 \in 1 .. c + n + 2
    OBVIOUS
  <2>3. Len(p) < LenMod
    BY <1>8, <2>1, <2>2, Zenon DEF Fits
  <2>4. \A k \in DOMAIN r.headers : Len(r.headers[k].name) < 160 * 256
    BY Zenon DEF Fits
  <2> QED
    BY <1>8, <2>3, <2>4, HeadIsRead, Zenon
<1>10. (HeadAt = 2) = r.cpong
  <2>1. r.cpong \in BOOLEAN
    BY ResponseParts
  <2>2. CASE r.cpong
    <3>1. HeadAt = 2
      BY <1>1, <1>6, <2>2 DEF Before
    <3> QED
      BY <2>2, <3>1, Zenon
  <2>3. CASE ~r.cpong
    <3>1. HeadAt = 1
      BY <1>1, <1>6, <2>3 DEF Before
    <3>2. HeadAt # 2
      BY <3>1
    <3> QED
      BY <2>1, <2>3, <3>2, Zenon
  <2> QED
    BY <2>2, <2>3
<1>11. (packets[Len(packets)][2] = 1) = r.reuse
  <2>1. r.reuse \in BOOLEAN
    BY ResponseParts
  <2>2. packets[Len(packets)][2] = (IF r.reuse THEN 1 ELSE 0)
    BY <1>4, <1>5
  <2> QED
    BY <2>1, <2>2
<1>12. [k \in 1 .. Len(packets) - HeadAt - 1 |-> StringAt(packets[HeadAt + k], 2)] = Chunks(r)
  <2>1. Len(packets) - HeadAt - 1 = n
    BY <1>5, <1>6
  <2>2. cs = [k \in 1 .. n |-> cs[k]]
    BY <1>3
  <2>3. \A k \in 1 .. n : StringAt(packets[HeadAt + k], 2) = cs[k]
    BY <1>4, <1>6
  <2> QED
    BY <1>2, <2>1, <2>2, <2>3, Zenon
<1>13. Received = [cpong |-> r.cpong, status |-> r.status, msg |-> r.msg, headers |-> r.headers,
                   chunks |-> Chunks(r), reuse |-> r.reuse]
  BY <1>6, <1>8, <1>9, <1>10, <1>11, <1>12, Zenon DEF Received
<1>14. [r EXCEPT !.chunks = Chunks(r)]
         = [cpong |-> r.cpong, status |-> r.status, msg |-> r.msg, headers |-> r.headers,
            chunks |-> Chunks(r), reuse |-> r.reuse]
  <2> DEFINE R(v, t, m, hs, ch, u) == [cpong |-> v, status |-> t, msg |-> m, headers |-> hs,
                                       chunks |-> ch, reuse |-> u]
  <2>2. PICK v, t, m, hs, ch, u : /\ v = r.cpong /\ t = r.status /\ m = r.msg
                                  /\ hs = r.headers /\ ch = r.chunks /\ u = r.reuse
    BY Zenon
  <2>3. r = R(v, t, m, hs, ch, u)
    BY <2>2, ResponseParts, Zenon
  <2>4. PICK x : x = Chunks(r)
    BY Zenon
  <2>5. [r EXCEPT !.chunks = x] = R(v, t, m, hs, x, u)
    BY <2>3
  <2> QED
    BY <2>2, <2>4, <2>5, Zenon
<1> QED
  BY <1>7, <1>13, <1>14

\* The packets of a message.
Wraps(r) == [i \in DOMAIN Payloads(r) |-> WrapPacket(Payloads(r)[i])]

\* They are sequences of bytes, and what BuildAjpResponse makes is their concatenation.
LEMMA WrapsType ==
  ASSUME NEW r, IsResponse(r)
  PROVE  /\ Wraps(r) \in Seq(Seq(Nat)) /\ Len(Wraps(r)) = Len(Payloads(r))
         /\ Payloads(r) \in Seq(Seq(Nat)) /\ Len(Payloads(r)) \in Nat
         /\ \A k \in 1 .. Len(Payloads(r)) : Wraps(r)[k] = WrapPacket(Payloads(r)[k])
         /\ BuildAjpResponse(r) = FlattenSeq(Wraps(r))
<1>1. PICK P \in Seq(Seq(Nat)) : P = Payloads(r)
  BY PayloadsAreInOrder DEF PayloadsInOrder
<1>2. PICK n \in Nat : n = Len(P) /\ DOMAIN P = 1 .. n
  BY LenProperties
<1>3. ASSUME NEW k \in 1 .. n PROVE WrapPacket(P[k]) \in Seq(Nat)
  <2>1. PICK p \in Seq(Nat) : p = P[k]
    BY <1>2
  <2>2. PICK l \in Nat : l = Len(p)
    OBVIOUS
  <2>3. Uint16(l) \in Seq(Nat)
    BY <2>1, WrittenTypes
  <2>4. <<65, 66>> \in Seq(Nat)
    OBVIOUS
  <2>5. \A v \in Seq(Nat), w \in Seq(Nat) : v \o w \in Seq(Nat)
    OBVIOUS
  <2> QED
    BY <2>1, <2>2, <2>3, <2>4, <2>5, Zenon DEF WrapPacket
<1>4. Wraps(r) = [k \in 1 .. n |-> WrapPacket(P[k])]
  BY <1>1, <1>2, Zenon DEF Wraps
<1>5. Wraps(r) \in Seq(Seq(Nat)) /\ Len(Wraps(r)) = n
  BY <1>3, <1>4
<1>6. BuildAjpResponse(r) = FlattenSeq(Wraps(r))
  BY Zenon DEF BuildAjpResponse, Wraps
<1>7. \A k \in 1 .. n : Wraps(r)[k] = WrapPacket(P[k])
  BY <1>4
<1> QED
  BY <1>1, <1>2, <1>5, <1>6, <1>7

\* mod_proxy_ajp is at a packet of the message r: it has read the packets before it.
AtPacket(r, pk, st, off, k) ==
    /\ Places(Wraps(r), Len(Payloads(r)), BuildAjpResponse(r), off)
    /\ pk = SubSeq(Payloads(r), 1, k)
    /\ st = SubSeq(BuildAjpResponse(r), off[k] + 1, Len(BuildAjpResponse(r)))

\* Nothing was sent, or some packets were read and the others are in the stream.
Reading(r, pk, st) ==
    \/ pk = <<>> /\ st = <<>>
    \/ \E off : \E k \in 0 .. Len(Payloads(r)) : AtPacket(r, pk, st, off, k)

\* The inductive invariant: the packets that were read are those of the message up to
\* one of them, and the stream is the bytes of the others.
AjpInv ==
    /\ IsResponse(response)
    /\ Fits(response) => Reading(response, packets, stream)

\* What is left of a sequence after the first o elements.
Left(f, o, s) ==
    s \in Seq(Nat) /\ Len(s) = Len(f) - o /\ \A j \in 1 .. Len(s) : s[j] = f[o + j]

LEMMA Rest ==
  ASSUME NEW f \in Seq(Nat), NEW o \in Nat, o <= Len(f), NEW s, s = SubSeq(f, o + 1, Len(f))
  PROVE  Left(f, o, s)
<1>1. PICK n \in Nat : n = Len(f)
  OBVIOUS
<1>2. s \in Seq(Nat)
  BY <1>1
<1>3. Len(s) = n - o
  BY <1>1
<1>4. \A j \in 1 .. n - o : s[j] = f[o + j]
  BY <1>1
<1> QED
  BY <1>1, <1>2, <1>3, <1>4 DEF Left

\* And of what is left after some more.
RestFrom(f, o, s) == s = SubSeq(f, o + 1, Len(f))

LEMMA RestOfRest ==
  ASSUME NEW f \in Seq(Nat), NEW o \in Nat, NEW l \in Nat, o + l <= Len(f),
         NEW s, RestFrom(f, o, s), NEW a, RestFrom(s, l, a)
  PROVE  RestFrom(f, o + l, a)
<1>1. Left(f, o, s)
  <2>1. o <= Len(f)
    OBVIOUS
  <2> QED
    BY <2>1, Rest DEF RestFrom
<1>2. Left(s, l, a)
  <2>1. s \in Seq(Nat) /\ l <= Len(s)
    BY <1>1 DEF Left
  <2> QED
    BY <2>1, Rest DEF RestFrom
<1>3. PICK q \in Nat : q = o + l
  OBVIOUS
<1>4. PICK b : b = SubSeq(f, q + 1, Len(f))
  OBVIOUS
<1>5. Left(f, q, b)
  <2>1. q <= Len(f)
    BY <1>3
  <2> QED
    BY <1>4, <2>1, Rest
<1>6. Len(a) = Len(b)
  <2>1. Len(s) = Len(f) - o /\ Len(a) = Len(s) - l /\ Len(b) = Len(f) - q
    BY <1>1, <1>2, <1>5, Zenon DEF Left
  <2>2. \A x \in Nat, y \in Nat, z \in Nat : (x - y) - z = x - (y + z)
    OBVIOUS
  <2>3. Len(f) \in Nat
    OBVIOUS
  <2>4. (Len(f) - o) - l = Len(f) - (o + l)
    BY <2>2, <2>3, Zenon
  <2> QED
    BY <1>3, <2>1, <2>4, Zenon
<1>7. ASSUME NEW j \in 1 .. Len(a) PROVE a[j] = b[j]
  <2>1. l + j \in 1 .. Len(s) /\ o + (l + j) = q + j
    BY <1>1, <1>2, <1>3 DEF Left
  <2>2. a[j] = f[o + (l + j)]
    BY <1>1, <1>2, <2>1 DEF Left
  <2>3. b[j] = f[q + j]
    BY <1>5, <1>6 DEF Left
  <2> QED
    BY <2>1, <2>2, <2>3
<1>8. a = b
  BY <1>2, <1>5, <1>6, <1>7, SeqEqual DEF Left
<1> QED
  BY <1>3, <1>4, <1>8, Zenon DEF RestFrom

\* When all are read nothing is left.
LEMMA AllRead ==
  ASSUME NEW r, IsResponse(r), NEW pk, NEW st, NEW off, NEW n \in Nat, n = Len(Payloads(r)),
         AtPacket(r, pk, st, off, n)
  PROVE  pk = Payloads(r) /\ st = <<>>
<1>1. PICK P \in Seq(Seq(Nat)) : P = Payloads(r)
  BY WrapsType
<1>2. PICK flat \in Seq(Nat) : flat = BuildAjpResponse(r)
  BY WrapsType, FlattenPlaces, Zenon
<1>3. /\ off[n] = Len(flat) /\ pk = SubSeq(P, 1, n) /\ n = Len(P)
      /\ st = SubSeq(flat, off[n] + 1, Len(flat))
  BY <1>1, <1>2, Zenon DEF AtPacket, Places
<1>4. pk = P
  BY <1>3
<1>5. st = <<>>
  BY <1>3
<1> QED
  BY <1>1, <1>4, <1>5

\* At a packet that was not read, the stream begins with it.
LEMMA PacketIsNext ==
  ASSUME NEW r, IsResponse(r), Fits(r), NEW pk, NEW st, NEW off,
         NEW n \in Nat, n = Len(Payloads(r)), NEW k \in 0 .. n, k < n,
         AtPacket(r, pk, st, off, k)
  PROVE  /\ ReadLength(st, 3) = Len(Payloads(r)[k + 1])
         /\ SubSeq(st, 5, 4 + ReadLength(st, 3)) = Payloads(r)[k + 1]
         /\ AtPacket(r, Append(pk, SubSeq(st, 5, 4 + ReadLength(st, 3))),
                     SubSeq(st, 5 + ReadLength(st, 3), Len(st)), off, k + 1)
<1>1. PICK P \in Seq(Seq(Nat)) : P = Payloads(r)
  BY WrapsType
<1>2. PICK flat \in Seq(Nat) : flat = BuildAjpResponse(r)
  BY WrapsType, FlattenPlaces, Zenon
<1>3. PICK m \in 1 .. n : m = k + 1
  OBVIOUS
<1>4. PICK p \in Seq(Nat) : p = P[m]
  BY <1>1, <1>3
<1>5. PICK l \in Nat : l = Len(p) /\ l < LenMod
  <2>1. DOMAIN Payloads(r) = 1 .. n
    BY <1>1, LenProperties, Zenon
  <2>2. Len(p) < LenMod
    BY <1>1, <1>3, <1>4, <2>1, Zenon DEF Fits
  <2> QED
    BY <2>2
<1>6. PICK w \in Seq(Nat) : w = Wraps(r)[m] /\ w = WrapPacket(p)
  <2>1. Wraps(r)[m] = WrapPacket(P[m])
    BY <1>1, <1>3, WrapsType, Zenon
  <2>2. Wraps(r)[m] \in Seq(Nat)
    BY <1>3, WrapsType
  <2> QED
    BY <1>4, <2>1, <2>2
<1>7. Places(Wraps(r), n, flat, off)
  BY <1>2, Zenon DEF AtPacket
<1>8. PICK o \in Nat : o = off[k]
  BY <1>7 DEF Places
<1>9. PICK o2 \in Nat : o2 = off[m]
  <2>1. off \in [0 .. n -> Nat]
    BY <1>7, Zenon DEF Places
  <2>2. m \in 0 .. n
    BY <1>3
  <2> QED
    BY <2>1, <2>2
<1>10. o2 = o + Len(w) /\ Found(flat, o + 1, w)
  <2>1. off[m] = off[m - 1] + Len(Wraps(r)[m]) /\ Found(flat, off[m - 1] + 1, Wraps(r)[m])
    BY <1>3, <1>7, Zenon DEF Places
  <2>2. m - 1 = k
    BY <1>3
  <2> QED
    BY <1>6, <1>8, <1>9, <2>1, <2>2
<1>11. PICK h \in Seq(Nat) : h = <<65, 66>> /\ Len(h) = 2
  <2>1. <<65, 66>> \in Seq(Nat) /\ Len(<<65, 66>>) = 2
    OBVIOUS
  <2> QED
    BY <2>1, Zenon
<1>12. PICK u \in Seq(Nat) : u = Uint16(l) /\ Len(u) = 2
  BY <1>4, WrittenTypes
<1>13. w = (h \o u) \o p
  BY <1>5, <1>6, <1>11, <1>12, Zenon DEF WrapPacket
<1>14. PICK hu \in Seq(Nat) : hu = h \o u /\ Len(hu) = 4
  <2>1. Len(h \o u) = Len(h) + Len(u) /\ h \o u \in Seq(Nat)
    OBVIOUS
  <2>2. Len(h \o u) = 4
    BY <1>11, <1>12, <2>1
  <2> QED
    BY <2>1, <2>2, Zenon
<1>15. Len(w) = 4 + l
  BY <1>5, <1>13, <1>14
<1>16. st = SubSeq(flat, o + 1, Len(flat)) /\ pk = SubSeq(P, 1, k)
  BY <1>1, <1>2, <1>8, Zenon DEF AtPacket
<1>17. /\ st \in Seq(Nat) /\ Len(st) = Len(flat) - o /\ o + 4 + l <= Len(flat)
       /\ \A j \in 1 .. Len(st) : st[j] = flat[o + j]
  <2>1. o + 4 + l <= Len(flat)
    BY <1>10, <1>15 DEF Found
  <2>2. o <= Len(flat)
    BY <2>1
  <2>3. st = SubSeq(flat, o + 1, Len(flat))
    BY <1>16
  <2>4. Left(flat, o, st)
    BY <2>2, <2>3, Rest
  <2> QED
    BY <2>1, <2>4 DEF Left
<1>18. Found(st, 1, w)
  <2>1. \A j \in 1 .. Len(w) : flat[o + j] = w[j]
    BY <1>10 DEF Found
  <2>2. 1 - 1 + Len(w) <= Len(st) /\ \A j \in 1 .. Len(w) : j \in 1 .. Len(st) /\ 1 - 1 + j = j
    BY <1>15, <1>17
  <2>3. \A j \in 1 .. Len(w) : st[1 - 1 + j] = w[j]
    BY <1>17, <2>1, <2>2
  <2> QED
    BY <2>2, <2>3 DEF Found
<1>19. Found(st, 1, hu) /\ Found(st, 5, p)
  <2>1. 1 \in Nat /\ Found(st, 1, hu \o p)
    BY <1>13, <1>14, <1>18
  <2>2. Found(st, 1, hu) /\ Found(st, 1 + Len(hu), p)
    BY <1>17, <2>1, FoundParts, Zenon
  <2> QED
    BY <1>14, <2>2
<1>20. Found(st, 3, u)
  <2>1. 1 \in Nat /\ Found(st, 1, h \o u)
    BY <1>14, <1>19
  <2>2. Found(st, 1 + Len(h), u)
    BY <1>17, <2>1, FoundParts, Zenon
  <2> QED
    BY <1>11, <2>2
<1>21. ReadLength(st, 3) = l
  <2>1. 3 \in Nat /\ 3 > 0 /\ Found(st, 3, Uint16(l))
    BY <1>12, <1>20
  <2>2. st \in Seq(Nat) /\ l < LenMod
    BY <1>5, <1>17
  <2> QED
    BY <2>1, <2>2, NumberIsRead, Zenon
<1>22. SubSeq(st, 5, 4 + l) = p
  <2>1. 5 \in Nat /\ 5 > 0
    OBVIOUS
  <2>2. SubSeq(st, 5, 5 - 1 + Len(p)) = p
    BY <1>17, <1>19, <2>1, FoundIsCut, Zenon
  <2>3. 5 - 1 + Len(p) = 4 + l
    BY <1>5
  <2> QED
    BY <2>2, <2>3
<1>23. Append(pk, p) = SubSeq(P, 1, m)
  BY <1>1, <1>3, <1>4, <1>16
<1>24. SubSeq(st, 5 + l, Len(st)) = SubSeq(flat, o2 + 1, Len(flat))
  <2>1. PICK d \in Nat : d = 4 + l /\ d + 1 = 5 + l
    OBVIOUS
  <2>2. o + d <= Len(flat) /\ o + d + 1 = o2 + 1
    BY <1>10, <1>15, <1>17, <2>1
  <2>3. PICK a : a = SubSeq(st, d + 1, Len(st))
    OBVIOUS
  <2>4. RestFrom(flat, o, st) /\ RestFrom(st, d, a)
    BY <1>16, <2>3, Zenon DEF RestFrom
  <2>5. RestFrom(flat, o + d, a)
    BY <2>2, <2>4, RestOfRest, Zenon
  <2>6. a = SubSeq(flat, o + d + 1, Len(flat))
    BY <2>5, Zenon DEF RestFrom
  <2> QED
    BY <2>1, <2>2, <2>3, <2>6
<1>25. AtPacket(r, Append(pk, p), SubSeq(st, 5 + l, Len(st)), off, m)
  BY <1>1, <1>2, <1>7, <1>9, <1>23, <1>24, Zenon DEF AtPacket
<1> QED
  BY <1>1, <1>3, <1>4, <1>5, <1>21, <1>22, <1>25

\* While a message is read, a packet can be there only if one was not read.
LEMMA NotAllRead ==
  ASSUME NEW r, IsResponse(r), NEW pk, NEW st, Reading(r, pk, st), Len(st) >= 4
  PROVE  \E off : \E k \in 0 .. Len(Payloads(r)) :
           AtPacket(r, pk, st, off, k) /\ k < Len(Payloads(r))
<1>1. st # <<>>
  <2>1. Len(<<>>) = 0
    OBVIOUS
  <2> QED
    BY <2>1
<1>2. PICK off : \E k \in 0 .. Len(Payloads(r)) : AtPacket(r, pk, st, off, k)
  BY <1>1, Zenon DEF Reading
<1>3. PICK k \in 0 .. Len(Payloads(r)) : AtPacket(r, pk, st, off, k)
  BY <1>2
<1>4. PICK n \in Nat : n = Len(Payloads(r))
  BY WrapsType
<1>5. k # n
  BY <1>1, <1>3, <1>4, AllRead, Zenon
<1>6. k < n
  BY <1>4, <1>5
<1> QED
  BY <1>3, <1>4, <1>6, Zenon

LEMMA NoResponseIs == IsResponse(NoResponse)
<1>1. \A S : <<>> \in Seq(S)
  OBVIOUS
<1>2. NoResponse \in [cpong : BOOLEAN, status : Nat, msg : Seq(Byte),
             headers : Seq([code : 0 .. 11, name : Seq(Byte), value : Seq(Byte)]),
             chunks : Seq(Seq(Byte)), reuse : BOOLEAN]
  <2>1. <<>> \in Seq(Byte) /\ <<>> \in Seq(Seq(Byte))
        /\ <<>> \in Seq([code : 0 .. 11, name : Seq(Byte), value : Seq(Byte)])
    BY <1>1, Zenon
  <2>2. 0 \in Nat /\ FALSE \in BOOLEAN
    OBVIOUS
  <2> DEFINE H == Seq([code : 0 .. 11, name : Seq(Byte), value : Seq(Byte)])
  <2>3. <<>> \in H
    BY <2>1
  <2> HIDE DEF H
  <2>4. NoResponse \in [cpong : BOOLEAN, status : Nat, msg : Seq(Byte), headers : H,
                       chunks : Seq(Seq(Byte)), reuse : BOOLEAN]
    BY <2>1, <2>2, <2>3 DEF NoResponse
  <2> QED
    BY <2>4 DEF H
<1>3. NoResponse.status < LenMod
  BY LenModAssumption DEF NoResponse
<1>4. DOMAIN NoResponse.headers = {}
  BY DEF NoResponse
<1> QED
  BY <1>2, <1>3, <1>4 DEF IsResponse

LEMMA AjpInvInit == AjpInit => AjpInv
<1> SUFFICES ASSUME AjpInit PROVE AjpInv
  OBVIOUS
<1>1. packets = <<>> /\ stream = <<>> /\ response = NoResponse
  BY DEF AjpInit
<1> QED
  BY <1>1, NoResponseIs, Zenon DEF AjpInv, Reading

LEMMA AjpInvStep == AjpInv /\ [AjpNext]_ajpVars => AjpInv'
<1> SUFFICES ASSUME AjpInv, [AjpNext]_ajpVars PROVE AjpInv'
  OBVIOUS
<1>1. CASE Respond
  <2>1. IsResponse(response')
    BY <1>1, ResponsesAssumption DEF Respond
  <2>2. ASSUME Fits(response') PROVE Reading(response', packets', stream')
    <3>1. PICK r : r = response'
      BY Zenon
    <3>2. PICK P \in Seq(Seq(Nat)) : P = Payloads(r)
      BY <2>1, <3>1, WrapsType
    <3>3. PICK n \in Nat : n = Len(P)
      OBVIOUS
    <3>4. PICK ws \in Seq(Seq(Nat)) : ws = Wraps(r) /\ Len(ws) = n
      BY <2>1, <3>1, <3>2, <3>3, WrapsType
    <3>5. PICK flat \in Seq(Nat) : flat = BuildAjpResponse(r) /\ flat = FlattenSeq(ws)
      BY <2>1, <3>1, <3>4, WrapsType, FlattenPlaces
    <3>6. PICK off : Places(ws, n, flat, off)
      BY <3>4, <3>5, FlattenPlaces
    <3>7. off[0] = 0
      BY <3>6 DEF Places
    <3>8. <<>> = SubSeq(P, 1, 0) /\ flat = SubSeq(flat, off[0] + 1, Len(flat))
      BY <3>7
    <3>9. packets' = <<>> /\ stream' = flat
      BY <1>1, <3>1, <3>5 DEF Respond
    <3>10. AtPacket(r, packets', stream', off, 0)
      BY <3>2, <3>3, <3>4, <3>5, <3>6, <3>8, <3>9, Zenon DEF AtPacket
    <3>11. 0 \in 0 .. Len(Payloads(r))
      BY <3>2, <3>3
    <3> QED
      BY <3>1, <3>10, <3>11, Zenon DEF Reading
  <2> QED
    BY <2>1, <2>2, Zenon DEF AjpInv
<1>2. CASE ReadPacket
  <2>1. response' = response /\ IsResponse(response)
    BY <1>2, Zenon DEF ReadPacket, AjpInv
  <2>2. ASSUME Fits(response) PROVE Reading(response, packets', stream')
    <3>1. Reading(response, packets, stream) /\ Len(stream) >= 4
      BY <1>2, <2>2, Zenon DEF ReadPacket, HasPacket, AjpInv
    <3>2. PICK off : \E k \in 0 .. Len(Payloads(response)) :
            AtPacket(response, packets, stream, off, k) /\ k < Len(Payloads(response))
      BY <2>1, <3>1, NotAllRead, Zenon
    <3>3. PICK k \in 0 .. Len(Payloads(response)) :
            AtPacket(response, packets, stream, off, k) /\ k < Len(Payloads(response))
      BY <3>2, Zenon
    <3>4. PICK n \in Nat : n = Len(Payloads(response))
      BY <2>1, WrapsType
    <3>5. k \in 0 .. n /\ k < n /\ k + 1 \in 0 .. n
      BY <3>3, <3>4
    <3>6. AtPacket(response, Append(packets, SubSeq(stream, 5, 4 + ReadLength(stream, 3))),
                   SubSeq(stream, 5 + ReadLength(stream, 3), Len(stream)), off, k + 1)
      BY <2>1, <2>2, <3>3, <3>4, <3>5, PacketIsNext, Zenon
    <3>7. AtPacket(response, packets', stream', off, k + 1)
      BY <1>2, <3>6, Zenon DEF ReadPacket
    <3> QED
      BY <3>4, <3>5, <3>7, Zenon DEF Reading
  <2> QED
    BY <2>1, <2>2, Zenon DEF AjpInv
<1>3. CASE CloseConnection
  <2>1. packets' = <<>> /\ stream' = <<>> /\ response' = NoResponse
    BY <1>3 DEF CloseConnection
  <2> QED
    BY <2>1, NoResponseIs, Zenon DEF AjpInv, Reading
<1>4. CASE UNCHANGED ajpVars
  <2>1. response' = response /\ packets' = packets /\ stream' = stream
    BY <1>4, Zenon DEF ajpVars
  <2> QED
    BY <2>1, Zenon DEF AjpInv
<1> QED
  BY <1>1, <1>2, <1>3, <1>4, Zenon DEF AjpNext

\* The last packet read, the message is there, and nothing more.
LEMMA EndIsAll ==
  ASSUME AjpInv, Fits(response), packets # <<>>, packets[Len(packets)][1] = 5
  PROVE  stream = <<>> /\ packets = Payloads(response)
<1>1. IsResponse(response)
  BY Zenon DEF AjpInv
<1>2. PICK off : \E k \in 0 .. Len(Payloads(response)) : AtPacket(response, packets, stream, off, k)
  BY Zenon DEF AjpInv, Reading
<1>3. PICK k \in 0 .. Len(Payloads(response)) : AtPacket(response, packets, stream, off, k)
  BY <1>2, Zenon
<1>4. PICK P \in Seq(Seq(Nat)) : P = Payloads(response)
  BY <1>1, WrapsType
<1>5. PICK c \in {0, 1} : c = Before(response)
  BY DEF Before
<1>6. Chunks(response) \in Seq(Seq(Nat))
  BY <1>1, ResponseParts, Zenon
<1>7. PICK n \in Nat : n = Len(Chunks(response))
  BY <1>6, LenProperties, Zenon
<1>8. Begins(response, P, c, n)
  BY <1>1, <1>4, <1>5, <1>7, FirstBytes, Zenon
<1>9. PICK l \in Nat : l = Len(P) /\ l = c + n + 2
  BY <1>1, <1>4, <1>5, <1>7, PayloadsAreInOrder DEF PayloadsInOrder
<1>10. k \in 0 .. l /\ packets = SubSeq(P, 1, k)
  BY <1>3, <1>4, <1>9, Zenon DEF AtPacket
<1>11. k > 0 /\ Len(packets) = k /\ packets[k] = P[k]
  BY <1>9, <1>10
<1>12. P[k][1] = 5
  BY <1>11
<1>13. k = l
  <2>1. CASE k = 1 /\ c = 1
    BY <1>8, <1>12, <2>1 DEF Begins
  <2>2. CASE k = c + 1
    BY <1>8, <1>12, <2>2 DEF Begins
  <2>3. CASE k > c + 1 /\ k < l
    <3>1. PICK j \in 1 .. n : k = c + 1 + j
      <4>1. k - (c + 1) \in 1 .. n /\ k = c + 1 + (k - (c + 1))
        BY <1>9, <1>10, <2>3
      <4> QED
        BY <4>1, Zenon
    <3>2. P[c + 1 + j][1] = 3
      BY <1>8, Zenon DEF Begins
    <3> QED
      BY <1>12, <3>1, <3>2
  <2> QED
    BY <1>9, <1>10, <1>11, <2>1, <2>2, <2>3
<1> QED
  BY <1>1, <1>3, <1>4, <1>9, <1>13, AllRead, Zenon

\* When the last packet of a response whose lengths fit is read, mod_proxy_ajp has the
\* message, in order and without its empty chunks, and nothing is left in the stream
\* (BuildAjpResponse), for every set of response messages.
THEOREM ResponsesAreReceived == AjpSpec => []ResponseIsReceived
<1>1. AjpInv => ResponseIsReceived
  <2> SUFFICES ASSUME AjpInv, Fits(response), packets # <<>>, packets[Len(packets)][1] = 5
               PROVE  /\ stream = <<>> /\ InOrder
                      /\ Received = [response EXCEPT !.chunks = Chunks(response)]
    BY Zenon DEF ResponseIsReceived
  <2>1. stream = <<>> /\ packets = Payloads(response)
    BY EndIsAll, Zenon
  <2>2. IsResponse(response)
    BY Zenon DEF AjpInv
  <2>3. InOrder /\ Received = [response EXCEPT !.chunks = Chunks(response)]
    BY <2>1, <2>2, MessageIsRead, Zenon
  <2> QED
    BY <2>1, <2>3, Zenon
<1> QED
  BY <1>1, AjpInvInit, AjpInvStep, PTL DEF AjpSpec

-----------------------------------------------------------------------------
(***************************************************************************)
(* ConfLines: the lines the parser of httpd is given make the file.        *)
(***************************************************************************)
Read == [line : Seq(Range(file)), size : Nat]

ConfTypeOK ==
    /\ file \in Seq(Range(file))
    /\ pos \in 0 .. Len(file)
    /\ reads \in Seq(Read)

ConfInv == ConfTypeOK /\ LinesAreTheFile

\* What a call copies: it makes progress, fits with the NUL, and has no newline
\* before its last character.
LEMMA CopiedFits ==
  ASSUME ConfTypeOK, pos < Len(file), NEW n \in Nat, n > 1
  PROVE  /\ Copied(n) \in pos + 1 .. Len(file)
         /\ Copied(n) - pos <= n - 1
         /\ \A i \in pos + 1 .. Copied(n) - 1 : file[i] # Newline
<1> DEFINE room == {i \in pos + 1 .. Len(file) : i - pos <= n - 1}
           ends == {i \in room : file[i] = Newline}
           last == IF Len(file) - pos <= n - 1 THEN Len(file) ELSE pos + n - 1
<1>1. pos \in Nat /\ Len(file) \in Nat /\ room \subseteq Nat /\ ends \subseteq Nat
  BY DEF ConfTypeOK
<1>2. CASE ends # {}
  <2>1. \E i \in ends : \A j \in ends : i <= j
    BY <1>1, <1>2, First, Zenon
  <2>2. Copied(n) = CHOOSE i \in ends : \A j \in ends : i <= j
    BY <1>2 DEF Copied
  <2>3. Copied(n) \in ends /\ \A j \in ends : Copied(n) <= j
    BY <2>1, <2>2, Zenon
  <2> HIDE DEF ends
  <2>4. Copied(n) \in room /\ \A j \in room : file[j] = Newline => Copied(n) <= j
    BY <2>3 DEF ends
  <2> QED
    BY <1>1, <2>4
<1>3. CASE ends = {}
  <2>1. last \in room /\ \A j \in room : j <= last
    BY <1>1
  <2>2. Copied(n) = CHOOSE i \in room : \A j \in room : j <= i
    BY <1>3 DEF Copied
  <2> HIDE DEF last
  <2>3. Copied(n) \in room
    BY <2>1, <2>2, Zenon
  <2>4. \A i \in room : file[i] # Newline
    BY <1>3
  <2> QED
    BY <1>1, <2>3, <2>4
<1> QED
  BY <1>2, <1>3

\* Only what is read, and what of, is in the invariant.
LEMMA ConfQuiet ==
  ASSUME ConfInv, UNCHANGED <<file, pos, reads>>
  PROVE  ConfInv'
BY DEF ConfInv, ConfTypeOK, LinesAreTheFile, Read

\* At the start of a file nothing was read.
LEMMA NothingRead ==
  ASSUME file' \in Seq(Range(file')), pos' = 0, reads' = <<>>
  PROVE  ConfInv'
<1>1. Len(file') \in Nat /\ 0 \in 0 .. Len(file') /\ <<>> \in Seq(Read')
  OBVIOUS
<1>2. ConfTypeOK'
  BY <1>1 DEF ConfTypeOK
<1>3. DOMAIN <<>> = {}
  OBVIOUS
<1>4. FlattenSeq([i \in DOMAIN <<>> |-> reads'[i].line]) = <<>>
  <2>1. [i \in DOMAIN <<>> |-> reads'[i].line] = <<>>
    OBVIOUS
  <2> QED
    BY <2>1 DEF FlattenSeq
<1>5. SubSeq(file', 1, 0) = <<>>
  BY SubSeqEmpty
<1> QED
  BY <1>2, <1>3, <1>4, <1>5 DEF ConfInv, LinesAreTheFile

\* A line that is read goes on where the lines before it ended.
LEMMA GetStrInv ==
  ASSUME ConfInv, NEW n \in Sizes, GetStr(n)
  PROVE  ConfInv'
<1> DEFINE c == Copied(n)
           text == SubSeq(file, pos + 1, c)
           lines == [i \in DOMAIN reads |-> reads[i].line]
           C == Range(file)
<1>1. /\ n \in Nat /\ n > 1 /\ pos < Len(file) /\ file' = file /\ pos' = c
      /\ reads' = Append(reads, [line |-> text, size |-> n])
  BY SizesAssumption DEF GetStr
<1>2. /\ file \in Seq(C) /\ pos \in 0 .. Len(file) /\ Len(file) \in Nat
      /\ reads \in Seq(Read)
  BY DEF ConfInv, ConfTypeOK
<1>3. /\ c \in pos + 1 .. Len(file) /\ c - pos <= n - 1
      /\ \A i \in pos + 1 .. c - 1 : file[i] # Newline
  BY <1>1, CopiedFits DEF ConfInv
<1> HIDE DEF c
<1>4. /\ text \in Seq(C) /\ Len(text) = c - pos
      /\ \A i \in 1 .. c - pos : text[i] = file[pos + i]
  <2>1. pos + 1 \in Int /\ c \in Int /\ \A i \in pos + 1 .. c : file[i] \in C
    BY <1>2, <1>3
  <2>2. /\ text \in Seq(C) /\ Len(text) = IF pos + 1 <= c THEN c - (pos + 1) + 1 ELSE 0
        /\ \A i \in 1 .. c - (pos + 1) + 1 : text[i] = file[pos + 1 + i - 1]
    BY <2>1, SubSeqProperties
  <2> HIDE DEF text
  <2> QED
    BY <1>2, <1>3, <2>2
<1> HIDE DEF text, C
<1>5. [line |-> text, size |-> n] \in Read
  BY <1>1, <1>4 DEF Read, C
<1>6. /\ reads' \in Seq(Read) /\ Len(reads') = Len(reads) + 1
      /\ \A i \in 1 .. Len(reads) : reads'[i] = reads[i]
      /\ reads'[Len(reads) + 1] = [line |-> text, size |-> n]
      /\ DOMAIN reads = 1 .. Len(reads) /\ DOMAIN reads' = 1 .. Len(reads) + 1
      /\ Len(reads) \in Nat
  <2> HIDE DEF Read
  <2> QED
    BY <1>1, <1>2, <1>5, AppendProperties, LenProperties
<1>7. ConfTypeOK'
  <2>1. Read' = Read
    BY <1>1 DEF Read
  <2>2. pos' \in 0 .. Len(file)
    BY <1>1, <1>2, <1>3
  <2> QED
    BY <1>1, <1>2, <1>6, <2>1, <2>2, Zenon DEF ConfTypeOK, C
<1>8. lines \in Seq(Seq(C))
  <2>1. \A i \in 1 .. Len(reads) : reads[i].line \in Seq(C)
    <3>1. \A i \in 1 .. Len(reads) : reads[i] \in Read
      BY <1>2
    <3> QED
      BY <3>1 DEF Read, C
  <2>2. lines \in [1 .. Len(reads) -> Seq(C)]
    BY <1>6, <2>1
  <2> HIDE DEF lines
  <2> QED
    BY <1>6, <2>2, SMTT(60)
<1>9. [i \in DOMAIN reads' |-> reads'[i].line] = Append(lines, text)
  <2>1. Append(lines, text) = [i \in 1 .. Len(reads) + 1 |->
                                 IF i = Len(reads) + 1 THEN text ELSE lines[i]]
    BY <1>4, <1>6, <1>8
  <2> QED
    BY <1>6, <2>1
<1>10. FlattenSeq(lines) = SubSeq(file, 1, pos)
  BY DEF ConfInv, LinesAreTheFile
<1> HIDE DEF lines
<1>11. FlattenSeq(Append(lines, text)) = SubSeq(file, 1, pos) \o text
  BY <1>4, <1>8, <1>10, FlattenAppend
<1>12. SubSeq(file, 1, pos) \o SubSeq(file, pos + 1, c) = SubSeq(file, 1, c)
  <2>1. 1 \in 1 .. Len(file) + 1 /\ pos \in 1 - 1 .. Len(file) /\ c \in pos .. Len(file)
    BY <1>2, <1>3
  <2> QED
    BY <1>2, <2>1, ConcatAdjacentSubSeq, Zenon
<1>13. FlattenSeq([i \in DOMAIN reads' |-> reads'[i].line]) = SubSeq(file', 1, pos')
  BY <1>1, <1>9, <1>11, <1>12, Zenon DEF text
<1>14. ASSUME NEW i \in 1 .. Len(reads) + 1
       PROVE  /\ Len(reads'[i].line) \in 1 .. reads'[i].size - 1
              /\ \A j \in 1 .. Len(reads'[i].line) - 1 : reads'[i].line[j] # Newline
  <2>1. CASE i \in 1 .. Len(reads)
    BY <1>6, <2>1 DEF ConfInv, LinesAreTheFile
  <2>2. CASE i = Len(reads) + 1
    <3>1. Len(text) \in 1 .. n - 1
      BY <1>1, <1>2, <1>3, <1>4
    <3>2. \A j \in 1 .. Len(text) - 1 : text[j] # Newline
      BY <1>2, <1>3, <1>4
    <3> QED
      BY <1>6, <2>2, <3>1, <3>2
  <2> QED
    BY <1>6, <2>1, <2>2
<1> QED
  BY <1>6, <1>7, <1>13, <1>14 DEF ConfInv, LinesAreTheFile

\* The lines the parser is given are the file as far as it was read, for any file and
\* any sizes it asks with (mod_fuzzy_htaccess.c:59-77).
THEOREM LinesMakeTheFile == ConfSpec => []LinesAreTheFile
<1>1. ConfInit => ConfInv
  <2> SUFFICES ASSUME ConfInit PROVE ConfInv
    OBVIOUS
  <2>1. file = <<>> /\ pos = 0 /\ reads = <<>>
    BY DEF ConfInit
  <2>2. ConfTypeOK
    BY <2>1 DEF ConfTypeOK
  <2>3. FlattenSeq([i \in DOMAIN reads |-> reads[i].line]) = <<>>
    <3>1. [i \in DOMAIN reads |-> reads[i].line] = <<>>
      BY <2>1
    <3> QED
      BY <3>1 DEF FlattenSeq
  <2>4. SubSeq(file, 1, pos) = <<>>
    BY <2>1, SubSeqEmpty
  <2>5. DOMAIN reads = {}
    BY <2>1
  <2> QED
    BY <2>2, <2>3, <2>4, <2>5 DEF ConfInv, LinesAreTheFile
<1>2. ConfInv /\ [ConfNext]_confVars => ConfInv'
  <2> SUFFICES ASSUME ConfInv, [ConfNext]_confVars PROVE ConfInv'
    OBVIOUS
  <2>1. CASE BeginConf
    BY <2>1, FilesAssumption, NothingRead DEF BeginConf
  <2>2. CASE \E n \in Sizes : GetStr(n)
    BY <2>2, GetStrInv
  <2>3. CASE \E tree \in BOOLEAN : EndOfConf(tree)
    BY <2>3, ConfQuiet DEF EndOfConf
  <2>4. CASE EndOfWalk \/ Exit \/ ReturnFromConf
    BY <2>4, ConfQuiet DEF EndOfWalk, Exit, ReturnFromConf
  <2>5. CASE UNCHANGED confVars
    BY <2>5, ConfQuiet DEF confVars
  <2> QED
    BY <2>1, <2>2, <2>3, <2>4, <2>5 DEF ConfNext
<1>3. ConfInv => LinesAreTheFile
  BY DEF ConfInv
<1> QED
  BY <1>1, <1>2, <1>3, PTL DEF ConfSpec

-----------------------------------------------------------------------------
(***************************************************************************)
(* CallGraph: the functions that can be reached.                           *)
(***************************************************************************)
Further(F) == F \union UNION {Callees(graph, h) : h \in F}

\* The function in the definition of Shallow: what is up to d calls away.
IsShallow(f, n, s) == s = [d \in 0 .. n |-> IF d = 0 THEN {f} ELSE Further(s[d - 1])]

\* There is such a function.
LEMMA ShallowExists ==
  ASSUME NEW f, NEW n \in Nat
  PROVE  \E s : IsShallow(f, n, s)
<1> DEFINE Bad == {k \in Nat : ~\E s : IsShallow(f, k, s)}
<1>1. SUFFICES ASSUME Bad # {} PROVE FALSE
  OBVIOUS
<1>2. PICK k \in Bad : \A j \in Bad : k <= j
  BY <1>1, First
<1>3. k # 0
  <2> DEFINE h == [d \in 0 .. 0 |-> {f}]
  <2>1. h = [d \in 0 .. 0 |-> IF d = 0 THEN {f} ELSE Further(h[d - 1])]
    OBVIOUS
  <2> HIDE DEF h
  <2>2. IsShallow(f, 0, h)
    BY <2>1, Zenon DEF IsShallow
  <2> QED
    BY <1>2, <2>2
<1>4. PICK s : IsShallow(f, k - 1, s)
  BY <1>2, <1>3
<1> DEFINE h == [d \in 0 .. k |-> IF d = k THEN Further(s[k - 1]) ELSE s[d]]
<1>5. k \in Nat /\ k > 0
  BY <1>2, <1>3
<1>6. \A d \in 0 .. k : h[d] = IF d = 0 THEN {f} ELSE Further(h[d - 1])
  <2> SUFFICES ASSUME NEW d \in 0 .. k
               PROVE  h[d] = IF d = 0 THEN {f} ELSE Further(h[d - 1])
    OBVIOUS
  <2>1. CASE d = k
    BY <1>5, <2>1
  <2>2. CASE d # k
    <3> DEFINE r(t) == [e \in 0 .. k - 1 |-> IF e = 0 THEN {f} ELSE Further(t[e - 1])]
    <3>1. d \in 0 .. k - 1
      BY <1>5, <2>2
    <3>2. s = r(s)
      BY <1>4, Zenon DEF IsShallow
    <3>3. \A t : r(t)[d] = IF d = 0 THEN {f} ELSE Further(t[d - 1])
      BY <3>1
    <3> HIDE DEF r
    <3>4. s[d] = IF d = 0 THEN {f} ELSE Further(s[d - 1])
      BY <3>2, <3>3, Zenon
    <3>5. h[d] = s[d] /\ (d # 0 => h[d - 1] = s[d - 1])
      BY <1>5, <2>2, <3>1
    <3> QED
      BY <3>4, <3>5, Zenon
  <2> QED
    BY <2>1, <2>2
<1>7. h = [d \in 0 .. k |-> h[d]]
  OBVIOUS
<1> HIDE DEF h
<1>8. IsShallow(f, k, h)
  BY <1>6, <1>7, Zenon DEF IsShallow
<1> QED
  BY <1>2, <1>8

\* What it is at each place.
Levels(f, n, s) ==
    \A d \in 0 .. n : (d = 0 => s[d] = {f}) /\ (d # 0 => s[d] = Further(s[d - 1]))

LEMMA IsShallowStep ==
  ASSUME NEW f, NEW n \in Nat, NEW s, IsShallow(f, n, s)
  PROVE  Levels(f, n, s)
<1> DEFINE r(t) == [e \in 0 .. n |-> IF e = 0 THEN {f} ELSE Further(t[e - 1])]
<1>1. s = r(s)
  BY Zenon DEF IsShallow
<1>2. \A t : \A d \in 0 .. n :
         (d = 0 => r(t)[d] = {f}) /\ (d # 0 => r(t)[d] = Further(t[d - 1]))
  OBVIOUS
<1> HIDE DEF r
<1> QED
  BY <1>1, <1>2, Zenon DEF Levels

\* Shallow is that function at its last place.
LEMMA ShallowIsLast ==
  ASSUME NEW f, NEW n \in Nat
  PROVE  \E s : Levels(f, n, s) /\ Shallow(f, n) = s[n]
<1> DEFINE s == CHOOSE t : t = [d \in 0 .. n |-> IF d = 0 THEN {f}
                  ELSE t[d - 1] \union UNION {Callees(graph, h) : h \in t[d - 1]}]
<1>1. \E t : t = [d \in 0 .. n |-> IF d = 0 THEN {f}
                  ELSE t[d - 1] \union UNION {Callees(graph, h) : h \in t[d - 1]}]
  <2>1. \E t : IsShallow(f, n, t)
    BY ShallowExists
  <2> QED
    BY <2>1, Zenon DEF IsShallow, Further
<1>2. s = [d \in 0 .. n |-> IF d = 0 THEN {f}
                  ELSE s[d - 1] \union UNION {Callees(graph, h) : h \in s[d - 1]}]
  BY <1>1, Zenon
<1>3. Shallow(f, n) = s[n]
  BY Zenon DEF Shallow
<1>4. IsShallow(f, n, s)
  BY <1>2, Zenon DEF IsShallow, Further
<1> HIDE DEF s
<1> QED
  BY <1>3, <1>4, IsShallowStep

\* The functions one call further away.
LEMMA ShallowStep ==
  ASSUME NEW f
  PROVE  /\ Shallow(f, 0) = {f}
         /\ \A n \in Nat : Shallow(f, n + 1) = Further(Shallow(f, n))
<1>1. Shallow(f, 0) = {f}
  <2>1. PICK s : Levels(f, 0, s) /\ Shallow(f, 0) = s[0]
    BY ShallowIsLast
  <2> QED
    BY <2>1 DEF Levels
<1>2. ASSUME NEW n \in Nat, NEW m \in Nat, m = n + 1
      PROVE  Shallow(f, m) = Further(Shallow(f, n))
  <2>1. PICK s : Levels(f, n, s) /\ Shallow(f, n) = s[n]
    BY ShallowIsLast, Zenon
  <2>2. PICK t : Levels(f, m, t) /\ Shallow(f, m) = t[m]
    BY ShallowIsLast, Zenon
  <2> DEFINE Bad == {d \in 0 .. n : s[d] # t[d]}
  <2>3. Bad = {}
    <3>1. SUFFICES ASSUME Bad # {} PROVE FALSE
      OBVIOUS
    <3>2. Bad \subseteq Nat
      OBVIOUS
    <3>3. PICK d \in Bad : \A e \in Bad : d <= e
      BY <3>1, <3>2, First, Zenon
    <3>4. d \in 0 .. n /\ d \in 0 .. m
      BY <1>2, <3>3
    <3>5. (d = 0 => s[d] = {f}) /\ (d # 0 => s[d] = Further(s[d - 1]))
      BY <2>1, <3>4 DEF Levels
    <3>6. (d = 0 => t[d] = {f}) /\ (d # 0 => t[d] = Further(t[d - 1]))
      BY <2>2, <3>4 DEF Levels
    <3>7. d # 0 => s[d - 1] = t[d - 1]
      BY <3>3
    <3> QED
      BY <3>3, <3>5, <3>6, <3>7
  <2>4. n \in 0 .. n /\ m \in 0 .. m /\ m # 0 /\ m - 1 = n
    BY <1>2
  <2>5. s[n] = t[n]
    BY <2>3, <2>4
  <2>6. t[m] = Further(t[m - 1])
    BY <2>2, <2>4 DEF Levels
  <2> QED
    BY <2>1, <2>2, <2>4, <2>5, <2>6
<1>3. \A n \in Nat : n + 1 \in Nat
  OBVIOUS
<1> QED
  BY <1>1, <1>2, <1>3, Zenon

\* A set that holds a function and the callees of all it holds.
Closed(C) == \A h \in C : Callees(graph, h) \subseteq C

\* It holds all that can be reached.
LEMMA ClosedHoldsShallow ==
  ASSUME NEW C, Closed(C), NEW f \in C, NEW n \in Nat
  PROVE  Shallow(f, n) \subseteq C
<1> DEFINE Bad == {k \in Nat : ~(Shallow(f, k) \subseteq C)}
<1>1. SUFFICES ASSUME Bad # {} PROVE FALSE
  OBVIOUS
<1>2. PICK k \in Bad : \A j \in Bad : k <= j
  BY <1>1, First
<1>3. k # 0
  BY <1>2, ShallowStep
<1>4. k - 1 \in Nat /\ (k - 1) + 1 = k /\ Shallow(f, k - 1) \subseteq C
  BY <1>2, <1>3
<1>5. Shallow(f, k) = Further(Shallow(f, k - 1))
  BY <1>4, ShallowStep
<1>6. Further(Shallow(f, k - 1)) \subseteq C
  BY <1>4 DEF Further, Closed
<1> QED
  BY <1>2, <1>5, <1>6

\* What is so many calls away is also up to any more calls away.
LEMMA ShallowGrows ==
  ASSUME NEW f, NEW m \in Nat, NEW n \in Nat, m <= n
  PROVE  Shallow(f, m) \subseteq Shallow(f, n)
<1> DEFINE Bad == {k \in Nat : m <= k /\ ~(Shallow(f, m) \subseteq Shallow(f, k))}
<1>1. SUFFICES ASSUME Bad # {} PROVE FALSE
  OBVIOUS
<1>2. PICK k \in Bad : \A j \in Bad : k <= j
  BY <1>1, First
<1>3. k # m
  BY <1>2
<1>4. k - 1 \in Nat /\ (k - 1) + 1 = k /\ Shallow(f, m) \subseteq Shallow(f, k - 1)
  BY <1>2, <1>3
<1>5. Shallow(f, k) = Further(Shallow(f, k - 1))
  BY <1>4, ShallowStep
<1> QED
  BY <1>2, <1>4, <1>5 DEF Further

Reached(f) == UNION {Shallow(f, n) : n \in Nat}

LEMMA ReachedIsClosed ==
  ASSUME NEW f
  PROVE  f \in Reached(f) /\ Closed(Reached(f))
<1>1. f \in Reached(f)
  BY ShallowStep DEF Reached
<1>2. ASSUME NEW h \in Reached(f)
      PROVE  Callees(graph, h) \subseteq Reached(f)
  <2>1. PICK n \in Nat : h \in Shallow(f, n)
    BY DEF Reached
  <2>2. n + 1 \in Nat /\ Callees(graph, h) \subseteq Shallow(f, n + 1)
    BY <2>1, ShallowStep DEF Further
  <2> QED
    BY <2>2 DEF Reached
<1> QED
  BY <1>1, <1>2 DEF Closed

\* Of a finite graph the functions that can be reached are reached in as many calls
\* as it has functions: as long as a call leads further there is one more of them.
LEMMA ReachedIsReachable ==
  ASSUME IsCallGraph(graph), NEW f \in DOMAIN graph
  PROVE  Reached(f) = Reachable(f)
<1> DEFINE D == DOMAIN graph
           N == Cardinality(D)
<1>1. Closed(D)
  BY DEF IsCallGraph, Closed, Callees
<1>2. \A n \in Nat : Shallow(f, n) \subseteq D
  BY <1>1, ClosedHoldsShallow
<1>3. IsFiniteSet(D) /\ N \in Nat
  BY FS_CardinalityType DEF IsCallGraph
<1>4. \A n \in Nat : /\ IsFiniteSet(Shallow(f, n)) /\ Cardinality(Shallow(f, n)) \in Nat
                     /\ Cardinality(Shallow(f, n)) <= N
  <2> SUFFICES ASSUME NEW n \in Nat
               PROVE  /\ IsFiniteSet(Shallow(f, n)) /\ Cardinality(Shallow(f, n)) \in Nat
                      /\ Cardinality(Shallow(f, n)) <= N
    OBVIOUS
  <2>1. IsFiniteSet(Shallow(f, n)) /\ Cardinality(Shallow(f, n)) <= N
    BY <1>2, <1>3, FS_Subset
  <2> QED
    BY <2>1, FS_CardinalityType
<1> DEFINE Stops(n) == Shallow(f, n + 1) = Shallow(f, n)
           Bad == {n \in Nat : (\A m \in 0 .. n : ~Stops(m)) /\ Cardinality(Shallow(f, n)) <= n}
<1> HIDE DEF N
<1>5. Bad = {}
  <2>1. SUFFICES ASSUME Bad # {} PROVE FALSE
    OBVIOUS
  <2>2. PICK n \in Bad : \A m \in Bad : n <= m
    BY <2>1, First
  <2>3. n # 0
    <3>1. Shallow(f, 0) = {f} /\ Cardinality({f}) = 1
      BY ShallowStep, FS_Singleton
    <3> QED
      BY <2>2, <3>1
  <2>4. n - 1 \in Nat /\ (n - 1) + 1 = n /\ n - 1 \notin Bad
    BY <2>2, <2>3
  <2>5. (\A m \in 0 .. n - 1 : ~Stops(m)) /\ Cardinality(Shallow(f, n)) <= n
    BY <2>2
  <2>6. Cardinality(Shallow(f, n - 1)) > n - 1
    BY <1>4, <2>4, <2>5
  <2>7. Shallow(f, n - 1) \subseteq Shallow(f, n) /\ Shallow(f, n - 1) # Shallow(f, n)
    <3>1. ~Stops(n - 1)
      BY <2>4, <2>5
    <3> QED
      BY <2>4, <3>1, ShallowGrows
  <2>8. /\ Cardinality(Shallow(f, n - 1)) <= Cardinality(Shallow(f, n))
        /\ Cardinality(Shallow(f, n - 1)) # Cardinality(Shallow(f, n))
    BY <1>4, <2>2, <2>7, FS_Subset
  <2> QED
    BY <1>4, <2>2, <2>4, <2>5, <2>6, <2>8
<1>6. PICK m \in 0 .. N : Stops(m)
  BY <1>3, <1>4, <1>5
<1>7. m \in Nat /\ Closed(Shallow(f, m))
  <2>1. m \in Nat /\ Shallow(f, m) = Further(Shallow(f, m))
    <3>1. m \in Nat /\ Shallow(f, m + 1) = Shallow(f, m)
      BY <1>3, <1>6
    <3> QED
      BY <3>1, ShallowStep
  <2> QED
    BY <2>1 DEF Further, Closed
<1>8. f \in Shallow(f, m) /\ Shallow(f, m) \subseteq Shallow(f, N)
  <2>1. 0 <= m /\ m <= N /\ m \in Nat /\ 0 \in Nat
    BY <1>3, <1>6
  <2> QED
    BY <1>3, <2>1, ShallowGrows, ShallowStep
<1>9. \A n \in Nat : Shallow(f, n) \subseteq Shallow(f, N)
  BY <1>7, <1>8, ClosedHoldsShallow
<1> QED
  BY <1>3, <1>9 DEF Reached, Reachable, N

-----------------------------------------------------------------------------
(***************************************************************************)
(* CallGraph: the walk.                                                    *)
(***************************************************************************)
Frames == [function : DOMAIN graph, done : Nat]
AllEdges == UNION {Sites(f) : f \in DOMAIN graph}

WalkTypeOK ==
    /\ IsCallGraph(graph)
    /\ entries = <<>> => stack = <<>>
    /\ stack = <<>> => visited = {} /\ functions = {} /\ edges = <<>>
    /\ stack \in Seq(Frames)
    /\ visited \subseteq DOMAIN graph
    /\ edges \in Seq(AllEdges)

\* The stack is a path of calls: each function is on it once, and it is at the site
\* that calls the next.
StackIsPath ==
    /\ \A i \in 1 .. Len(stack) :
         stack[i].function \in visited /\ stack[i].done <= Len(graph[stack[i].function])
    /\ \A i, j \in 1 .. Len(stack) : stack[i].function = stack[j].function => i = j
    /\ \A i \in 1 .. Len(stack) - 1 :
         /\ stack[i].done < Len(graph[stack[i].function])
         /\ graph[stack[i].function][stack[i].done + 1].callee = stack[i + 1].function

\* The k-th site of f was dealt with.
Done(f, k) ==
    /\ f \in visited /\ k \in 1 .. Len(graph[f])
    /\ \A i \in 1 .. Len(stack) : stack[i].function = f => k <= stack[i].done

CalleesAreVisited ==
    \A f \in visited : \A k \in 1 .. Len(graph[f]) :
        Done(f, k) => graph[f][k].callee \in visited \union {NoFunction}

VisitedIsReached ==
    \A f \in DOMAIN graph : stack # <<>> /\ f = stack[1].function =>
        f \in visited /\ visited \subseteq functions /\ functions \subseteq Reached(f)

Times(e) == {i \in 1 .. Len(edges) : edges[i] = e}
DoneAs(e) == {k \in 1 .. Len(graph[e.caller]) : Done(e.caller, k) /\ Edge(e.caller, graph[e.caller][k]) = e}

\* Each edge was recorded as often as its sites were dealt with.
EdgesOfDone == \A e \in AllEdges : Cardinality(Times(e)) = Cardinality(DoneAs(e))

WalkInv == WalkTypeOK /\ StackIsPath /\ CalleesAreVisited /\ VisitedIsReached /\ EdgesOfDone

\* The sites of a call graph, and the edges that are recorded of them.
LEMMA GraphSites ==
  ASSUME IsCallGraph(graph)
  PROVE  /\ \A f \in DOMAIN graph :
              /\ Len(graph[f]) \in Nat /\ DOMAIN graph[f] = 1 .. Len(graph[f])
              /\ \A k \in 1 .. Len(graph[f]) :
                   /\ graph[f][k].callee \in DOMAIN graph \union {NoFunction}
                   /\ graph[f][k].callee # NoFunction =>
                        graph[f][k].callee \in Callees(graph, f)
                   /\ graph[f][k].callee # NoFunction /\ graph[f][k].line # NoLine =>
                        Edge(f, graph[f][k]) \in AllEdges
         /\ \A e \in AllEdges : e.caller \in DOMAIN graph /\ e.callee # NoFunction /\ e.line # NoLine
<1>1. ASSUME NEW f \in DOMAIN graph
      PROVE  Len(graph[f]) \in Nat /\ DOMAIN graph[f] = 1 .. Len(graph[f])
  BY LenProperties DEF IsCallGraph
<1>2. ASSUME NEW f \in DOMAIN graph, NEW k \in 1 .. Len(graph[f])
      PROVE  /\ graph[f][k].callee \in DOMAIN graph \union {NoFunction}
             /\ graph[f][k].callee # NoFunction => graph[f][k].callee \in Callees(graph, f)
             /\ graph[f][k].callee # NoFunction /\ graph[f][k].line # NoLine =>
                  Edge(f, graph[f][k]) \in AllEdges
  <2>1. k \in DOMAIN graph[f]
    BY <1>1
  <2>2. graph[f][k] \in Range(graph[f])
    BY <2>1 DEF Range
  <2>3. graph[f][k].callee \in DOMAIN graph \union {NoFunction}
    BY <2>1 DEF IsCallGraph
  <2>4. graph[f][k].callee # NoFunction => graph[f][k].callee \in Callees(graph, f)
    BY <2>1 DEF Callees
  <2>5. graph[f][k].callee # NoFunction /\ graph[f][k].line # NoLine =>
          Edge(f, graph[f][k]) \in Sites(f)
    BY <2>2 DEF Sites
  <2> QED
    BY <2>3, <2>4, <2>5 DEF AllEdges
<1>3. ASSUME NEW e \in AllEdges
      PROVE  e.caller \in DOMAIN graph /\ e.callee # NoFunction /\ e.line # NoLine
  BY DEF AllEdges, Sites, Edge
<1> QED
  BY <1>1, <1>2, <1>3

\* A site that is dealt with, and whose edge is recorded if it has one, keeps the counts.
LEMMA SiteDone ==
  ASSUME IsCallGraph(graph), edges \in Seq(AllEdges), EdgesOfDone, graph' = graph,
         NEW f \in DOMAIN graph, NEW k \in 1 .. Len(graph[f]), ~Done(f, k),
         \A g \in DOMAIN graph : \A j \in 1 .. Len(graph[g]) :
           Done(g, j)' <=> Done(g, j) \/ (g = f /\ j = k),
         edges' = IF graph[f][k].callee = NoFunction \/ graph[f][k].line = NoLine THEN edges
                  ELSE Append(edges, Edge(f, graph[f][k]))
  PROVE  edges' \in Seq(AllEdges) /\ EdgesOfDone'
<1> DEFINE new == Edge(f, graph[f][k])
           none == graph[f][k].callee = NoFunction \/ graph[f][k].line = NoLine
<1>1. ~none => new \in AllEdges
  BY GraphSites
<1>2. none => new \notin AllEdges
  BY GraphSites DEF Edge
<1>3. new.caller = f
  BY DEF Edge
<1>4. edges' = IF none THEN edges ELSE Append(edges, new)
  OBVIOUS
<1>5. AllEdges' = AllEdges
  BY DEF AllEdges, Sites
<1> HIDE DEF new, none
<1>6. edges' \in Seq(AllEdges)
  BY <1>1, <1>4
<1>7. ASSUME NEW e \in AllEdges
      PROVE  Cardinality(Times(e)') = Cardinality(DoneAs(e)')
  <2>1. /\ e.caller \in DOMAIN graph /\ Len(graph[e.caller]) \in Nat /\ Len(edges) \in Nat
        /\ IsFiniteSet(Times(e)) /\ IsFiniteSet(DoneAs(e))
    <3>1. e.caller \in DOMAIN graph /\ Len(graph[e.caller]) \in Nat /\ Len(edges) \in Nat
      <4>1. e.caller \in DOMAIN graph
        BY GraphSites
      <4>2. Len(graph[e.caller]) \in Nat
        BY <4>1, GraphSites
      <4>3. Len(edges) \in Nat
        OBVIOUS
      <4> QED
        BY <4>1, <4>2, <4>3
    <3>2. \A n \in Nat : IsFiniteSet(1 .. n)
      BY FS_Interval, SMTT(60)
    <3>3. IsFiniteSet(1 .. Len(graph[e.caller])) /\ IsFiniteSet(1 .. Len(edges))
      BY <3>1, <3>2, Zenon
    <3> QED
      BY <3>1, <3>3, FS_Subset DEF Times, DoneAs
  <2>2. Cardinality(Times(e)) = Cardinality(DoneAs(e))
    BY DEF EdgesOfDone
  <2>3. DoneAs(e)' = {j \in 1 .. Len(graph[e.caller]) :
                        /\ Done(e.caller, j) \/ (e.caller = f /\ j = k)
                        /\ Edge(e.caller, graph[e.caller][j]) = e}
    <3>1. DoneAs(e)' = {j \in 1 .. Len(graph[e.caller]) :
                          Done(e.caller, j)' /\ Edge(e.caller, graph[e.caller][j]) = e}
      BY DEF DoneAs
    <3> QED
      BY <2>1, <3>1
  <2>4. CASE e = new
    <3>1. ~none /\ e.caller = f
      BY <1>2, <1>3, <2>4
    <3>2. DoneAs(e)' = DoneAs(e) \union {k} /\ k \notin DoneAs(e)
      BY <2>3, <2>4, <3>1 DEF DoneAs, new
    <3>3. Times(e)' = Times(e) \union {Len(edges) + 1} /\ Len(edges) + 1 \notin Times(e)
      <4>1. edges' = Append(edges, e)
        BY <1>4, <2>4, <3>1
      <4>2. /\ Len(edges') = Len(edges) + 1 /\ edges'[Len(edges) + 1] = e
            /\ \A i \in 1 .. Len(edges) : edges'[i] = edges[i]
        BY <4>1
      <4> QED
        BY <2>1, <4>2 DEF Times
    <3>4. \A S, x : IsFiniteSet(S) /\ x \notin S =>
                      Cardinality(S \union {x}) = Cardinality(S) + 1
      BY FS_AddElement
    <3>5. /\ Cardinality(DoneAs(e)') = Cardinality(DoneAs(e)) + 1
          /\ Cardinality(Times(e)') = Cardinality(Times(e)) + 1
      BY <2>1, <3>2, <3>3, <3>4, Zenon
    <3> QED
      BY <2>2, <3>5
  <2>5. CASE e # new
    <3>1. DoneAs(e)' = DoneAs(e)
      BY <2>3, <2>5 DEF DoneAs, new
    <3>2. Times(e)' = Times(e)
      <4>1. CASE none
        BY <1>4, <4>1 DEF Times
      <4>2. CASE ~none
        <5>1. edges' = Append(edges, new)
          BY <1>4, <4>2
        <5>2. /\ Len(edges') = Len(edges) + 1 /\ edges'[Len(edges) + 1] # e
              /\ \A i \in 1 .. Len(edges) : edges'[i] = edges[i]
          BY <1>1, <2>5, <4>2, <5>1
        <5> QED
          BY <2>1, <5>2 DEF Times
      <4> QED
        BY <4>1, <4>2
    <3> QED
      BY <2>2, <3>1, <3>2
  <2> QED
    BY <2>4, <2>5
<1> QED
  BY <1>5, <1>6, <1>7 DEF EdgesOfDone

\* The frame at m goes on to its next site, the frames above it having none left.
LEMMA Advance ==
  ASSUME WalkTypeOK, StackIsPath, CalleesAreVisited, graph' = graph, visited' = visited,
         NEW m \in 1 .. Len(stack), Len(stack') = m, stack' \in Seq(Frames),
         \A i \in 1 .. m - 1 : stack'[i] = stack[i],
         stack'[m].function = stack[m].function, stack'[m].done = stack[m].done + 1,
         stack[m].done < Len(graph[stack[m].function]),
         \A i \in m + 1 .. Len(stack) : stack[i].done = Len(graph[stack[i].function]),
         graph[stack[m].function][stack[m].done + 1].callee \in visited \union {NoFunction}
  PROVE  /\ StackIsPath' /\ CalleesAreVisited'
         /\ stack[m].function \in DOMAIN graph
         /\ stack[m].done + 1 \in 1 .. Len(graph[stack[m].function])
         /\ ~Done(stack[m].function, stack[m].done + 1)
         /\ \A g \in DOMAIN graph : \A j \in 1 .. Len(graph[g]) :
              Done(g, j)' <=> \/ Done(g, j)
                              \/ g = stack[m].function /\ j = stack[m].done + 1
<1> DEFINE f == stack[m].function
           k == stack[m].done + 1
<1>1. /\ Len(stack) \in Nat
      /\ \A i \in 1 .. Len(stack) : stack[i].function \in DOMAIN graph /\ stack[i].done \in Nat
      /\ \A g \in DOMAIN graph : Len(graph[g]) \in Nat
  <2>1. stack \in Seq(Frames) /\ IsCallGraph(graph)
    BY DEF WalkTypeOK
  <2>2. Len(stack) \in Nat /\ \A i \in 1 .. Len(stack) : stack[i] \in Frames
    BY <2>1
  <2>3. \A fr \in Frames : fr.function \in DOMAIN graph /\ fr.done \in Nat
    BY DEF Frames
  <2>4. \A g \in DOMAIN graph : Len(graph[g]) \in Nat
    BY <2>1, GraphSites
  <2> QED
    BY <2>2, <2>3, <2>4
<1>2. f \in DOMAIN graph /\ f \in visited /\ k \in 1 .. Len(graph[f]) /\ k \in Nat
  BY <1>1 DEF StackIsPath
<1>3. \A i \in 1 .. Len(stack) : stack[i].function = f => i = m
  BY DEF StackIsPath
<1>4. ~Done(f, k)
  BY <1>1 DEF Done
<1>5. ASSUME NEW i \in 1 .. m
      PROVE  stack'[i].function = stack[i].function
  <2>1. CASE i = m
    BY <2>1
  <2>2. CASE i # m
    <3>1. i \in 1 .. m - 1
      BY <2>2
    <3> QED
      BY <3>1
  <2> QED
    BY <2>1, <2>2
<1>6. ASSUME NEW g \in DOMAIN graph, NEW j \in 1 .. Len(graph[g])
      PROVE  Done(g, j)' <=> Done(g, j) \/ (g = f /\ j = k)
  <2>1. Done(g, j)' <=>
          g \in visited /\ \A i \in 1 .. m : stack[i].function = g => j <= stack'[i].done
    BY <1>5 DEF Done
  <2>2. Done(g, j) <=>
          g \in visited /\ \A i \in 1 .. Len(stack) : stack[i].function = g => j <= stack[i].done
    BY DEF Done
  <2>3. CASE g = f
    <3>1. Done(g, j)' <=> j <= stack'[m].done
      BY <1>1, <1>2, <1>3, <2>1, <2>3
    <3>2. Done(g, j) <=> j <= stack[m].done
      BY <1>1, <1>2, <1>3, <2>2, <2>3
    <3>3. j \in Nat /\ stack[m].done \in Nat /\ stack'[m].done = stack[m].done + 1
      BY <1>1
    <3> QED
      BY <2>3, <3>1, <3>2, <3>3
  <2>4. CASE g # f
    <3>1. \A i \in 1 .. m : stack[i].function = g => i \in 1 .. m - 1 /\ stack'[i] = stack[i]
      BY <1>1, <2>4
    <3>2. \A i \in m + 1 .. Len(stack) : stack[i].function = g => j <= stack[i].done
      OBVIOUS
    <3> QED
      BY <1>1, <2>1, <2>2, <2>4, <3>1, <3>2
  <2> QED
    BY <2>3, <2>4
<1>7. StackIsPath'
  <2>1. ASSUME NEW i \in 1 .. m
        PROVE  stack'[i].function \in visited /\ stack'[i].done <= Len(graph[stack'[i].function])
    <3>1. CASE i = m
      BY <1>1, <1>2, <3>1
    <3>2. CASE i # m
      <4>1. i \in 1 .. m - 1 /\ i \in 1 .. Len(stack)
        BY <1>1, <3>2
      <4>2. stack'[i] = stack[i]
        BY <4>1
      <4> QED
        BY <4>1, <4>2 DEF StackIsPath
    <3> QED
      BY <3>1, <3>2
  <2>2. \A i, j \in 1 .. m : stack'[i].function = stack'[j].function => i = j
    BY <1>1, <1>5 DEF StackIsPath
  <2>3. ASSUME NEW i \in 1 .. m - 1
        PROVE  /\ stack'[i].done < Len(graph[stack'[i].function])
               /\ graph[stack'[i].function][stack'[i].done + 1].callee = stack'[i + 1].function
    <3>1. i \in 1 .. Len(stack) - 1 /\ i + 1 \in 1 .. m /\ stack'[i] = stack[i]
      BY <1>1
    <3> QED
      BY <1>5, <3>1 DEF StackIsPath
  <2> QED
    BY <2>1, <2>2, <2>3 DEF StackIsPath
<1>8. CalleesAreVisited'
  <2> SUFFICES ASSUME NEW g \in visited, NEW j \in 1 .. Len(graph[g]), Done(g, j)'
               PROVE  graph[g][j].callee \in visited \union {NoFunction}
    BY DEF CalleesAreVisited
  <2>1. g \in DOMAIN graph
    BY DEF WalkTypeOK
  <2>2. Done(g, j) \/ (g = f /\ j = k)
    BY <1>6, <2>1
  <2> QED
    BY <2>2 DEF CalleesAreVisited
<1> QED
  BY <1>2, <1>4, <1>6, <1>7, <1>8

\* What depends on the graph alone.
LEMMA SameGraph ==
  ASSUME graph' = graph
  PROVE  /\ \A f : Reached(f)' = Reached(f)
         /\ Frames' = Frames /\ AllEdges' = AllEdges /\ (IsCallGraph(graph)' <=> IsCallGraph(graph))
<1> DEFINE Of(g, f, n) ==
             LET s[d \in 0 .. n] ==
                   IF d = 0 THEN {f} ELSE s[d - 1] \union UNION {Callees(g, h) : h \in s[d - 1]}
             IN s[n]
<1>1. ASSUME NEW f PROVE Reached(f)' = Reached(f)
  <2>1. Reached(f) = UNION {Of(graph, f, n) : n \in Nat}
    BY Zenon DEF Reached, Shallow
  <2>2. Reached(f)' = UNION {Of(graph', f, n) : n \in Nat}
    BY Zenon DEF Reached, Shallow
  <2> HIDE DEF Of
  <2> QED
    BY <2>1, <2>2
<1> QED
  BY <1>1 DEF Frames, AllEdges, Sites

\* A site is dealt with: at the top of the stack, or below a function that ends.
LEMMA SiteStep ==
  ASSUME WalkInv, graph' = graph, visited' = visited, entries' = entries,
         NEW m \in 1 .. Len(stack), Len(stack') = m, stack' \in Seq(Frames),
         \A i \in 1 .. m - 1 : stack'[i] = stack[i],
         stack'[m].function = stack[m].function, stack'[m].done = stack[m].done + 1,
         stack[m].done < Len(graph[stack[m].function]),
         \A i \in m + 1 .. Len(stack) : stack[i].done = Len(graph[stack[i].function]),
         graph[stack[m].function][stack[m].done + 1].callee \in visited \union {NoFunction},
         LET site == graph[stack[m].function][stack[m].done + 1]
         IN edges' = IF site.callee = NoFunction \/ site.line = NoLine THEN edges
                     ELSE Append(edges, Edge(stack[m].function, site)),
         functions \subseteq functions', functions' \subseteq Reached(stack[1].function)
  PROVE  WalkInv'
<1> DEFINE f == stack[m].function
           k == stack[m].done + 1
<1>1. WalkTypeOK /\ StackIsPath /\ CalleesAreVisited /\ VisitedIsReached /\ EdgesOfDone
  BY DEF WalkInv
<1>2. /\ StackIsPath' /\ CalleesAreVisited'
      /\ f \in DOMAIN graph /\ k \in 1 .. Len(graph[f]) /\ ~Done(f, k)
      /\ \A g \in DOMAIN graph : \A j \in 1 .. Len(graph[g]) :
           Done(g, j)' <=> Done(g, j) \/ (g = f /\ j = k)
  BY <1>1, Advance
<1>3. edges' = IF graph[f][k].callee = NoFunction \/ graph[f][k].line = NoLine THEN edges
               ELSE Append(edges, Edge(f, graph[f][k]))
  OBVIOUS
<1>4. IsCallGraph(graph) /\ edges \in Seq(AllEdges)
  BY <1>1 DEF WalkTypeOK
<1> HIDE DEF f, k
<1>5. edges' \in Seq(AllEdges) /\ EdgesOfDone'
  BY <1>1, <1>2, <1>3, <1>4, SiteDone
<1>6. stack # <<>> /\ stack' # <<>> /\ stack'[1].function = stack[1].function
  <2>1. Len(stack) \in Nat /\ Len(stack) # 0 /\ Len(stack') # 0
    BY <1>1 DEF WalkTypeOK
  <2>2. stack # <<>> /\ stack' # <<>>
    BY <2>1
  <2>3. CASE m = 1
    BY <2>2, <2>3
  <2>4. CASE m # 1
    <3>1. 1 \in 1 .. m - 1
      BY <2>4
    <3> QED
      BY <2>2, <3>1
  <2> QED
    BY <2>3, <2>4
<1>7. WalkTypeOK'
  BY <1>1, <1>5, <1>6, SameGraph DEF WalkTypeOK
<1>8. VisitedIsReached'
  <2> SUFFICES ASSUME NEW r \in DOMAIN graph, r = stack[1].function
               PROVE  r \in visited /\ visited \subseteq functions' /\ functions' \subseteq Reached(r)'
    BY <1>6 DEF VisitedIsReached
  <2>1. r \in visited /\ visited \subseteq functions
    BY <1>1, <1>6 DEF VisitedIsReached
  <2> QED
    BY <2>1, SameGraph
<1> QED
  BY <1>2, <1>5, <1>7, <1>8 DEF WalkInv

\* The top of the stack.
LEMMA TopType ==
  ASSUME WalkInv, stack # <<>>
  PROVE  /\ Len(stack) \in Nat /\ Len(stack) > 0 /\ Len(stack) \in 1 .. Len(stack)
         /\ Top = stack[Len(stack)] /\ Top \in Frames
         /\ Top.function \in DOMAIN graph /\ Top.function \in visited /\ Top.done \in Nat
         /\ Top.done <= Len(graph[Top.function]) /\ Len(graph[Top.function]) \in Nat
         /\ stack[1].function \in DOMAIN graph
         /\ visited \subseteq functions /\ functions \subseteq Reached(stack[1].function)
<1>1. WalkTypeOK /\ StackIsPath /\ VisitedIsReached /\ stack \in Seq(Frames) /\ IsCallGraph(graph)
  BY DEF WalkInv, WalkTypeOK
<1>2. Len(stack) \in Nat /\ Len(stack) > 0 /\ \A i \in 1 .. Len(stack) : stack[i] \in Frames
  BY <1>1
<1>3. Len(stack) \in 1 .. Len(stack) /\ 1 \in 1 .. Len(stack)
  BY <1>2
<1>4. Top \in Frames /\ stack[1] \in Frames /\ Top = stack[Len(stack)]
  BY <1>2, <1>3 DEF Top
<1>5. /\ Top.function \in DOMAIN graph /\ Top.done \in Nat
      /\ stack[1].function \in DOMAIN graph
  BY <1>4 DEF Frames
<1>6. Top.function \in visited /\ Top.done <= Len(graph[Top.function])
  BY <1>1, <1>3, <1>4 DEF StackIsPath
<1>7. Len(graph[Top.function]) \in Nat
  BY <1>1, <1>5, GraphSites
<1>8. visited \subseteq functions /\ functions \subseteq Reached(stack[1].function)
  BY <1>1, <1>5 DEF VisitedIsReached
<1> QED
  BY <1>2, <1>3, <1>4, <1>5, <1>6, <1>7, <1>8

\* The top of the stack has gone on to its next site.
LEMMA CountedType ==
  ASSUME WalkInv, AtSite, stack' = Counted
  PROVE  LET m == Len(stack) IN
         /\ Len(stack') = m /\ stack' \in Seq(Frames)
         /\ \A i \in 1 .. m - 1 : stack'[i] = stack[i]
         /\ stack'[m].function = stack[m].function /\ stack'[m].done = stack[m].done + 1
<1>1. stack # <<>> /\ stack \in Seq(Frames)
  BY DEF AtSite, WalkInv, WalkTypeOK
<1> DEFINE m == Len(stack)
           next == [stack[m] EXCEPT !.done = @ + 1]
<1>2. m \in Nat /\ m \in 1 .. m /\ stack[m] \in Frames /\ stack[m].done + 1 \in Nat
  BY <1>1, TopType
<1>3. next \in Frames /\ next.function = stack[m].function /\ next.done = stack[m].done + 1
  BY <1>2 DEF Frames
<1>4. stack' = [stack EXCEPT ![m] = next]
  BY DEF Counted
<1> HIDE DEF next
<1> QED
  BY <1>1, <1>2, <1>3, <1>4

\* A call through a pointer.
LEMMA SkipSiteInv ==
  ASSUME WalkInv, SkipSite
  PROVE  WalkInv'
<1>1. /\ AtSite /\ NextSite.callee = NoFunction /\ stack' = Counted
      /\ UNCHANGED <<graph, entries, visited, edges, functions>>
  BY DEF SkipSite
<1>2. stack # <<>> /\ Top.done < Len(graph[Top.function])
  BY <1>1 DEF AtSite
<1> DEFINE m == Len(stack)
<1>3. /\ m \in Nat /\ m \in 1 .. m /\ Top = stack[m] /\ m + 1 > m
      /\ functions \subseteq Reached(stack[1].function)
  BY <1>2, TopType
<1>4. /\ Len(stack') = m /\ stack' \in Seq(Frames)
      /\ \A i \in 1 .. m - 1 : stack'[i] = stack[i]
      /\ stack'[m].function = stack[m].function /\ stack'[m].done = stack[m].done + 1
  BY <1>1, CountedType
<1>5. graph[stack[m].function][stack[m].done + 1].callee = NoFunction
  BY <1>1, <1>3 DEF NextSite
<1>6. stack[m].done < Len(graph[stack[m].function])
  BY <1>2, <1>3
<1>7. \A i \in m + 1 .. m : FALSE
  BY <1>3
<1> QED
  BY <1>1, <1>3, <1>4, <1>5, <1>6, <1>7, SiteStep

\* A function that was visited before.
LEMMA RevisitInv ==
  ASSUME WalkInv, Revisit
  PROVE  WalkInv'
<1>1. /\ AtSite /\ NextSite.callee \in visited /\ stack' = Counted
      /\ UNCHANGED <<graph, entries, visited>>
      /\ functions' = functions \union Shallow(NextSite.callee, ShallowDepth)
      /\ edges' = Recorded(Top.function, NextSite)
  BY DEF Revisit
<1>2. stack # <<>> /\ Top.done < Len(graph[Top.function])
  BY <1>1 DEF AtSite
<1> DEFINE m == Len(stack)
<1>3. /\ m \in Nat /\ m \in 1 .. m /\ Top = stack[m] /\ m + 1 > m
      /\ visited \subseteq functions /\ functions \subseteq Reached(stack[1].function)
  BY <1>2, TopType
<1>4. /\ Len(stack') = m /\ stack' \in Seq(Frames)
      /\ \A i \in 1 .. m - 1 : stack'[i] = stack[i]
      /\ stack'[m].function = stack[m].function /\ stack'[m].done = stack[m].done + 1
  BY <1>1, CountedType
<1> DEFINE site == graph[stack[m].function][stack[m].done + 1]
<1>5. site = NextSite /\ site.callee \in visited
  BY <1>1, <1>3 DEF NextSite
<1>6. stack[m].done < Len(graph[stack[m].function])
  BY <1>2, <1>3
<1>7. \A i \in m + 1 .. m : FALSE
  BY <1>3
<1>8. functions' \subseteq Reached(stack[1].function)
  BY <1>1, <1>3, ReachedIsClosed, ClosedHoldsShallow, ShallowAssumption
<1>9. edges' = IF site.callee = NoFunction \/ site.line = NoLine THEN edges
               ELSE Append(edges, Edge(stack[m].function, site))
  <2>1. site.callee # NoFunction
    BY <1>5 DEF WalkInv, WalkTypeOK, IsCallGraph
  <2> QED
    BY <1>1, <1>3, <1>5, <2>1 DEF Recorded
<1>10. functions \subseteq functions'
  BY <1>1
<1> QED
  BY <1>1, <1>3, <1>4, <1>5, <1>6, <1>7, <1>8, <1>9, <1>10, SiteStep

\* Where no site is dealt with and no edge recorded, the counts stay.
LEMMA EdgesKept ==
  ASSUME IsCallGraph(graph), EdgesOfDone, graph' = graph, edges' = edges,
         \A g \in DOMAIN graph : \A j \in 1 .. Len(graph[g]) : Done(g, j)' <=> Done(g, j)
  PROVE  EdgesOfDone'
<1> SUFFICES ASSUME NEW e \in AllEdges
             PROVE  Cardinality(Times(e)') = Cardinality(DoneAs(e)')
  BY SameGraph DEF EdgesOfDone
<1>1. e.caller \in DOMAIN graph
  BY GraphSites
<1>2. DoneAs(e)' = {j \in 1 .. Len(graph[e.caller]) :
                      Done(e.caller, j)' /\ Edge(e.caller, graph[e.caller][j]) = e}
  BY DEF DoneAs
<1>3. DoneAs(e)' = DoneAs(e)
  BY <1>1, <1>2 DEF DoneAs
<1>4. Times(e)' = Times(e)
  BY DEF Times
<1> QED
  BY <1>3, <1>4 DEF EdgesOfDone

\* A call to a function that was not visited before.
LEMMA EnterSiteInv ==
  ASSUME WalkInv, EnterSite
  PROVE  WalkInv'
<1> DEFINE m == Len(stack)
           c == NextSite.callee
<1>1. /\ stack # <<>> /\ Top.done < Len(graph[Top.function])
      /\ c \notin visited /\ c # NoFunction
      /\ stack' = Append(stack, Frame(c)) /\ visited' = visited \union {c}
      /\ functions' = functions \union {c}
      /\ UNCHANGED <<graph, entries, edges>>
  BY DEF EnterSite, AtSite
<1>2. /\ WalkTypeOK /\ StackIsPath /\ CalleesAreVisited /\ EdgesOfDone
      /\ stack \in Seq(Frames) /\ IsCallGraph(graph) /\ visited \subseteq DOMAIN graph
  BY DEF WalkInv, WalkTypeOK
<1>3. /\ m \in Nat /\ m > 0 /\ Top = stack[m] /\ Top.function \in DOMAIN graph /\ Top.done \in Nat
      /\ Top.function \in visited /\ Len(graph[Top.function]) \in Nat
      /\ stack[1].function \in DOMAIN graph
      /\ visited \subseteq functions /\ functions \subseteq Reached(stack[1].function)
  BY <1>1, TopType
<1>4. /\ c \in DOMAIN graph /\ c \in Callees(graph, Top.function)
      /\ graph[stack[m].function][stack[m].done + 1].callee = c
  <2>1. Top.done + 1 \in 1 .. Len(graph[Top.function])
    BY <1>1, <1>3
  <2>2. c = graph[Top.function][Top.done + 1].callee
    BY DEF NextSite
  <2> HIDE DEF c
  <2> QED
    BY <1>1, <1>2, <1>3, <2>1, <2>2, GraphSites
<1> HIDE DEF c
<1>5. c \in Reached(stack[1].function)
  BY <1>3, <1>4, ReachedIsClosed DEF Closed
<1>6. Frame(c) \in Frames /\ Frame(c).function = c /\ Frame(c).done = 0
  BY <1>4 DEF Frame, Frames
<1>7. /\ stack' \in Seq(Frames) /\ Len(stack') = m + 1 /\ stack' # <<>>
      /\ \A i \in 1 .. m : stack'[i] = stack[i]
      /\ stack'[m + 1].function = c /\ stack'[m + 1].done = 0
  <2>1. stack'[m + 1] = Frame(c)
    BY <1>1, <1>2, <1>6
  <2>2. /\ stack' \in Seq(Frames) /\ Len(stack') = m + 1 /\ stack' # <<>>
        /\ \A i \in 1 .. m : stack'[i] = stack[i]
    BY <1>1, <1>2, <1>6, AppendProperties
  <2> QED
    BY <1>6, <2>1, <2>2
<1>8. ASSUME NEW g \in DOMAIN graph, NEW j \in 1 .. Len(graph[g])
      PROVE  Done(g, j)' <=> Done(g, j)
  <2>1. Done(g, j)' <=> /\ g \in visited \union {c}
                        /\ \A i \in 1 .. m + 1 : stack'[i].function = g => j <= stack'[i].done
    BY <1>1, <1>7 DEF Done
  <2>2. Done(g, j) <=> g \in visited /\ \A i \in 1 .. m : stack[i].function = g => j <= stack[i].done
    BY DEF Done
  <2>3. m + 1 \in 1 .. m + 1 /\ 1 .. m + 1 = (1 .. m) \union {m + 1}
    BY <1>3
  <2>4. CASE g = c
    <3>1. ~(j <= 0)
      OBVIOUS
    <3> QED
      BY <1>1, <1>7, <2>1, <2>2, <2>3, <2>4, <3>1
  <2>5. CASE g # c
    BY <1>7, <2>1, <2>2, <2>3, <2>5
  <2> QED
    BY <2>4, <2>5
<1>9. EdgesOfDone'
  BY <1>1, <1>2, <1>8, EdgesKept
<1>10. WalkTypeOK'
  BY <1>1, <1>2, <1>4, <1>7, SameGraph DEF WalkTypeOK
<1>11. StackIsPath'
  <2>1. \A i \in 1 .. m : stack[i].function \in visited /\ stack[i].function # c
    BY <1>1, <1>2 DEF StackIsPath
  <2>2. ASSUME NEW i \in 1 .. m + 1
        PROVE  stack'[i].function \in visited' /\ stack'[i].done <= Len(graph[stack'[i].function])
    <3>1. CASE i = m + 1
      BY <1>1, <1>2, <1>4, <1>7, <3>1, GraphSites
    <3>2. CASE i # m + 1
      <4>1. i \in 1 .. m
        BY <1>3, <3>2
      <4> QED
        BY <1>1, <1>2, <1>7, <4>1 DEF StackIsPath
    <3> QED
      BY <3>1, <3>2
  <2>3. ASSUME NEW i \in 1 .. m + 1, NEW j \in 1 .. m + 1, stack'[i].function = stack'[j].function
        PROVE  i = j
    <3>1. (i \in 1 .. m \/ i = m + 1) /\ (j \in 1 .. m \/ j = m + 1)
      BY <1>3
    <3> QED
      BY <1>2, <1>7, <2>1, <2>3, <3>1 DEF StackIsPath
  <2>4. ASSUME NEW i \in 1 .. m
        PROVE  /\ stack'[i].done < Len(graph[stack'[i].function])
               /\ graph[stack'[i].function][stack'[i].done + 1].callee = stack'[i + 1].function
    <3>1. CASE i = m
      BY <1>1, <1>3, <1>4, <1>7, <3>1
    <3>2. CASE i # m
      <4>1. i \in 1 .. m - 1 /\ i + 1 \in 1 .. m
        BY <1>3, <3>2
      <4> QED
        BY <1>2, <1>7, <4>1 DEF StackIsPath
    <3> QED
      BY <3>1, <3>2
  <2>5. m + 1 - 1 = m
    BY <1>3
  <2> QED
    BY <1>1, <1>7, <2>2, <2>3, <2>4, <2>5 DEF StackIsPath
<1>12. CalleesAreVisited'
  <2> SUFFICES ASSUME NEW g \in visited', NEW j \in 1 .. Len(graph[g]), Done(g, j)'
               PROVE  graph[g][j].callee \in visited' \union {NoFunction}
    BY <1>1 DEF CalleesAreVisited
  <2>1. g \in DOMAIN graph
    BY <1>1, <1>2, <1>4
  <2>2. Done(g, j)
    BY <1>8, <2>1
  <2>3. g \in visited
    BY <2>2 DEF Done
  <2> QED
    BY <1>1, <1>2, <2>2, <2>3 DEF CalleesAreVisited
<1>13. VisitedIsReached'
  <2>1. stack'[1].function = stack[1].function
    BY <1>3, <1>7
  <2>2. stack[1].function \in visited
    BY <1>2, <1>3 DEF StackIsPath
  <2> SUFFICES ASSUME NEW r \in DOMAIN graph, r = stack[1].function
               PROVE  r \in visited' /\ visited' \subseteq functions' /\ functions' \subseteq Reached(r)'
    BY <1>1, <2>1 DEF VisitedIsReached
  <2> QED
    BY <1>1, <1>3, <1>5, <2>2, SameGraph
<1> QED
  BY <1>9, <1>10, <1>11, <1>12, <1>13 DEF WalkInv

\* A function ends, and its caller goes on.
LEMMA LeaveFunctionInv ==
  ASSUME WalkInv, LeaveFunction
  PROVE  WalkInv'
<1> DEFINE n == Len(stack)
           m == n - 1
           below == stack[m]
           site == graph[below.function][below.done + 1]
<1>1. /\ n > 1 /\ ~AtSite
      /\ edges' = Recorded(below.function, site)
      /\ stack' = [SubSeq(stack, 1, m) EXCEPT ![m].done = @ + 1]
      /\ UNCHANGED <<graph, entries, visited, functions>>
  BY DEF LeaveFunction
<1>2. /\ StackIsPath /\ stack \in Seq(Frames) /\ n \in Nat /\ IsCallGraph(graph)
      /\ visited \subseteq DOMAIN graph
  BY DEF WalkInv, WalkTypeOK
<1>3. stack # <<>>
  BY <1>1, <1>2
<1>4. /\ Top = stack[n] /\ Top.function \in visited /\ Top.done \in Nat
      /\ Top.done <= Len(graph[Top.function]) /\ Len(graph[Top.function]) \in Nat
      /\ functions \subseteq Reached(stack[1].function)
  BY <1>3, TopType
<1>5. Top.done = Len(graph[Top.function])
  BY <1>1, <1>3, <1>4 DEF AtSite
<1>6. m \in 1 .. n /\ m \in 1 .. n - 1 /\ m + 1 = n /\ m \in 1 .. m /\ m \in Nat
  BY <1>1, <1>2
<1>7. below.done < Len(graph[below.function]) /\ site.callee = stack[m + 1].function
  BY <1>2, <1>6 DEF StackIsPath
<1>8. site.callee \in visited /\ site.callee # NoFunction
  BY <1>2, <1>4, <1>6, <1>7 DEF IsCallGraph
<1>9. edges' = IF site.callee = NoFunction \/ site.line = NoLine THEN edges
               ELSE Append(edges, Edge(below.function, site))
  BY <1>1, <1>8 DEF Recorded
<1>10. \A i \in m + 1 .. n : stack[i].done = Len(graph[stack[i].function])
  BY <1>4, <1>5, <1>6
<1>11. /\ Len(stack') = m /\ stack' \in Seq(Frames)
       /\ \A i \in 1 .. m - 1 : stack'[i] = stack[i]
       /\ stack'[m].function = stack[m].function /\ stack'[m].done = stack[m].done + 1
  <2> DEFINE rest == SubSeq(stack, 1, m)
             next == [stack[m] EXCEPT !.done = @ + 1]
  <2>1. \A i \in 1 .. m : stack[i] \in Frames
    BY <1>2, <1>6
  <2>2. rest \in Seq(Frames) /\ Len(rest) = m /\ \A i \in 1 .. m : rest[i] = stack[i]
    <3>1. 1 \in Int /\ m \in Int
      BY <1>6
    <3>2. /\ rest \in Seq(Frames) /\ Len(rest) = IF 1 <= m THEN m - 1 + 1 ELSE 0
          /\ \A i \in 1 .. m - 1 + 1 : rest[i] = stack[1 + i - 1]
      BY <2>1, <3>1, SubSeqProperties
    <3> HIDE DEF rest
    <3> QED
      BY <1>6, <3>2
  <2>3. next \in Frames /\ next.function = stack[m].function /\ next.done = stack[m].done + 1
    <3>1. stack[m] \in Frames
      BY <1>6, <2>1
    <3>2. stack[m].done + 1 \in Nat
      BY <3>1 DEF Frames
    <3> QED
      BY <3>1, <3>2 DEF Frames
  <2>4. stack' = [rest EXCEPT ![m] = next]
    BY <1>1, <1>6, <2>2
  <2> HIDE DEF rest, next, m
  <2>5. DOMAIN rest = 1 .. m
    BY <2>2
  <2>6. stack'[m] = next /\ \A i \in 1 .. m - 1 : stack'[i] = rest[i]
    <3>1. m \in DOMAIN rest /\ \A i \in 1 .. m - 1 : i \in DOMAIN rest /\ i # m
      BY <1>6, <2>5
    <3> QED
      BY <2>4, <3>1
  <2>7. stack' \in Seq(Frames) /\ Len(stack') = m
    BY <1>6, <2>2, <2>3, <2>4
  <2> QED
    BY <1>6, <2>2, <2>3, <2>6, <2>7
<1> QED
  BY <1>1, <1>4, <1>6, <1>7, <1>8, <1>9, <1>10, <1>11, SiteStep

\* Between two walks, and where one begins.
LEMMA BetweenWalks ==
  ASSUME IsCallGraph(graph'), stack' = <<>>, visited' = {}, functions' = {}, edges' = <<>>
  PROVE  WalkInv'
<1>1. WalkTypeOK'
  BY DEF WalkTypeOK
<1>2. StackIsPath' /\ CalleesAreVisited' /\ VisitedIsReached'
  BY DEF StackIsPath, CalleesAreVisited, VisitedIsReached
<1>3. \A e : Times(e)' = {} /\ DoneAs(e)' = {}
  BY DEF Times, DoneAs, Done
<1>4. EdgesOfDone'
  BY <1>3 DEF EdgesOfDone
<1> QED
  BY <1>1, <1>2, <1>4 DEF WalkInv

LEMMA StartWalkInv ==
  ASSUME WalkInv, StartWalk
  PROVE  WalkInv'
<1> DEFINE c == entries[1]
<1>1. /\ WalkTypeOK /\ IsCallGraph(graph) /\ entries # <<>> /\ stack = <<>> /\ edges' = <<>> /\ graph' = graph
      /\ visited = {} /\ functions = {} /\ edges = <<>>
  BY DEF StartWalk, WalkInv, WalkTypeOK
<1>2. CASE c \in DOMAIN graph
  <2>1. /\ stack' = <<Frame(c)>> /\ visited' = {c} /\ functions' = {c} /\ entries' = entries
    BY <1>2 DEF StartWalk
  <2>2. Frame(c) \in Frames /\ Frame(c).function = c /\ Frame(c).done = 0
    BY <1>2 DEF Frame, Frames
  <2> HIDE DEF c
  <2>3. /\ Len(stack') = 1 /\ stack'[1] = Frame(c) /\ stack' # <<>> /\ stack' \in Seq(Frames)
    BY <2>1, <2>2
  <2>4. WalkTypeOK'
    BY <1>1, <1>2, <2>1, <2>3, SameGraph DEF WalkTypeOK
  <2>5. StackIsPath'
    <3>1. Len(graph[c]) \in Nat
      BY <1>1, <1>2, GraphSites
    <3> QED
      BY <1>1, <2>1, <2>2, <2>3, <3>1 DEF StackIsPath
  <2>6. \A f, k : ~Done(f, k)'
    BY <1>1, <2>1, <2>2, <2>3 DEF Done
  <2>7. CalleesAreVisited'
    BY <2>6 DEF CalleesAreVisited
  <2>8. VisitedIsReached'
    <3>1. ASSUME NEW f \in DOMAIN graph, f = c
          PROVE  f \in {c} /\ {c} \subseteq Reached(f)'
      <4>1. f \in Reached(f)'
        BY <1>1, SameGraph, ReachedIsClosed
      <4> QED
        BY <3>1, <4>1
    <3> QED
      BY <1>1, <2>1, <2>2, <2>3, <3>1 DEF VisitedIsReached
  <2>9. \A e : Times(e)' = {} /\ DoneAs(e)' = {}
    BY <1>1, <2>6 DEF Times, DoneAs
  <2>10. EdgesOfDone'
    BY <2>9 DEF EdgesOfDone
  <2> QED
    BY <2>4, <2>5, <2>7, <2>8, <2>10 DEF WalkInv
<1>3. CASE c \notin DOMAIN graph
  BY <1>1, <1>3, BetweenWalks DEF StartWalk
<1> QED
  BY <1>2, <1>3

\* An introspection begins, a walk is merged, a report is written.
LEMMA BetweenWalksInv ==
  ASSUME WalkInv, Introspect \/ MergeWalk \/ WriteReport
  PROVE  WalkInv'
<1>1. WalkTypeOK /\ IsCallGraph(graph)
  BY DEF WalkInv, WalkTypeOK
<1>2. CASE Introspect
  <2>1. stack = <<>>
    <3>1. SUFFICES ASSUME stack # <<>> PROVE FALSE
      OBVIOUS
    <3>2. Top.function \in DOMAIN graph
      BY <3>1, TopType
    <3> QED
      BY <1>2, <3>2 DEF Introspect
  <2>2. IsCallGraph(graph')
    BY <1>2, GraphAssumption DEF Introspect
  <2> QED
    BY <1>1, <1>2, <2>1, <2>2, BetweenWalks DEF Introspect, WalkTypeOK
<1>3. CASE MergeWalk
  BY <1>1, <1>3, BetweenWalks DEF MergeWalk
<1>4. CASE WriteReport
  <2>1. IsCallGraph(graph')
    <3>1. DOMAIN graph' = {}
      BY <1>4 DEF WriteReport
    <3> QED
      BY <3>1, FS_EmptySet DEF IsCallGraph
  <2> QED
    BY <1>1, <1>4, <2>1, BetweenWalks DEF WriteReport, WalkTypeOK
<1> QED
  BY <1>2, <1>3, <1>4

\* When all sites of the entry are dealt with, all of those of the others are.
LEMMA WalkEnds ==
  ASSUME WalkInv
  PROVE  WalkIsComplete
<1> SUFFICES ASSUME Len(stack) = 1, ~AtSite
             PROVE  LET reached == Reachable(stack[1].function)
                        Count1(e) == Cardinality({i \in DOMAIN edges : edges[i] = e})
                        Count2(e) == Cardinality({i \in DOMAIN graph[e.caller] :
                                        Edge(e.caller, graph[e.caller][i]) = e})
                    IN /\ functions = reached
                       /\ Range(edges) = UNION {Sites(f) : f \in reached}
                       /\ \A e \in Range(edges) : Count1(e) = Count2(e)
  BY DEF WalkIsComplete
<1> DEFINE r == stack[1].function
<1>1. /\ IsCallGraph(graph) /\ edges \in Seq(AllEdges) /\ stack # <<>> /\ stack \in Seq(Frames)
      /\ CalleesAreVisited /\ EdgesOfDone /\ visited \subseteq DOMAIN graph
  <2>1. stack # <<>>
    OBVIOUS
  <2> QED
    BY <2>1, Zenon DEF WalkInv, WalkTypeOK
<1>2. /\ r \in DOMAIN graph /\ r \in visited /\ stack[1].done = Len(graph[r])
      /\ visited \subseteq functions /\ functions \subseteq Reached(r)
  BY <1>1, TopType DEF AtSite
<1>3. Len(edges) \in Nat /\ DOMAIN edges = 1 .. Len(edges)
      /\ \A i \in 1 .. Len(edges) : edges[i] \in AllEdges
  BY <1>1
<1>4. \A f \in visited : \A k \in 1 .. Len(graph[f]) : Done(f, k)
  BY <1>2 DEF Done
<1>5. Closed(visited)
  <2> SUFFICES ASSUME NEW h \in visited, NEW c \in Callees(graph, h)
               PROVE  c \in visited
    BY DEF Closed
  <2>1. PICK i \in DOMAIN graph[h] : c = graph[h][i].callee /\ c # NoFunction
    BY DEF Callees
  <2>2. i \in 1 .. Len(graph[h])
    BY <1>1, GraphSites
  <2> QED
    BY <1>1, <1>4, <2>1, <2>2 DEF CalleesAreVisited
<1>6. Reached(r) \subseteq visited
  <2> HIDE DEF r
  <2>1. \A n \in Nat : Shallow(r, n) \subseteq visited
    BY <1>2, <1>5, ClosedHoldsShallow
  <2> QED
    BY <2>1 DEF Reached
<1>7. Reached(r) = Reachable(r)
  <2> HIDE DEF r
  <2> QED
    BY <1>1, <1>2, ReachedIsReachable
<1>8. functions = Reachable(r) /\ visited = Reachable(r)
  BY <1>2, <1>6, <1>7
<1>9. ASSUME NEW e \in AllEdges
      PROVE  /\ IsFiniteSet(Times(e)) /\ IsFiniteSet(DoneAs(e))
             /\ Cardinality(Times(e)) = Cardinality(DoneAs(e))
             /\ e.caller \in visited =>
                  DoneAs(e) = {i \in DOMAIN graph[e.caller] : Edge(e.caller, graph[e.caller][i]) = e}
  <2>1. /\ e.caller \in DOMAIN graph /\ Len(graph[e.caller]) \in Nat
        /\ DOMAIN graph[e.caller] = 1 .. Len(graph[e.caller])
    BY <1>1, GraphSites
  <2>2. \A n \in Nat : IsFiniteSet(1 .. n)
    BY FS_Interval, SMTT(60)
  <2>3. IsFiniteSet(1 .. Len(graph[e.caller])) /\ IsFiniteSet(1 .. Len(edges))
    BY <1>3, <2>1, <2>2, Zenon
  <2>4. IsFiniteSet(Times(e)) /\ IsFiniteSet(DoneAs(e))
    BY <2>3, FS_Subset DEF Times, DoneAs
  <2>5. e.caller \in visited =>
          DoneAs(e) = {i \in DOMAIN graph[e.caller] : Edge(e.caller, graph[e.caller][i]) = e}
    BY <1>4, <2>1 DEF DoneAs
  <2> QED
    BY <1>1, <2>4, <2>5 DEF EdgesOfDone
<1>10. \A e \in AllEdges : Times(e) = {} <=> DoneAs(e) = {}
  BY <1>9, FS_EmptySet
<1>11. ASSUME NEW e \in Range(edges)
       PROVE  e \in AllEdges /\ e.caller \in visited /\ e \in Sites(e.caller)
  <2>1. PICK i \in 1 .. Len(edges) : e = edges[i]
    BY <1>3 DEF Range
  <2>2. e \in AllEdges /\ i \in Times(e)
    BY <1>3, <2>1 DEF Times
  <2>3. PICK k \in DoneAs(e) : TRUE
    BY <1>10, <2>2
  <2>4. e.caller \in visited
    BY <2>3 DEF DoneAs, Done
  <2>5. PICK f \in DOMAIN graph : e \in Sites(f)
    BY <2>2 DEF AllEdges
  <2>6. e.caller = f
    BY <2>5 DEF Sites, Edge
  <2> QED
    BY <2>2, <2>4, <2>5, <2>6
<1>12. ASSUME NEW f \in visited, NEW e \in Sites(f)
       PROVE  e \in Range(edges)
  <2>1. PICK s \in Range(graph[f]) : e = Edge(f, s)
    BY DEF Sites
  <2>2. PICK k \in DOMAIN graph[f] : s = graph[f][k]
    BY DEF Range
  <2>3. e \in AllEdges /\ f \in DOMAIN graph /\ e.caller = f
    BY <1>1, <2>1 DEF AllEdges, Edge
  <2>4. k \in 1 .. Len(graph[f])
    BY <1>1, <2>2, <2>3, GraphSites
  <2>5. k \in DoneAs(e)
    BY <1>4, <2>1, <2>2, <2>3, <2>4 DEF DoneAs
  <2>6. PICK i \in Times(e) : TRUE
    BY <1>10, <2>3, <2>5
  <2> QED
    BY <1>3, <2>6 DEF Times, Range
<1>13. Range(edges) = UNION {Sites(f) : f \in visited}
  BY <1>11, <1>12
<1>14. ASSUME NEW e \in Range(edges)
       PROVE  Cardinality({i \in DOMAIN edges : edges[i] = e})
              = Cardinality({i \in DOMAIN graph[e.caller] : Edge(e.caller, graph[e.caller][i]) = e})
  <2>1. Times(e) = {i \in DOMAIN edges : edges[i] = e}
    BY <1>3 DEF Times
  <2> QED
    BY <1>9, <1>11, <2>1
<1> QED
  BY <1>8, <1>13, <1>14, Zenon

\* The inductive invariant of the walk holds in every reachable state.
THEOREM WalkInvariance == WalkSpec => []WalkInv
<1>1. WalkInit => WalkInv
  <2> SUFFICES ASSUME WalkInit PROVE WalkInv
    OBVIOUS
  <2>1. DOMAIN graph = {} /\ stack = <<>> /\ visited = {} /\ edges = <<>> /\ functions = {}
    BY DEF WalkInit
  <2>2. IsCallGraph(graph)
    BY <2>1, FS_EmptySet DEF IsCallGraph
  <2>3. WalkTypeOK
    BY <2>1, <2>2 DEF WalkTypeOK
  <2>4. StackIsPath /\ CalleesAreVisited /\ VisitedIsReached
    BY <2>1 DEF StackIsPath, CalleesAreVisited, VisitedIsReached
  <2>5. \A e : Times(e) = {} /\ DoneAs(e) = {}
    BY <2>1 DEF Times, DoneAs, Done
  <2> QED
    BY <2>3, <2>4, <2>5 DEF WalkInv, EdgesOfDone
<1>2. WalkInv /\ [WalkNext]_walkVars => WalkInv'
  <2> SUFFICES ASSUME WalkInv, [WalkNext]_walkVars PROVE WalkInv'
    OBVIOUS
  <2>1. CASE StartWalk
    BY <2>1, StartWalkInv
  <2>2. CASE SkipSite
    BY <2>2, SkipSiteInv
  <2>3. CASE EnterSite
    BY <2>3, EnterSiteInv
  <2>4. CASE LeaveFunction
    BY <2>4, LeaveFunctionInv
  <2>5. CASE Revisit
    BY <2>5, RevisitInv
  <2>6. CASE Introspect \/ MergeWalk \/ WriteReport
    BY <2>6, BetweenWalksInv
  <2>7. CASE UNCHANGED walkVars
    <3>1. UNCHANGED <<graph, entries, stack, visited, edges, functions>>
      BY <2>7 DEF walkVars
    <3>2. WalkTypeOK' /\ StackIsPath' /\ VisitedIsReached'
      BY <3>1, SameGraph DEF WalkInv, WalkTypeOK, StackIsPath, VisitedIsReached
    <3>3. \A f, k : Done(f, k)' <=> Done(f, k)
      BY <3>1 DEF Done
    <3>4. CalleesAreVisited'
      BY <3>1, <3>3 DEF WalkInv, CalleesAreVisited
    <3>5. EdgesOfDone'
      BY <3>1, <3>3, EdgesKept DEF WalkInv, WalkTypeOK
    <3> QED
      BY <3>2, <3>4, <3>5 DEF WalkInv
  <2> QED
    BY <2>1, <2>2, <2>3, <2>4, <2>5, <2>6, <2>7 DEF WalkNext
<1> QED
  BY <1>1, <1>2, PTL DEF WalkSpec

\* A walk describes what can be reached from its entry and records each call site
\* once, in any call graph and to any depth of the shallow copies
\* (CallGraphWalker.cpp:44-112).
THEOREM WalksAreComplete == WalkSpec => []WalkIsComplete
<1>1. WalkInv => WalkIsComplete
  BY WalkEnds
<1> QED
  BY <1>1, WalkInvariance, PTL
=============================================================================
