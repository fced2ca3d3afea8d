-------------------------------- MODULE Seeds --------------------------------
(***************************************************************************)
(* The seeds of a fuzzing session (fuzzers/grammar.py, prepare_corpus of   *)
(* fuzzers/base.py, the first half of LibFuzzer.start, and what clean      *)
(* removes of them).                                                       *)
(*                                                                         *)
(* Seeds are drawn from a grammar into the seed directory, and copied from *)
(* there into the queue of the fuzzer.  Both steps go by file names: what  *)
(* has the name of a file that should be there is taken to be that file.   *)
(* A session may have a seed directory and an output directory of its own  *)
(* (--seed-dir, --output-dir), which clean leaves alone.                   *)
(***************************************************************************)
EXTENDS Naturals, Sequences, SequencesExt

CONSTANTS
    Grammars,   \* grammars: non-terminal |-> its productions
    SeedDirs,   \* seed directories, and fuzz-seeds among them
    DefaultSeeds,
    Outputs,    \* output directories, and fuzz-output among them
    DefaultOutput,
    UserSeeds,  \* what the user put in each seed directory
    MaxDepth,   \* where expansion stops: 12 in the code
    Count       \* how many seeds are drawn: 50 in the code

Start == "<A>"
IsGrammar(g) ==
    /\ DOMAIN g \subseteq STRING /\ Start \in DOMAIN g
    /\ \A s \in DOMAIN g : g[s] \in Seq(Seq(STRING)) /\ Len(g[s]) > 0
ASSUME GrammarAssumption == \A g \in Grammars : IsGrammar(g)
ASSUME DirsAssumption ==
    /\ DefaultSeeds \in SeedDirs /\ DefaultOutput \in Outputs
    /\ SeedDirs \intersect {"none", "cut", "outlived"} = {}
ASSUME SizeAssumption == MaxDepth \in Nat /\ Count \in Nat \ {0}

VARIABLES
    seeds,      \* each seed directory: the content of each file
    queue,      \* the queue of the fuzzer in each output directory
    bare,       \* whether fuzz-seeds has nothing but seeds in it
    fuzz,       \* the fuzz or clean command that is running
    copyOf      \* history: the directory whose seed a file of a queue is a copy
                \* of; or that the copy was cut short, or outlived its seed

seedVars == <<seeds, queue, bare, fuzz, copyOf>>

DefaultSeed == "seed1.txt"
GrammarSeeds == {"grammar_0000.txt", "grammar_0001.txt"}
GrammarSeed(i) == IF i = 0 THEN "grammar_0000.txt" ELSE "grammar_0001.txt"
SeedNames == {DefaultSeed} \union GrammarSeeds

Absent == <<"absent">>
Cut == <<"cut">>
NoFiles == [n \in SeedNames |-> Absent]
Own == <<"own">>
There(dir) == {n \in SeedNames : dir[n] # Absent}
NoGrammar == [s \in {} |-> <<>>]
NoFuzz == [pc |-> "idle", grammar |-> NoGrammar, dir |-> DefaultSeeds, out |-> DefaultOutput,
           resume |-> FALSE, seen |-> {}, tries |-> 0, left |-> {}]

\* The files of the user may have names that other seeds have.
ASSUME UserAssumption == UserSeeds \in [SeedDirs -> [SeedNames -> {Absent, Own}]]

SeedsInit ==
    /\ seeds = UserSeeds
    /\ queue = [o \in Outputs |-> NoFiles]
    /\ bare \in BOOLEAN
    /\ fuzz = NoFuzz
    /\ copyOf = [o \in Outputs |-> [n \in SeedNames |-> "none"]]

-----------------------------------------------------------------------------
(***************************************************************************)
(* GrammarSeedGenerator: what can be drawn from a grammar.                 *)
(***************************************************************************)
Concrete(g, data) == \A i \in DOMAIN data : data[i] \notin DOMAIN g

\* min(productions, key=len): the first of the shortest.
Shortest(productions) ==
    LET Minimal(i) == \A j \in DOMAIN productions : Len(productions[i]) <= Len(productions[j])
    IN productions[CHOOSE i \in DOMAIN productions :
                     Minimal(i) /\ \A j \in 1 .. i - 1 : ~Minimal(j)]

\* Mutant: the shortest production, whatever it consists of.
ExpandShortest(g, symbol) ==
    IF symbol \notin DOMAIN g THEN <<symbol>> ELSE Shortest(g[symbol])

\* The first production of terminals alone, or else the shortest as it is.
ExpandTerminal(g, symbol) ==
    IF symbol \notin DOMAIN g THEN <<symbol>>
    ELSE LET plain == {i \in DOMAIN g[symbol] : Concrete(g, g[symbol][i])}
         IN IF plain = {} THEN Shortest(g[symbol])
            ELSE g[symbol][CHOOSE i \in plain : \A j \in plain : i <= j]

\* "".join: what each symbol of a production becomes, one of its ways, put together.
Joins(ways, production) ==
    {FlattenSeq(parts) : parts \in {q \in [DOMAIN production -> UNION Range(ways)] :
                                     \A i \in DOMAIN production : q[i] \in ways[production[i]]}}

\* At the depth limit the shortest production is taken, and no level follows.
AtLimit(g) ==
    [symbol \in DOMAIN g |->
       LET production == Shortest(g[symbol])
       IN Joins([t \in Range(production) |-> {ExpandTerminal(g, t)}], production)]

\* Above it any production, when its symbols have the ways of one level below.
AboveLimit(g, below) ==
    [symbol \in DOMAIN g |->
       UNION {Joins([t \in Range(production) |-> IF t \in DOMAIN g THEN below[t] ELSE {<<t>>}],
                    production) : production \in Range(g[symbol])}]

\* What _expand can return of the start symbol.
Expansions(g) ==
    LET e[left \in 0 .. MaxDepth] == IF left = 0 THEN AtLimit(g) ELSE AboveLimit(g, e[left - 1])
    IN e[MaxDepth][Start]

\* Each non-terminal can be expanded to terminals in one step.
Grounded(g) == \A s \in DOMAIN g : \E i \in DOMAIN g[s] : Concrete(g, g[s][i])

-----------------------------------------------------------------------------
(***************************************************************************)
(* apatchy fuzz: prepare_corpus, then LibFuzzer.start.                     *)
(***************************************************************************)

\* Seeds are drawn if there is a grammar and no file is named like one of them.
Draws(g, dir) == g # NoGrammar /\ There(dir) \intersect GrammarSeeds = {}

AfterSeeds(command, dir) ==
    IF command.resume THEN [command EXCEPT !.pc = "run", !.left = {}]
    ELSE [command EXCEPT !.pc = "copy", !.left = There(dir) \ There(queue[command.out])]

\* A seed is made up only in fuzz-seeds, when there is no file in it at all.
StartFuzz(g, d, o, resume) ==
    /\ fuzz.pc = "idle"
    /\ LET command == [NoFuzz EXCEPT !.grammar = g, !.dir = d, !.out = o, !.resume = resume]
       IN fuzz' = IF d = DefaultSeeds /\ bare /\ There(seeds[d]) = {}
                  THEN [command EXCEPT !.pc = "default"]
                  ELSE IF Draws(g, seeds[d]) THEN [command EXCEPT !.pc = "draw"]
                  ELSE AfterSeeds(command, seeds[d])
    /\ UNCHANGED <<seeds, queue, bare, copyOf>>

WriteDefaultSeed ==
    /\ fuzz.pc = "default"
    /\ seeds' = [seeds EXCEPT ![DefaultSeeds][DefaultSeed] = <<"GET / HTTP/1.1">>]
    /\ fuzz' = IF Draws(fuzz.grammar, seeds'[DefaultSeeds]) THEN [fuzz EXCEPT !.pc = "draw"]
               ELSE AfterSeeds(fuzz, seeds'[DefaultSeeds])
    /\ UNCHANGED <<queue, bare, copyOf>>

\* generate_seeds: what was drawn before is not written again, up to 3 * Count tries.
DrawSeed ==
    /\ fuzz.pc = "draw"
    /\ \E data \in Expansions(fuzz.grammar) :
         LET written == Len(SetToSeq(fuzz.seen))
             new == data \notin fuzz.seen
             drawn == [fuzz EXCEPT !.seen = @ \union {data}, !.tries = @ + 1]
             total == IF new THEN written + 1 ELSE written
         IN /\ seeds' = IF new THEN [seeds EXCEPT ![fuzz.dir][GrammarSeed(written)] = data] ELSE seeds
            /\ fuzz' = IF total = Count \/ drawn.tries = 3 * Count
                       THEN AfterSeeds(drawn, seeds'[fuzz.dir]) ELSE drawn
    /\ UNCHANGED <<queue, bare, copyOf>>

CopySeed ==
    /\ fuzz.pc = "copy"
    /\ IF fuzz.left = {} THEN
          /\ fuzz' = [fuzz EXCEPT !.pc = "run"]
          /\ UNCHANGED <<queue, copyOf>>
       ELSE \E n \in fuzz.left :
          /\ queue' = [queue EXCEPT ![fuzz.out][n] = seeds[fuzz.dir][n]]
          /\ copyOf' = [copyOf EXCEPT ![fuzz.out][n] = fuzz.dir]
          /\ fuzz' = [fuzz EXCEPT !.left = @ \ {n}]
    /\ UNCHANGED <<seeds, bare>>

\* The fuzzer ends: see FuzzSession.  It adds files of other names to the queue.
EndFuzz ==
    /\ fuzz.pc = "run"
    /\ fuzz' = NoFuzz
    /\ UNCHANGED <<seeds, queue, bare, copyOf>>

-----------------------------------------------------------------------------
(***************************************************************************)
(* apatchy clean: fuzz-output, then fuzz-seeds/grammar_*.txt.              *)
(***************************************************************************)
StartCleaning ==
    /\ fuzz.pc = "idle"
    /\ fuzz' = [NoFuzz EXCEPT !.pc = "clean",
                              !.left = There(seeds[DefaultSeeds]) \intersect GrammarSeeds]
    /\ UNCHANGED <<seeds, queue, bare, copyOf>>

RemoveFromQueue ==
    /\ fuzz.pc = "clean"
    /\ \E n \in There(queue[DefaultOutput]) :
         /\ queue' = [queue EXCEPT ![DefaultOutput][n] = Absent]
         /\ copyOf' = [copyOf EXCEPT ![DefaultOutput][n] = "none"]
    /\ UNCHANGED <<seeds, bare, fuzz>>

\* The copies of a seed of fuzz-seeds, wherever they are, are left without it.
Outlive(n) ==
    copyOf' = [o \in Outputs |->
        [copyOf[o] EXCEPT ![n] = IF @ = DefaultSeeds THEN "outlived" ELSE @]]

\* Mutant: the seeds go before the queue does.
RemoveSeedFirst ==
    /\ fuzz.pc = "clean"
    /\ IF fuzz.left = {}
       THEN There(queue[DefaultOutput]) = {} /\ fuzz' = NoFuzz /\ UNCHANGED <<seeds, copyOf>>
       ELSE \E n \in fuzz.left :
              /\ seeds' = [seeds EXCEPT ![DefaultSeeds][n] = Absent]
              /\ Outlive(n)
              /\ fuzz' = [fuzz EXCEPT !.left = @ \ {n}]
    /\ UNCHANGED <<queue, bare>>

RemoveSeed ==
    /\ fuzz.pc = "clean"
    /\ There(queue[DefaultOutput]) = {}
    /\ IF fuzz.left = {} THEN fuzz' = NoFuzz /\ UNCHANGED <<seeds, copyOf>>
       ELSE \E n \in fuzz.left :
              /\ seeds' = [seeds EXCEPT ![DefaultSeeds][n] = Absent]
              /\ Outlive(n)
              /\ fuzz' = [fuzz EXCEPT !.left = @ \ {n}]
    /\ UNCHANGED <<queue, bare>>

\* Interrupted: the file that was being written, if any, is left cut short.
InterruptSeeding ==
    /\ fuzz.pc # "idle"
    /\ fuzz' = NoFuzz
    /\ \/ UNCHANGED <<seeds, queue, copyOf>>
       \/ /\ fuzz.pc = "default"
          /\ seeds' = [seeds EXCEPT ![DefaultSeeds][DefaultSeed] = Cut]
          /\ UNCHANGED <<queue, copyOf>>
       \/ /\ fuzz.pc = "draw"
          /\ seeds' = [seeds EXCEPT ![fuzz.dir][GrammarSeed(Len(SetToSeq(fuzz.seen)))] = Cut]
          /\ UNCHANGED <<queue, copyOf>>
       \/ /\ fuzz.pc = "copy"
          /\ \E n \in fuzz.left :
               /\ queue' = [queue EXCEPT ![fuzz.out][n] = Cut]
               /\ copyOf' = [copyOf EXCEPT ![fuzz.out][n] = "cut"]
          /\ UNCHANGED seeds
    /\ UNCHANGED bare

SeedsNext ==
    \/ \E g \in Grammars \union {NoGrammar}, d \in SeedDirs, o \in Outputs, resume \in BOOLEAN :
          StartFuzz(g, d, o, resume)
    \/ WriteDefaultSeed \/ DrawSeed \/ CopySeed \/ EndFuzz
    \/ StartCleaning \/ RemoveFromQueue \/ RemoveSeed
    \/ InterruptSeeding

SeedsSpec == SeedsInit /\ [][SeedsNext]_seedVars

-----------------------------------------------------------------------------
(***************************************************************************)
(* Properties.                                                             *)
(***************************************************************************)

\* Also where expansion was cut at the depth limit, a seed has no non-terminal left
\* in it, if each can be grounded in one step (grammar.py:39-60).  Without that
\* condition the name of a non-terminal may be left in a seed as it is.
SeedsAreConcrete ==
    Grounded(fuzz.grammar) => \A data \in fuzz.seen : Concrete(fuzz.grammar, data)

\* What keeps a file of a queue from being the seed of that name: its copy was
\* cut short, it is a copy out of another seed directory, or clean removed the
\* seed it was copied from and kept the queue, which is not in fuzz-output.
NotItsCopy(o, n, d) ==
    \/ copyOf[o][n] \in {"cut"} \union (SeedDirs \ {d})
    \/ copyOf[o][n] = "outlived" /\ o # DefaultOutput

\* A fuzzer that was not resumed has every seed in its queue, as the seed is now,
\* whatever was interrupted or cleaned before; or a file of its name that is in
\* the way for good, for a copy goes by the name (libfuzzer.py:24-29).  In the
\* queue of fuzz-output none is in the way because of a clean, which empties it
\* before it removes a seed (method_dispatcher.py:828, 837, 881-900).
QueueHoldsSeeds ==
    fuzz.pc = "run" /\ ~fuzz.resume =>
        \A n \in There(seeds[fuzz.dir]) :
            \/ queue[fuzz.out][n] = seeds[fuzz.dir][n]
            \/ NotItsCopy(fuzz.out, n, fuzz.dir)
=============================================================================
