---------------------------- MODULE MCAlgorithms ----------------------------
(***************************************************************************)
(* The parts that work on data by themselves, checked in one run: a        *)
(* behaviour is of one of them.                                            *)
(***************************************************************************)
EXTENDS Seeds, AjpResponses, CallGraph, ConfLines

CONSTANT MaxCommands   \* bound: how many fuzz and clean commands there are

VARIABLES
    part,       \* the part this behaviour is of
    commands    \* how many fuzz and clean commands were started

MCInit ==
    /\ commands = 0
    /\ part \in {"seeds", "ajp", "walk", "conf"}
    /\ SeedsInit /\ AjpInit /\ WalkInit /\ ConfInit

\* The last command is over.
NoMoreCommands ==
    /\ part = "seeds" /\ fuzz.pc = "idle" /\ commands = MaxCommands
    /\ UNCHANGED <<seedVars, ajpVars, walkVars, confVars, commands>>

MCNext ==
    /\ \/ /\ part = "seeds" /\ SeedsNext /\ UNCHANGED <<ajpVars, walkVars, confVars>>
          /\ commands' = IF fuzz.pc = "idle" THEN commands + 1 ELSE commands
          /\ commands' <= MaxCommands
       \/ NoMoreCommands
       \/ part = "ajp" /\ AjpNext /\ UNCHANGED <<seedVars, walkVars, confVars, commands>>
       \/ part = "walk" /\ WalkNext /\ UNCHANGED <<seedVars, ajpVars, confVars, commands>>
       \/ part = "conf" /\ ConfNext /\ UNCHANGED <<seedVars, ajpVars, walkVars, commands>>
    /\ UNCHANGED part

MCSpec == MCInit /\ [][MCNext]_<<part, commands, seedVars, ajpVars, walkVars, confVars>>

-----------------------------------------------------------------------------
\* A grammar that can be grounded, with a cycle; and one that cannot.
MCGrammars ==
    { ("<A>" :> <<<<"<B>", "<A>">>, <<"<B>">>, <<"x", "y", "z">>>>) @@
      ("<B>" :> <<<<"<A>">>, <<"a", "b">>>>),
      ("<A>" :> <<<<"<B>", "c">>>>) @@ ("<B>" :> <<<<"<C>">>>>) @@ ("<C>" :> <<<<"<B>">>>>) }

\* A directory of the user, with a file named like the seed that is made up.
MCUserSeeds == ("fuzz-seeds" :> NoFiles) @@
               ("my-seeds" :> [NoFiles EXCEPT ![DefaultSeed] = Own])

\* Strings around the largest length that a length of LenMod can say.
String(n) == [i \in 1 .. n |-> 97]
MCStrings == {String(n) : n \in {0, 1, 251, 252, 255, 256}}
Headers(s) == {<<>>, <<[code |-> 1, name |-> <<>>, value |-> s]>>,
               <<[code |-> 0, name |-> String(2), value |-> s],
                 [code |-> 11, name |-> <<>>, value |-> String(1)]>>}
MCResponses ==
    UNION {{[cpong |-> cpong, status |-> 200, msg |-> msg, headers |-> headers,
             chunks |-> chunks, reuse |-> ~cpong] :
              cpong \in BOOLEAN, msg \in {String(0), String(2), String(247)},
              headers \in Headers(s), chunks \in {<<>>, <<s>>, <<String(1), <<>>, s>>}} :
           s \in MCStrings}

Site(callee, line) == [callee |-> callee, line |-> line]
\* Call graphs of three functions: up to two sites each, on lines or not.
MCSites == {Site("f", 1), Site("g", 1), Site("h", 2), Site(NoFunction, 3), Site("g", NoLine)}
MCGraphs == [{"f", "g", "h"} -> {<<>>} \union {<<s>> : s \in MCSites}
                                 \union {<<s, t>> : s \in {Site("f", 1), Site("h", 2)}, t \in MCSites}]
MCEntries == {<<"f">>, <<"g", "f">>, <<"f", "missing">>}

MCFiles == {<<>>} \union BoundedSeq({"x", "n"}, 6)
=============================================================================
