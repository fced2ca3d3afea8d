------------------------------ MODULE CallGraph ------------------------------
(***************************************************************************)
(* The call tree of an introspection report: the walk wuxi makes over the  *)
(* call graph of the bitcode from an entry point                           *)
(* (introspector/src/CallGraphWalker.cpp), and the merge of the walks of   *)
(* several entry points (generate_introspect).                             *)
(***************************************************************************)
EXTENDS Naturals, Sequences, FiniteSets, SequencesExt

CONSTANTS
    Graphs,     \* call graphs: function |-> its call sites, in order
    Entries,    \* sequences of entry points a user asks for
    ShallowDepth    \* how deep a function is shown that was visited before: 3

\* A call site has a callee, NoFunction if it is called through a pointer, and the
\* line it is on, NoLine if the bitcode has no debug location for it.
NoFunction == "no function"
NoLine == 0
ASSUME ShallowAssumption == ShallowDepth \in Nat

\* A bitcode has finitely many functions, and a callee is one of them.
IsCallGraph(g) ==
    /\ IsFiniteSet(DOMAIN g) /\ NoFunction \notin DOMAIN g
    /\ \A f \in DOMAIN g :
         /\ g[f] \in Seq(Range(g[f]))
         /\ \A i \in DOMAIN g[f] : g[f][i].callee \in DOMAIN g \union {NoFunction}
ASSUME GraphAssumption == \A g \in Graphs : IsCallGraph(g)

VARIABLES
    graph,      \* the call graph of the bitcode
    entries,    \* the entry points that are left
    stack,      \* the frames of walkNode: a function, and the sites it has done
    visited,    \* the functions that were visited in this walk
    edges,      \* the call edges of this walk, in the order they are recorded
    functions,  \* the functions this walk describes
    mergedEdges,        \* the edges of the report
    mergedFunctions     \* the functions of the report

walkVars == <<graph, entries, stack, visited, edges, functions, mergedEdges, mergedFunctions>>

Callees(g, f) == {g[f][i].callee : i \in DOMAIN g[f]} \ {NoFunction}

WalkInit ==
    /\ graph = [f \in {} |-> <<>>] /\ entries = <<>>
    /\ stack = <<>> /\ visited = {} /\ edges = <<>> /\ functions = {}
    /\ mergedEdges = <<>> /\ mergedFunctions = {}

-----------------------------------------------------------------------------
(***************************************************************************)
(* CallGraphWalker.                                                        *)
(***************************************************************************)

\* The functions shallowNode describes: those up to depth calls away.
Shallow(f, depth) ==
    LET s[d \in 0 .. depth] ==
          IF d = 0 THEN {f} ELSE s[d - 1] \union UNION {Callees(graph, h) : h \in s[d - 1]}
    IN s[depth]

Frame(f) == [function |-> f, done |-> 0]

\* Of an entry that is no function of the bitcode wuxi makes an empty result, and
\* ends as if all was well.
StartWalk ==
    /\ entries # <<>> /\ stack = <<>>
    /\ IF entries[1] \in DOMAIN graph THEN
          /\ stack' = <<Frame(entries[1])>>
          /\ visited' = {entries[1]}
          /\ functions' = {entries[1]}
          /\ entries' = entries
       ELSE
          /\ entries' = Tail(entries)
          /\ UNCHANGED <<stack, visited, functions>>
    /\ UNCHANGED <<graph, edges, mergedEdges, mergedFunctions>>

Top == stack[Len(stack)]
NextSite == graph[Top.function][Top.done + 1]
AtSite == stack # <<>> /\ Top.done < Len(graph[Top.function])
Counted == [stack EXCEPT ![Len(stack)].done = @ + 1]

Edge(caller, site) == [caller |-> caller, callee |-> site.callee, line |-> site.line]

\* A call through a pointer has no callee node: nothing is recorded of it.
SkipSite ==
    /\ AtSite /\ NextSite.callee = NoFunction
    /\ stack' = Counted
    /\ UNCHANGED <<graph, entries, visited, edges, functions, mergedEdges, mergedFunctions>>

\* The callee is walked first; the edge of the site is recorded after that.
EnterSite ==
    /\ AtSite /\ NextSite.callee \notin visited \union {NoFunction}
    /\ stack' = Append(stack, Frame(NextSite.callee))
    /\ visited' = visited \union {NextSite.callee}
    /\ functions' = functions \union {NextSite.callee}
    /\ UNCHANGED <<graph, entries, edges, mergedEdges, mergedFunctions>>

Recorded(caller, site) ==
    IF site.line = NoLine THEN edges ELSE Append(edges, Edge(caller, site))

\* The innermost function has no sites left: its caller goes on.
LeaveFunction ==
    /\ Len(stack) > 1 /\ ~AtSite
    /\ LET below == stack[Len(stack) - 1]
           site == graph[below.function][below.done + 1]
       IN /\ edges' = Recorded(below.function, site)
          /\ stack' = [SubSeq(stack, 1, Len(stack) - 1) EXCEPT ![Len(stack) - 1].done = @ + 1]
    /\ UNCHANGED <<graph, entries, visited, functions, mergedEdges, mergedFunctions>>

\* Mutant: no edge to a function that was visited before.
RevisitUnrecorded ==
    /\ AtSite /\ NextSite.callee \in visited
    /\ functions' = functions \union Shallow(NextSite.callee, ShallowDepth)
    /\ stack' = Counted
    /\ UNCHANGED <<graph, entries, visited, edges, mergedEdges, mergedFunctions>>

\* A function that was visited before is shown shallow, and the edge is recorded.
Revisit ==
    /\ AtSite /\ NextSite.callee \in visited
    /\ functions' = functions \union Shallow(NextSite.callee, ShallowDepth)
    /\ edges' = Recorded(Top.function, NextSite)
    /\ stack' = Counted
    /\ UNCHANGED <<graph, entries, visited, mergedEdges, mergedFunctions>>

-----------------------------------------------------------------------------
(***************************************************************************)
(* generate_introspect: the walks are merged, an edge once for each caller,*)
(* callee and line.                                                        *)
(***************************************************************************)
MergeWalk ==
    /\ Len(stack) = 1 /\ ~AtSite
    /\ mergedEdges' = FoldLeft(LAMBDA done, e : IF e \in Range(done) THEN done ELSE Append(done, e),
                               mergedEdges, edges)
    /\ mergedFunctions' = mergedFunctions \union functions
    /\ entries' = Tail(entries)
    /\ stack' = <<>> /\ visited' = {} /\ edges' = <<>> /\ functions' = {}
    /\ UNCHANGED graph

\* An introspection, of any bitcode.
Introspect ==
    /\ DOMAIN graph = {}
    /\ graph' \in Graphs /\ entries' \in Entries
    /\ UNCHANGED <<stack, visited, edges, functions, mergedEdges, mergedFunctions>>

\* The report is written.
WriteReport ==
    /\ DOMAIN graph # {} /\ entries = <<>>
    /\ graph' = [f \in {} |-> <<>>]
    /\ mergedEdges' = <<>> /\ mergedFunctions' = {}
    /\ UNCHANGED <<entries, stack, visited, edges, functions>>

WalkNext ==
    \/ Introspect \/ StartWalk
    \/ SkipSite \/ EnterSite \/ LeaveFunction \/ Revisit
    \/ MergeWalk \/ WriteReport

WalkSpec == WalkInit /\ [][WalkNext]_walkVars

-----------------------------------------------------------------------------
\* The functions that can be reached from one: the reference definition.
Reachable(f) == Shallow(f, Cardinality(DOMAIN graph))

Sites(f) == {Edge(f, site) : site \in {s \in Range(graph[f]) :
                                         s.callee # NoFunction /\ s.line # NoLine}}

\* When a walk ends it has described the functions that can be reached from its
\* entry, and recorded each of their call sites once: recursion, shared callees and
\* the shallow copies of visited functions repeat and lose none
\* (CallGraphWalker.cpp:44-112).  Calls through pointers are not in it.
WalkIsComplete ==
    Len(stack) = 1 /\ ~AtSite =>
        LET reached == Reachable(stack[1].function)
            Times(e) == Cardinality({i \in DOMAIN edges : edges[i] = e})
            SiteCount(e) == Cardinality({i \in DOMAIN graph[e.caller] :
                                Edge(e.caller, graph[e.caller][i]) = e})
        IN /\ functions = reached
           /\ Range(edges) = UNION {Sites(f) : f \in reached}
           /\ \A e \in Range(edges) : Times(e) = SiteCount(e)
=============================================================================
