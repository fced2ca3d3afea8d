------------------------------ MODULE MCReports ------------------------------
(***************************************************************************)
(* A small instance of Reports: two harnesses of two objects each, and the *)
(* layouts a corpus can have.                                              *)
(***************************************************************************)
EXTENDS Reports

MCObjects == <<"fuzz_harness.lo", "fuzz_common.lo">>

Corpus(dirs, files) == [dirs |-> dirs, files |-> files]
Fuzzed(i) == {<<i, "queue">>, <<i, "crashes">>}
MCCorpora ==
    { Corpus(Fuzzed("default") \union Fuzzed("second") \union Fuzzed("."),
             {<<"default", "queue">>, <<"second", "queue">>, <<"second", "crashes">>}),
      Corpus({<<".", "own crashes">>}, {<<".", "own crashes">>}) }

\* Every command together with those whose files it reads or writes.
MCPlans ==
    { {"link", "coverage", "make"},
      {"clean", "coverage", "make"},
      {"introspect", "coverage", "make"},
      {"profile", "link"},
      {"profile", "clean"} }
=============================================================================
