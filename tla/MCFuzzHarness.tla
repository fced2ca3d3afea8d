--------------------------- MODULE MCFuzzHarness ---------------------------
(***************************************************************************)
(* A small instance of FuzzHarness: three test cases in a row, the         *)
(* upstream responses they meet, and two workers that keep connections.    *)
(***************************************************************************)
EXTENDS FuzzHarness

MCByte == {"a", "b", "n"}

MCTestCases == {<<>>, <<"b", "n", "a">>}

\* Nothing, a line, a line without its end longer than what is read at a time.
MCResponses == {<<>>, <<"a", "n">>, <<"b", "a", "n", "a">>}
=============================================================================
