---------------------------- MODULE MCFuzzInput ----------------------------
(***************************************************************************)
(* Small instances of FuzzInput: test cases of up to six bytes, the byte   *)
(* "n" a line end.                                                         *)
(***************************************************************************)
EXTENDS FuzzInput

MCByte == {"a", "b", "n"}

\* Nothing; one line, ended or not; a line longer than the longest; two
\* lines; a request and the rest; three requests, the last without its end.
MCTestCases ==
    {<<>>,
     <<"a">>,
     <<"a", "n">>,
     <<"a", "b", "a", "b">>,
     <<"b", "n", "a", "n">>,
     <<"a", "n", "n", "b">>,
     <<"n", "n", "a", "n", "n", "b">>,
     <<"b", "n", "n", "n", "n", "n", "a">>}
=============================================================================
