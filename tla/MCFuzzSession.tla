--------------------------- MODULE MCFuzzSession ---------------------------
(***************************************************************************)
(* Small instances of FuzzSession.                                         *)
(***************************************************************************)
EXTENDS FuzzSession
=============================================================================
