------------------------- MODULE MCExternalModules -------------------------
(***************************************************************************)
(* A small instance of ExternalModules: two terminals.                     *)
(***************************************************************************)
EXTENDS ExternalModules

MCObjects == <<"fuzz_harness.lo", "fuzz_common.lo">>
=============================================================================
