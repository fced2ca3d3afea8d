---------------------------- MODULE MCWorkspace ----------------------------
(***************************************************************************)
(* A small instance of Workspace: two versions of httpd, of which one is   *)
(* the default, and a bug in each; the setup of one checks sizes.          *)
(***************************************************************************)
EXTENDS Workspace

MCBugHarness == [b \in Bugs |-> "mod_fuzzy"]
MCBugVersion == [b \in Bugs |-> IF b = "sed" THEN "new" ELSE "old"]
=============================================================================
