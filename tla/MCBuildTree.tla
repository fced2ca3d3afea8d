---------------------------- MODULE MCBuildTree ----------------------------
(***************************************************************************)
(* Instances of BuildTree for TLC.                                         *)
(***************************************************************************)
EXTENDS BuildTree, TLC

\* Configurations are interchangeable; so are compilers.
Symmetry == Permutations(Configs) \cup Permutations(Compilers)

=============================================================================
