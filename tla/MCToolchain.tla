----------------------------- MODULE MCToolchain -----------------------------
(***************************************************************************)
(* A small instance of Toolchain: two versions of LLVM, of which PATH      *)
(* calls the older one by the names without a version.                     *)
(***************************************************************************)
EXTENDS Toolchain, TLC

ProcSymmetry == Permutations(Procs)

\* Nothing, or the newer compiler and the older tools.
MCInitialDisks ==
    {{}, Package("clang", 18) \union Package("llvm-profdata", 17) \union {InPath(<<"llvm-profdata", 0>>)}}
=============================================================================
