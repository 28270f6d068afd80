----------------------------- MODULE MCNvmProc -----------------------------
(***************************************************************************)
(* NvmProc on a small instance.  Blocks are interchangeable.               *)
(***************************************************************************)
EXTENDS NvmProc, TLC

BlockSymmetry == Permutations(Blocks)
=============================================================================
