----------------------------- MODULE MCNvmSched -----------------------------
(***************************************************************************)
(* NvmSched with two processes and the shell.                              *)
(***************************************************************************)
EXTENDS NvmSched
=============================================================================
