---------------------------- MODULE MCWorkQueue ----------------------------
(***************************************************************************)
(* WorkQueue on a small instance: a boot processor that submits and one     *)
(* application processor whose work functions submit as well, rings of two  *)
(* items, and enough calls to fill and to wrap one.                        *)
(***************************************************************************)
EXTENDS WorkQueue
=============================================================================
