----------------------------- MODULE MCExecutor -----------------------------
(***************************************************************************)
(* The executor on a small machine: see MCExecutor*.cfg for the instances. *)
(***************************************************************************)
EXTENDS MictExecutor
=============================================================================
