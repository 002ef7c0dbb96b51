---------------------------- MODULE MCFileSystem ----------------------------
(***************************************************************************)
(* The file system on a disk of a few blocks: see MCFileSystem*.cfg.       *)
(***************************************************************************)
EXTENDS MictFileSystem
=============================================================================
