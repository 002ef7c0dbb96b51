----------------------------- MODULE MCAllocator ----------------------------
(***************************************************************************)
(* The allocator on a heap of a few blocks: see MCAllocator.cfg.           *)
(***************************************************************************)
EXTENDS MictAllocator
=============================================================================
