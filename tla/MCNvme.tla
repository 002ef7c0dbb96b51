------------------------------- MODULE MCNvme -------------------------------
(***************************************************************************)
(* The NVMe driver with short queues, so that they wrap: see MCNvme*.cfg.  *)
(***************************************************************************)
EXTENDS NvmeQueue
=============================================================================
