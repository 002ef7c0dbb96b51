---------------------------- MODULE MCNvmeSector ----------------------------
(***************************************************************************)
(* The NVMe driver on a drive whose logical block is smaller than IO_BUF,  *)
(* as QEMU's nvme device is without logical_block_size: see the cfg.  The  *)
(* history variable remembers the buffers that were written successfully.  *)
(***************************************************************************)
EXTENDS NvmeQueue

VARIABLE written  \* [Lbas -> the buffer last written, NoBlock if unknown]

WriteReturns == FinishIo /\ cur.op = "write"

HistInit == Init /\ written = [l \in Lbas |-> NoBlock]

HistNext ==
    /\ Next
    /\ written' = IF WriteReturns
                  THEN [written EXCEPT ![cur.lba] = IF reply'.ok THEN buf ELSE NoBlock]
                  ELSE written

HistSpec == HistInit /\ [][HistNext]_<<vars, written>>

\* IO_BUF is "the physical 4KB landing pad for Reading/Writing real files": a
\* successful read_block gives back the whole buffer that the last write_block
\* of that LBA was told had been written.
WholeBufferReadsBack ==
    pc = "idle" /\ cur.op = "read" /\ reply.ok /\ written[cur.lba] # NoBlock =>
        reply.data = written[cur.lba]
=============================================================================
