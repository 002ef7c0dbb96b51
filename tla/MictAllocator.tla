--------------------------- MODULE MictAllocator ----------------------------
(***************************************************************************)
(* The kernel's global allocator (allocator/mict_global_allocator.rs): a   *)
(* bitmap, the heatmap, with one bit per 64-byte block of the heap.  alloc *)
(* scans it for the first aligned run of cold blocks and marks the run     *)
(* hot; dealloc marks it cold again.                                       *)
(*                                                                         *)
(* alloc and dealloc run with interrupts disabled and the lock held, so    *)
(* nothing else runs while a scan is under way.  The scan is a step for    *)
(* each round of its loop, which is what the loop invariants are about.    *)
(***************************************************************************)
EXTENDS Integers

CONSTANTS
    HeapSizes,  \* sizes init may be called with, bytes (the kernel: HEAP_SIZE)
    MapBlocks,  \* MAX_HEAP_BLOCKS: bits in the heatmap
    Sizes,      \* layout sizes callers ask for, bytes
    Aligns      \* layout alignments callers ask for, powers of two

BLOCK_SIZE == 64

ASSUME HeapAssumption == HeapSizes \subseteq Nat /\ MapBlocks \in Nat
ASSUME LayoutAssumption == Sizes \subseteq Nat \ {0} /\ Aligns \subseteq Nat \ {0}
\* What powers of two have: each divides the block size or is a multiple of it.
ASSUME AlignAssumption ==
    \A a \in Aligns : \/ \E k \in 1 .. BLOCK_SIZE : BLOCK_SIZE = a * k
                      \/ \E k \in 1 .. a : a = BLOCK_SIZE * k

VARIABLES
    heapSize,   \* heap_size: 0 until init
    hot,        \* heatmap: the blocks whose bit is set
    live,       \* what callers hold: [block, size, align] of each allocation
    pc,         \* "idle", or "scan" inside alloc
    size, align,          \* the layout being served
    i, run, start,        \* i, current_consecutive, start_bit_idx
    answer,     \* of the last alloc: "none", "granted" or "null"
    panicked    \* an index past the heatmap array

vars == <<heapSize, hot, live, pc, size, align, i, run, start, answer, panicked>>
scanVars == <<i, run, start>>

\* Mutation of BlocksFor: the size is rounded down.
RoundDown(n) == n \div BLOCK_SIZE
\* Blocks that n bytes take (blocks_needed, blocks_to_free).
BlocksFor(n) == (n + BLOCK_SIZE - 1) \div BLOCK_SIZE

AlignBlocks(a) == IF a > BLOCK_SIZE THEN a \div BLOCK_SIZE ELSE 1

total == heapSize \div BLOCK_SIZE
BlocksOf(r) == r.block .. r.block + BlocksFor(r.size) - 1

Init ==
    /\ heapSize = 0 /\ hot = {} /\ live = {} /\ pc = "idle"
    /\ size = 0 /\ align = 1
    /\ i = 0 /\ run = 0 /\ start = 0
    /\ answer = "none" /\ panicked = FALSE

\* init, called once by init_heap when the heap's pages are mapped.
InitHeap(h) ==
    /\ pc = "idle" /\ ~panicked /\ heapSize = 0
    /\ heapSize' = h /\ answer' = "none"
    /\ UNCHANGED <<hot, live, pc, size, align, scanVars, panicked>>

\* alloc: compute the block counts and start the scan.
Alloc(n, a) ==
    /\ pc = "idle" /\ ~panicked
    /\ size' = n /\ align' = a
    /\ i' = 0 /\ run' = 0 /\ start' = 0
    /\ pc' = "scan" /\ answer' = "none"
    /\ UNCHANGED <<heapSize, hot, live, panicked>>

\* Mutation of Unaligned: the alignment test is gone.
NeverUnaligned == FALSE
\* current_consecutive == 0 && (i % align_blocks) != 0
Unaligned == run = 0 /\ i % AlignBlocks(align) # 0

\* Mutation of Scanning: the loop looks at one block too many.
ScanningPastEnd == pc = "scan" /\ ~panicked /\ i <= total
Scanning == pc = "scan" /\ ~panicked /\ i < total

\* continue
SkipBlock ==
    /\ Scanning /\ Unaligned
    /\ i' = i + 1
    /\ UNCHANGED <<heapSize, hot, live, pc, size, align, run, start, answer, panicked>>

\* is_hot indexes the array; past its end that is a panic.
OutOfMap ==
    /\ Scanning /\ ~Unaligned /\ i >= MapBlocks
    /\ panicked' = TRUE
    /\ UNCHANGED <<heapSize, hot, live, pc, size, align, scanVars, answer>>

\* Mutation of HotBlock: the run is not reset.
HotBlockKeepsRun ==
    /\ Scanning /\ ~Unaligned /\ i < MapBlocks /\ i \in hot
    /\ i' = i + 1
    /\ UNCHANGED <<heapSize, hot, live, pc, size, align, run, start, answer, panicked>>

\* A hot block ends the run.
HotBlock ==
    /\ Scanning /\ ~Unaligned /\ i < MapBlocks /\ i \in hot
    /\ run' = 0 /\ i' = i + 1
    /\ UNCHANGED <<heapSize, hot, live, pc, size, align, start, answer, panicked>>

ColdBlock == Scanning /\ ~Unaligned /\ i < MapBlocks /\ i \notin hot
runStart == IF run = 0 THEN i ELSE start

\* A cold block makes the run longer ...
ExtendRun ==
    /\ ColdBlock /\ run + 1 # BlocksFor(size)
    /\ start' = runStart /\ run' = run + 1 /\ i' = i + 1
    /\ UNCHANGED <<heapSize, hot, live, pc, size, align, answer, panicked>>

\* ... until it is long enough: mark it and return its address.
Grant ==
    /\ ColdBlock /\ run + 1 = BlocksFor(size)
    /\ start' = runStart /\ run' = run + 1
    /\ hot' = hot \cup (runStart .. runStart + BlocksFor(size) - 1)
    /\ live' = live \cup {[block |-> runStart, size |-> size, align |-> align]}
    /\ pc' = "idle" /\ answer' = "granted"
    /\ UNCHANGED <<heapSize, size, align, i, panicked>>

\* Mutation of ReturnNull: the loop ends before the last block.
ReturnNullEarly ==
    /\ pc = "scan" /\ ~panicked /\ i + 1 >= total
    /\ pc' = "idle" /\ answer' = "null"
    /\ UNCHANGED <<heapSize, hot, live, size, align, scanVars, panicked>>

\* The loop ends without a run: null_mut().
ReturnNull ==
    /\ pc = "scan" /\ ~panicked /\ i >= total
    /\ pc' = "idle" /\ answer' = "null"
    /\ UNCHANGED <<heapSize, hot, live, size, align, scanVars, panicked>>

\* Mutation of Dealloc: one block more than the layout has is marked cold.
DeallocOneMore(r) ==
    /\ pc = "idle" /\ ~panicked
    /\ hot' = hot \ (r.block .. r.block + BlocksFor(r.size))
    /\ live' = live \ {r} /\ answer' = "none"
    /\ UNCHANGED <<heapSize, pc, size, align, scanVars, panicked>>

\* dealloc with the pointer and the layout of a live allocation; an address
\* outside the heap would be a panic.
Dealloc(r) ==
    /\ pc = "idle" /\ ~panicked
    /\ IF r.block * BLOCK_SIZE >= heapSize
         THEN panicked' = TRUE /\ UNCHANGED <<hot, live, answer>>
         ELSE /\ hot' = hot \ BlocksOf(r)
              /\ live' = live \ {r} /\ answer' = "none"
              /\ UNCHANGED panicked
    /\ UNCHANGED <<heapSize, pc, size, align, scanVars>>

Next ==
    \/ \E h \in HeapSizes : InitHeap(h)
    \/ \E n \in Sizes, a \in Aligns : Alloc(n, a)
    \/ SkipBlock \/ OutOfMap \/ HotBlock \/ ExtendRun \/ Grant \/ ReturnNull
    \/ \E r \in live : Dealloc(r)

Spec == Init /\ [][Next]_vars

-----------------------------------------------------------------------------
(* Properties.                                                             *)

Layouts == [block : Nat, size : Sizes, align : Aligns]

\* Every variable has its type; the heatmap marks blocks of the heap only.
TypeOK ==
    /\ heapSize \in HeapSizes \cup {0}
    /\ hot \subseteq 0 .. total - 1 /\ live \subseteq Layouts
    /\ pc \in {"idle", "scan"}
    /\ size \in Sizes \cup {0} /\ align \in Aligns \cup {1}
    /\ i \in Nat /\ run \in Nat /\ start \in Nat
    /\ answer \in {"none", "granted", "null"} /\ panicked \in BOOLEAN

FirstByte(r) == r.block * BLOCK_SIZE
LastByte(r) == FirstByte(r) + r.size - 1

\* Callers get memory of their own: no two live allocations share a byte, and
\* each lies inside the heap.
NoOverlap ==
    /\ \A r \in live : LastByte(r) < heapSize
    /\ \A r, q \in live :
         r # q => LastByte(r) < FirstByte(q) \/ LastByte(q) < FirstByte(r)

\* The heatmap is exact: a block is hot if and only if a live allocation holds
\* it.  A leak, a double use and a stale bit all break it.
HeatmapExact == hot = UNION {BlocksOf(r) : r \in live}

\* A request the heap can hold: an aligned run of cold blocks.
Fits(b, n, a) ==
    /\ b % AlignBlocks(a) = 0
    /\ b + BlocksFor(n) <= total
    /\ \A j \in b .. b + BlocksFor(n) - 1 : j \notin hot

\* alloc gives up only when there really is no room for the layout.
NullMeansFull == answer = "null" => \A b \in 0 .. total : ~Fits(b, size, align)

\* A pointer meets the alignment that was asked for (HEAP_START is a multiple
\* of every alignment used).
GrantsAligned == \A r \in live : FirstByte(r) % r.align = 0

-----------------------------------------------------------------------------
(* The inductive invariant behind NoOverlap, HeatmapExact, NullMeansFull.  *)

\* Blocks of different allocations differ, and the map holds just these.
HeapInv ==
    /\ \A r \in live : r.block + BlocksFor(r.size) <= total
    /\ \A r, q \in live : r # q => BlocksOf(r) \cap BlocksOf(q) = {}
    /\ hot = UNION {BlocksOf(r) : r \in live}

\* The run counted so far is cold, ends just before i, and is too short; no
\* aligned block before it starts a run that would do.
ScanInv ==
    pc = "scan" =>
        /\ size \in Sizes /\ align \in Aligns
        /\ i <= total /\ run < BlocksFor(size)
        /\ run > 0 => start + run = i /\ \A j \in start .. i - 1 : j \notin hot
        /\ \A b \in 0 .. (IF run > 0 THEN start ELSE i) - 1 : ~Fits(b, size, align)

AllocInv == TypeOK /\ HeapInv /\ ScanInv /\ NullMeansFull

\* Behind GrantsAligned: a run starts at an aligned block, and stays there
\* while it grows over blocks that are not aligned.
AlignInv ==
    /\ pc = "scan" /\ run > 0 => start % AlignBlocks(align) = 0
    /\ \A r \in live : r.block % AlignBlocks(r.align) = 0
=============================================================================
