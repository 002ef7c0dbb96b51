--------------------------- MODULE FrameAllocator ---------------------------
(***************************************************************************)
(* Physical memory at boot (memory.rs): BootInfoFrameAllocator deals the   *)
(* usable frames of the bootloader's map one after another and never takes *)
(* one back; map_mmio spends some on page tables; allocate_dma_frames asks *)
(* for several in a row and hands them out as one run from the first.      *)
(*                                                                         *)
(* Boot runs on one CPU and no interrupt handler asks for a frame, so each *)
(* operation is one step.                                                  *)
(***************************************************************************)
EXTENDS Integers, Sequences, FiniteSets

CONSTANTS
    Usable,     \* frame numbers of the usable regions, as usable_frames yields them
    MaxTables   \* page tables that one new mapping can need (3)

\* The map lists its regions in ascending order and they do not overlap; there
\* may be gaps between them.
ASSUME UsableAssumption ==
    /\ Usable \in Seq(Nat)
    /\ \A i, j \in 1..Len(Usable) : i <= j => Usable[i] + (j - i) <= Usable[j]
ASSUME TablesAssumption == MaxTables \in Nat

VARIABLES
    next,       \* frames asked for so far
    claims,     \* the runs handed out, in order: [first, pages]
    mapped,     \* pages with an entry in the page tables
    granted     \* what the last call returned: "ok", "none" or "mapped"

memVars == <<next, claims, mapped, granted>>

Claims == [first : Nat, pages : Nat]
Left == IF next < Len(Usable) THEN Len(Usable) - next ELSE 0
-----------------------------------------------------------------------------
MemInit == next = 0 /\ claims = <<>> /\ mapped = {} /\ granted = "ok"

\* n calls of allocate_frame of which the caller gives up at the first None.
\* The cursor moves on a None too.
AllocateFrames(n) == next' = next + (IF n <= Left THEN n ELSE Left + 1)

\* Frames taken one at a time, each used for itself.
Singles(n) == [k \in 1..n |-> [first |-> Usable[next + k], pages |-> 1]]

\* Mutation of Rest: the last page is not reserved.
RestShort(pages) == IF pages > 2 THEN pages - 2 ELSE 0

\* The frames reserved behind the first.
Rest(pages) == pages - 1

\* allocate_dma_frames: a run that starts at the first frame.  When the map
\* ends in the middle, the frames already taken stay taken.
AllocateDmaFrames(pages) ==
    /\ AllocateFrames(1 + Rest(pages))
    /\ UNCHANGED mapped
    /\ IF pages <= Left
       THEN /\ claims' = Append(claims, [first |-> Usable[next + 1], pages |-> pages])
            /\ granted' = "ok"
       ELSE UNCHANGED claims /\ granted' = "none"

\* n requests for one frame each, up to the first that fails.
AllocateSingles(n) ==
    /\ AllocateFrames(n)
    /\ claims' = claims \o Singles(IF n <= Left THEN n ELSE Left)
    /\ granted' = IF n <= Left THEN "ok" ELSE "none"

\* map_mmio, page by page.  The page tables a region needs are all made for its
\* first page, for no region the kernel maps crosses 2 MiB: a table that cannot
\* be had is an error before any page is mapped.  A page with an entry is an
\* error too; its tables are there, and the pages before it stay mapped.
MapMmio(region, tables) ==
    LET taken == region \cap mapped
    IN  IF taken # {}
        THEN /\ granted' = "mapped" /\ UNCHANGED <<next, claims>>
             /\ mapped' = mapped \cup {p \in region : \A q \in taken : p < q}
        ELSE /\ AllocateSingles(tables)
             /\ mapped' = IF tables <= Left THEN mapped \cup region ELSE mapped

\* init_heap: a frame for every page of the heap, and the tables to map them.
\* After an error the kernel panics, and what it has mapped does not matter.
InitHeap(heap, tables) ==
    /\ AllocateSingles(Cardinality(heap) + tables)
    /\ mapped' = IF Cardinality(heap) + tables <= Left THEN mapped \cup heap ELSE mapped

MemStep ==
    \/ \E pages \in Nat \ {0} : AllocateDmaFrames(pages)
    \/ \E tables \in 0..MaxTables : \E region : MapMmio(region, tables)
    \/ \E tables \in 0..MaxTables : \E heap : IsFiniteSet(heap) /\ InitHeap(heap, tables)
    \/ \E n \in Nat : AllocateSingles(n) /\ UNCHANGED mapped

MemSpec == MemInit /\ [][MemStep]_memVars
-----------------------------------------------------------------------------
MemTypeOK ==
    /\ next \in Nat /\ claims \in Seq(Claims)
    /\ granted \in {"ok", "none", "mapped"}

Frames(c) == c.first..(c.first + c.pages - 1)

\* No frame is in use twice: neither by two drivers for DMA nor by a driver and
\* the page tables or the heap.  A driver takes pages consecutive frames from
\* the first for its own, whatever frames the allocator dealt after the first,
\* so this rests on the order in which the map lists them (memory.rs, lines
\* 120 to 148).
RunsDisjoint ==
    \A i, j \in 1..Len(claims) :
        i # j => Frames(claims[i]) \cap Frames(claims[j]) = {}
=============================================================================
