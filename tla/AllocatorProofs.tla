-------------------------- MODULE AllocatorProofs ---------------------------
(***************************************************************************)
(* Theorems about MictAllocator, for every heap size, every heatmap size   *)
(* and every set of layouts.                                               *)
(***************************************************************************)
EXTENDS MictAllocator, TLAPS

\* Rounding up to blocks loses no byte and gives at least one block.
LEMMA BlocksForFacts ==
    ASSUME NEW n \in Sizes
    PROVE  /\ n \in Nat /\ n > 0
           /\ BlocksFor(n) \in Nat /\ BlocksFor(n) > 0
           /\ n <= BlocksFor(n) * 64
BY LayoutAssumption DEF BlocksFor, BLOCK_SIZE

LEMMA TotalFacts ==
    ASSUME heapSize \in HeapSizes \cup {0}
    PROVE  heapSize \in Nat /\ total \in Nat /\ total * 64 <= heapSize
BY HeapAssumption DEF total, BLOCK_SIZE

LEMMA InitInv == Init => AllocInv
<1> SUFFICES ASSUME Init PROVE AllocInv
  OBVIOUS
<1>1. TypeOK
  BY DEF Init, TypeOK, total, BLOCK_SIZE
<1>2. HeapInv /\ ScanInv /\ NullMeansFull
  BY DEF Init, HeapInv, ScanInv, NullMeansFull
<1> QED BY <1>1, <1>2 DEF AllocInv

LEMMA InitHeapInv ==
    ASSUME AllocInv, NEW h \in HeapSizes, InitHeap(h)
    PROVE  AllocInv'
<1> USE DEF AllocInv, InitHeap, scanVars
<1>1. total = 0 /\ total' \in Nat
  BY HeapAssumption DEF total, BLOCK_SIZE
<1>2. live = {}
  <2>1. ASSUME NEW r \in live PROVE FALSE
    BY <1>1, BlocksForFacts DEF HeapInv, TypeOK, Layouts
  <2> QED BY <2>1
<1>3. TypeOK'
  <2>1. hot = {}
    BY <1>2 DEF HeapInv
  <2> QED BY <1>1, <2>1 DEF TypeOK
<1>4. HeapInv' /\ ScanInv' /\ NullMeansFull'
  BY <1>2 DEF HeapInv, ScanInv, NullMeansFull, BlocksOf
<1> QED BY <1>3, <1>4

LEMMA AllocStepInv ==
    ASSUME AllocInv, NEW n \in Sizes, NEW a \in Aligns, Alloc(n, a)
    PROVE  AllocInv'
<1> USE DEF AllocInv, Alloc
<1>1. TypeOK'
  BY DEF TypeOK, total
<1>2. HeapInv'
  BY DEF HeapInv, total, BlocksOf
<1>3. ScanInv' /\ NullMeansFull'
  BY TotalFacts, BlocksForFacts DEF ScanInv, NullMeansFull, TypeOK, total
<1> QED BY <1>1, <1>2, <1>3

-----------------------------------------------------------------------------
(* The rounds of the scan.                                                 *)

\* What a round of the scan may use of the invariant.
LEMMA ScanFacts ==
    ASSUME AllocInv, pc = "scan"
    PROVE  /\ total \in Nat /\ i \in Nat /\ run \in Nat /\ start \in Nat
           /\ size \in Sizes /\ align \in Aligns /\ BlocksFor(size) \in Nat /\ BlocksFor(size) > 0
           /\ i <= total /\ run < BlocksFor(size)
           /\ run > 0 => start + run = i /\ \A j \in start .. i - 1 : j \notin hot
           /\ \A b \in 0 .. (IF run > 0 THEN start ELSE i) - 1 : ~Fits(b, size, align)
BY TotalFacts, BlocksForFacts DEF AllocInv, TypeOK, ScanInv

\* Rounds that leave heap and layout alone keep everything but ScanInv.
LEMMA SameHeap ==
    ASSUME AllocInv, UNCHANGED <<heapSize, hot, live, size, align, panicked, pc, answer>>,
           pc = "scan", i' \in Nat, run' \in Nat, start' \in Nat
    PROVE  /\ TypeOK' /\ HeapInv' /\ NullMeansFull' /\ total' = total
           /\ \A b : Fits(b, size, align)' <=> Fits(b, size, align)
<1>1. TypeOK'
  BY DEF AllocInv, TypeOK, total
<1>2. HeapInv'
  BY DEF AllocInv, HeapInv, total, BlocksOf
<1>3. total' = total /\ \A b : Fits(b, size, align)' <=> Fits(b, size, align)
  BY DEF total, Fits
<1>4. NullMeansFull'
  BY DEF AllocInv, NullMeansFull, total, Fits
<1> QED BY <1>1, <1>2, <1>3, <1>4

LEMMA SkipBlockInv ==
    ASSUME AllocInv, SkipBlock
    PROVE  AllocInv'
<1> USE DEF SkipBlock, Scanning, Unaligned
<1>1. /\ i \in Nat /\ total \in Nat /\ i < total
      /\ \A b \in 0 .. i - 1 : ~Fits(b, size, align)
      /\ run = 0 /\ size \in Sizes /\ align \in Aligns /\ BlocksFor(size) > 0
  BY ScanFacts
<1>2. ~Fits(i, size, align)
  BY DEF Fits
<1>3. /\ TypeOK' /\ HeapInv' /\ NullMeansFull' /\ total' = total
      /\ \A b : Fits(b, size, align)' <=> Fits(b, size, align)
  <2>1. i' \in Nat /\ run' \in Nat /\ start' \in Nat
    BY <1>1, ScanFacts
  <2> QED BY <2>1, SameHeap
<1>4. \A b \in 0 .. i' - 1 : ~Fits(b, size, align)
  BY <1>1, <1>2
<1>5. ScanInv'
  BY <1>1, <1>3, <1>4 DEF ScanInv
<1> QED BY <1>3, <1>5 DEF AllocInv

LEMMA HotBlockInv ==
    ASSUME AllocInv, HotBlock
    PROVE  AllocInv'
<1> USE DEF HotBlock, Scanning
<1>1. /\ total \in Nat /\ i \in Nat /\ run \in Nat /\ start \in Nat
      /\ size \in Sizes /\ align \in Aligns /\ BlocksFor(size) \in Nat /\ BlocksFor(size) > 0
      /\ i < total /\ run < BlocksFor(size)
      /\ run > 0 => start + run = i
      /\ \A b \in 0 .. (IF run > 0 THEN start ELSE i) - 1 : ~Fits(b, size, align)
  BY ScanFacts
<1>2. /\ TypeOK' /\ HeapInv' /\ NullMeansFull' /\ total' = total
      /\ \A b : Fits(b, size, align)' <=> Fits(b, size, align)
  <2>1. i' \in Nat /\ run' \in Nat /\ start' \in Nat
    BY <1>1
  <2> QED BY <2>1, SameHeap
<1>3. ASSUME NEW b \in 0 .. i PROVE ~Fits(b, size, align)
  <2>1. CASE b \in 0 .. (IF run > 0 THEN start ELSE i) - 1
    BY <1>1, <2>1
  <2>2. CASE b \notin 0 .. (IF run > 0 THEN start ELSE i) - 1
    <3>1. i \in b .. b + BlocksFor(size) - 1
      <4>1. CASE run > 0
        BY <1>1, <1>3, <2>2, <4>1
      <4>2. CASE run = 0
        BY <1>1, <1>3, <2>2, <4>2
      <4> QED BY <1>1, <4>1, <4>2
    <3> QED BY <3>1 DEF Fits
  <2> QED BY <2>1, <2>2
<1>4. ScanInv'
  BY <1>1, <1>2, <1>3 DEF ScanInv
<1> QED BY <1>2, <1>4 DEF AllocInv

LEMMA ExtendRunInv ==
    ASSUME AllocInv, ExtendRun
    PROVE  AllocInv'
<1> USE DEF ExtendRun, ColdBlock, Scanning, runStart
<1>1. /\ total \in Nat /\ i \in Nat /\ run \in Nat /\ start \in Nat
      /\ size \in Sizes /\ align \in Aligns /\ BlocksFor(size) \in Nat /\ BlocksFor(size) > 0
      /\ i < total /\ run < BlocksFor(size)
      /\ run > 0 => start + run = i /\ \A j \in start .. i - 1 : j \notin hot
      /\ \A b \in 0 .. (IF run > 0 THEN start ELSE i) - 1 : ~Fits(b, size, align)
  BY ScanFacts
<1>2. i' \in Nat /\ run' \in Nat /\ start' \in Nat
  BY <1>1
<1>3. /\ TypeOK' /\ HeapInv' /\ NullMeansFull' /\ total' = total
      /\ \A b : Fits(b, size, align)' <=> Fits(b, size, align)
  BY <1>2, SameHeap
<1>4. /\ run' > 0 /\ run' < BlocksFor(size) /\ start' + run' = i'
      /\ i' <= total
      /\ start' = IF run > 0 THEN start ELSE i
  BY <1>1
<1>5. \A j \in start' .. i' - 1 : j \notin hot
  BY <1>1, <1>4
<1>6. ScanInv'
  BY <1>1, <1>3, <1>4, <1>5 DEF ScanInv
<1> QED BY <1>3, <1>6 DEF AllocInv

LEMMA GrantInv ==
    ASSUME AllocInv, Grant
    PROVE  AllocInv'
<1> DEFINE new == [block |-> runStart, size |-> size, align |-> align]
<1> USE DEF ColdBlock, Scanning
<1>1. /\ total \in Nat /\ i \in Nat /\ run \in Nat /\ start \in Nat
      /\ size \in Sizes /\ align \in Aligns /\ BlocksFor(size) \in Nat /\ BlocksFor(size) > 0
      /\ i < total /\ run + 1 = BlocksFor(size) /\ i \notin hot
      /\ run > 0 => start + run = i /\ \A j \in start .. i - 1 : j \notin hot
  BY ScanFacts DEF Grant
<1>2. /\ runStart \in Nat /\ runStart + BlocksFor(size) - 1 = i
      /\ \A j \in runStart .. i : j \notin hot
      /\ runStart + BlocksFor(size) <= total
  BY <1>1 DEF runStart
<1>3. /\ hot' = hot \cup BlocksOf(new) /\ live' = live \cup {new}
      /\ BlocksOf(new) = runStart .. i
      /\ total' = total /\ pc' = "idle" /\ answer' = "granted"
  BY <1>2 DEF Grant, BlocksOf, total
<1>4. TypeOK'
  <2>1. new \in Layouts
    BY <1>1, <1>2 DEF Layouts
  <2>2. hot \subseteq 0 .. total - 1
    BY DEF AllocInv, TypeOK
  <2>3. runStart .. i \subseteq 0 .. total - 1
    BY <1>1, <1>2
  <2>4. hot' \subseteq 0 .. total' - 1
    BY <1>3, <2>2, <2>3
  <2> QED BY <1>1, <1>2, <1>3, <2>1, <2>4 DEF AllocInv, TypeOK, Grant
<1>5. HeapInv'
  <2>1. \A r \in live : BlocksOf(r) \subseteq hot
    BY DEF AllocInv, HeapInv
  <2>2. BlocksOf(new) \cap hot = {}
    BY <1>2, <1>3
  <2>3. new.block + BlocksFor(new.size) <= total
    BY <1>2
  <2>4. \A r \in live' : r.block + BlocksFor(r.size) <= total'
    BY <1>3, <2>3 DEF AllocInv, HeapInv
  <2>5. \A r, q \in live' : r # q => BlocksOf(r) \cap BlocksOf(q) = {}
    BY <1>3, <2>1, <2>2 DEF AllocInv, HeapInv
  <2>6. hot' = UNION {BlocksOf(r) : r \in live'}
    BY <1>3 DEF AllocInv, HeapInv
  <2> QED BY <2>4, <2>5, <2>6 DEF HeapInv, BlocksOf
<1>6. ScanInv' /\ NullMeansFull'
  BY <1>3 DEF ScanInv, NullMeansFull
<1> QED BY <1>4, <1>5, <1>6 DEF AllocInv

LEMMA ReturnNullInv ==
    ASSUME AllocInv, ReturnNull
    PROVE  AllocInv'
<1> USE DEF ReturnNull, scanVars
<1>1. /\ total \in Nat /\ i \in Nat /\ run \in Nat /\ start \in Nat
      /\ size \in Sizes /\ align \in Aligns /\ BlocksFor(size) \in Nat /\ BlocksFor(size) > 0
      /\ i = total /\ run < BlocksFor(size)
      /\ run > 0 => start + run = i
      /\ \A b \in 0 .. (IF run > 0 THEN start ELSE i) - 1 : ~Fits(b, size, align)
  BY ScanFacts
<1>2. ASSUME NEW b \in 0 .. total PROVE ~Fits(b, size, align)
  <2>1. CASE b \in 0 .. (IF run > 0 THEN start ELSE i) - 1
    BY <1>1, <2>1
  <2>2. CASE b \notin 0 .. (IF run > 0 THEN start ELSE i) - 1
    <3>1. ~(b + BlocksFor(size) <= total)
      <4>1. CASE run > 0
        BY <1>1, <1>2, <2>2, <4>1
      <4>2. CASE run = 0
        BY <1>1, <1>2, <2>2, <4>2
      <4> QED BY <1>1, <4>1, <4>2
    <3> QED BY <3>1 DEF Fits
  <2> QED BY <2>1, <2>2
<1>3. TypeOK'
  BY DEF AllocInv, TypeOK, total
<1>4. HeapInv'
  BY DEF AllocInv, HeapInv, total, BlocksOf
<1>5. ScanInv'
  BY DEF ScanInv
<1>6. NullMeansFull'
  BY <1>2 DEF NullMeansFull, total, Fits
<1> QED BY <1>3, <1>4, <1>5, <1>6 DEF AllocInv

LEMMA OutOfMapInv ==
    ASSUME AllocInv, OutOfMap
    PROVE  AllocInv'
<1> USE DEF OutOfMap, scanVars
<1>1. TypeOK' /\ HeapInv'
  BY DEF AllocInv, TypeOK, HeapInv, total, BlocksOf
<1>2. ScanInv' /\ NullMeansFull'
  BY DEF AllocInv, ScanInv, NullMeansFull, total, Fits
<1> QED BY <1>1, <1>2 DEF AllocInv

LEMMA DeallocInv ==
    ASSUME AllocInv, NEW r \in live, Dealloc(r)
    PROVE  AllocInv'
<1> USE DEF Dealloc, scanVars
<1>1. /\ r.block \in Nat /\ BlocksFor(r.size) \in Nat /\ BlocksFor(r.size) > 0
      /\ r.block + BlocksFor(r.size) <= total
      /\ total \in Nat /\ heapSize \in Nat /\ total * 64 <= heapSize
  BY BlocksForFacts, TotalFacts DEF AllocInv, TypeOK, HeapInv, Layouts
<1>2. ~(r.block * BLOCK_SIZE >= heapSize)
  BY <1>1 DEF BLOCK_SIZE
<1>3. /\ hot' = hot \ BlocksOf(r) /\ live' = live \ {r} /\ answer' = "none"
      /\ UNCHANGED <<panicked, heapSize, pc, size, align, i, run, start>>
      /\ total' = total
  BY <1>2 DEF total
<1>4. TypeOK'
  BY <1>3 DEF AllocInv, TypeOK
<1>5. HeapInv'
  <2>1. \A q \in live' : q.block + BlocksFor(q.size) <= total'
    BY <1>3 DEF AllocInv, HeapInv
  <2>2. \A p, q \in live' : p # q => BlocksOf(p) \cap BlocksOf(q) = {}
    BY <1>3 DEF AllocInv, HeapInv
  <2>3. hot' = UNION {BlocksOf(q) : q \in live'}
    BY <1>3 DEF AllocInv, HeapInv
  <2> QED BY <2>1, <2>2, <2>3 DEF HeapInv, BlocksOf
<1>6. ScanInv' /\ NullMeansFull'
  BY <1>3 DEF ScanInv, NullMeansFull
<1> QED BY <1>4, <1>5, <1>6 DEF AllocInv

LEMMA StutterInv ==
    ASSUME AllocInv, UNCHANGED vars
    PROVE  AllocInv'
BY DEF AllocInv, vars, TypeOK, HeapInv, ScanInv, NullMeansFull, Fits, total, BlocksOf

-----------------------------------------------------------------------------
(* The theorems.                                                           *)

\* The inductive invariant holds in every reachable state.
THEOREM AllocInvariant == Spec => []AllocInv
<1>1. Init => AllocInv
  BY InitInv
<1>2. AllocInv /\ [Next]_vars => AllocInv'
  <2> SUFFICES ASSUME AllocInv, [Next]_vars PROVE AllocInv'
    OBVIOUS
  <2>1. CASE \E h \in HeapSizes : InitHeap(h)
    BY <2>1, InitHeapInv
  <2>2. CASE \E n \in Sizes, a \in Aligns : Alloc(n, a)
    BY <2>2, AllocStepInv
  <2>3. CASE SkipBlock
    BY <2>3, SkipBlockInv
  <2>4. CASE OutOfMap
    BY <2>4, OutOfMapInv
  <2>5. CASE HotBlock
    BY <2>5, HotBlockInv
  <2>6. CASE ExtendRun
    BY <2>6, ExtendRunInv
  <2>7. CASE Grant
    BY <2>7, GrantInv
  <2>8. CASE ReturnNull
    BY <2>8, ReturnNullInv
  <2>9. CASE \E r \in live : Dealloc(r)
    BY <2>9, DeallocInv
  <2>10. CASE UNCHANGED vars
    BY <2>10, StutterInv
  <2> QED BY <2>1, <2>2, <2>3, <2>4, <2>5, <2>6, <2>7, <2>8, <2>9, <2>10 DEF Next
<1> QED BY <1>1, <1>2, PTL DEF Spec

\* No two live allocations share a byte (alloc and dealloc of
\* mict_global_allocator.rs).
THEOREM AllocationsDisjoint == Spec => []NoOverlap
<1>1. AllocInv => NoOverlap
  <2> SUFFICES ASSUME AllocInv PROVE NoOverlap
    OBVIOUS
  <2>1. total \in Nat /\ heapSize \in Nat /\ total * 64 <= heapSize
    BY TotalFacts DEF AllocInv, TypeOK
  <2>2. ASSUME NEW r \in live
        PROVE  /\ r.block \in Nat /\ r.size \in Nat /\ r.size > 0
               /\ BlocksFor(r.size) \in Nat /\ BlocksFor(r.size) > 0
               /\ r.size <= BlocksFor(r.size) * 64
               /\ r.block + BlocksFor(r.size) <= total
    BY BlocksForFacts DEF AllocInv, TypeOK, HeapInv, Layouts
  <2>3. ASSUME NEW r \in live PROVE LastByte(r) < heapSize
    BY <2>1, <2>2 DEF LastByte, FirstByte, BLOCK_SIZE
  <2>4. ASSUME NEW r \in live, NEW q \in live, r # q
        PROVE  LastByte(r) < FirstByte(q) \/ LastByte(q) < FirstByte(r)
    <3>1. BlocksOf(r) \cap BlocksOf(q) = {}
      BY <2>4 DEF AllocInv, HeapInv
    <3>2. r.block + BlocksFor(r.size) <= q.block \/ q.block + BlocksFor(q.size) <= r.block
      <4>1. r.block \notin BlocksOf(q) /\ q.block \notin BlocksOf(r)
        BY <2>2, <3>1 DEF BlocksOf
      <4> QED BY <2>2, <4>1 DEF BlocksOf
    <3> QED BY <2>2, <3>2 DEF LastByte, FirstByte, BLOCK_SIZE
  <2> QED BY <2>3, <2>4 DEF NoOverlap
<1> QED BY <1>1, AllocInvariant, PTL

\* The heatmap marks exactly the blocks callers hold.
THEOREM HeatmapIsExact == Spec => []HeatmapExact
<1>1. AllocInv => HeatmapExact
  BY DEF AllocInv, HeapInv, HeatmapExact
<1> QED BY <1>1, AllocInvariant, PTL

\* The scan is complete: null means that no aligned cold run is long enough.
THEOREM NullIsHonest == Spec => []NullMeansFull
<1>1. AllocInv => NullMeansFull
  BY DEF AllocInv
<1> QED BY <1>1, AllocInvariant, PTL

\* No step of the scan, of a caller or of init gives a variable a value outside
\* its type; bits of the heatmap stay inside the heap.
THEOREM AllocTypes == Spec => []TypeOK
<1>1. AllocInv => TypeOK
  BY DEF AllocInv
<1> QED BY <1>1, AllocInvariant, PTL

-----------------------------------------------------------------------------
(* Alignment: in blocks along the scan, then in bytes.                     *)

\* A run begins only where the alignment test let the scan through.
LEMMA AlignStep == AllocInv /\ AlignInv /\ [Next]_vars => AlignInv'
<1> SUFFICES ASSUME AllocInv, AlignInv, [Next]_vars PROVE AlignInv'
  OBVIOUS
<1>0. run \in Nat /\ i \in Nat /\ start \in Nat
  BY DEF AllocInv, TypeOK
<1>1. ColdBlock => runStart % AlignBlocks(align) = 0
  BY <1>0 DEF ColdBlock, Scanning, Unaligned, runStart, AlignInv
<1>2. CASE \E h \in HeapSizes : InitHeap(h)
  BY <1>2 DEF InitHeap, AlignInv, scanVars, AlignBlocks
<1>3. CASE \E n \in Sizes, a \in Aligns : Alloc(n, a)
  BY <1>3 DEF Alloc, AlignInv, AlignBlocks
<1>4. CASE SkipBlock \/ OutOfMap \/ HotBlock \/ ReturnNull
  BY <1>4 DEF SkipBlock, OutOfMap, HotBlock, ReturnNull, AlignInv, scanVars, AlignBlocks
<1>5. CASE ExtendRun
  BY <1>1, <1>5 DEF ExtendRun, AlignInv, AlignBlocks
<1>6. CASE Grant
  <2>1. pc' = "idle" /\ runStart % AlignBlocks(align) = 0
    BY <1>1, <1>6 DEF Grant
  <2>2. ASSUME NEW r \in live' PROVE r.block % AlignBlocks(r.align) = 0
    <3>1. r \in live \/ r = [block |-> runStart, size |-> size, align |-> align]
      BY <1>6 DEF Grant
    <3> QED BY <2>1, <3>1 DEF AlignInv
  <2> QED BY <2>1, <2>2 DEF AlignInv, AlignBlocks
<1>7. CASE \E r \in live : Dealloc(r)
  BY <1>7 DEF Dealloc, AlignInv, scanVars, AlignBlocks
<1>8. CASE UNCHANGED vars
  BY <1>8 DEF vars, AlignInv, scanVars, AlignBlocks
<1> QED BY <1>2, <1>3, <1>4, <1>5, <1>6, <1>7, <1>8 DEF Next

\* A multiple leaves no rest, and no rest means a multiple.
LEMMA Multiples ==
  ASSUME NEW a \in Nat \ {0}, NEW b \in Nat
  PROVE  /\ (a * b) % a = 0
         /\ b % a = 0 => b = a * (b \div a) /\ b \div a \in Nat
  OBVIOUS

\* An aligned block is an aligned address, for alignments of both kinds.
LEMMA AlignedBytes ==
  ASSUME NEW a \in Aligns, NEW b \in Nat, b % AlignBlocks(a) = 0
  PROVE  (b * BLOCK_SIZE) % a = 0
<1>0. a \in Nat \ {0}
  BY LayoutAssumption
<1>1. ASSUME NEW k \in 1 .. BLOCK_SIZE, BLOCK_SIZE = a * k
      PROVE  (b * BLOCK_SIZE) % a = 0
  <2>1. b * BLOCK_SIZE = a * (b * k) /\ b * k \in Nat
    BY <1>0, <1>1 DEF BLOCK_SIZE
  <2> QED BY <1>0, <2>1, Multiples
<1>2. ASSUME NEW k \in 1 .. a, a = BLOCK_SIZE * k
      PROVE  (b * BLOCK_SIZE) % a = 0
  <2>1. k \in Nat \ {0} /\ AlignBlocks(a) = k
    BY <1>0, <1>2 DEF AlignBlocks, BLOCK_SIZE
  <2>2. b = k * (b \div k) /\ b \div k \in Nat
    BY <2>1, Multiples
  <2>3. PICK q \in Nat : b = k * q
    BY <2>2
  <2>4. b * BLOCK_SIZE = a * q
    BY <1>2, <2>1, <2>3 DEF BLOCK_SIZE
  <2> QED BY <1>0, <2>3, <2>4, Multiples
<1> QED BY <1>1, <1>2, AlignAssumption

\* Every pointer alloc hands out meets the alignment of its layout, for every
\* heap and every alignment that divides the block size or is a multiple of it.
THEOREM PointersAligned == Spec => []GrantsAligned
<1>1. Init => AlignInv
  BY DEF Init, AlignInv
<1>2. AllocInv /\ AlignInv => GrantsAligned
  <2> SUFFICES ASSUME AllocInv, AlignInv, NEW r \in live
               PROVE  FirstByte(r) % r.align = 0
    BY DEF GrantsAligned
  <2>1. r.block \in Nat /\ r.align \in Aligns /\ r.block % AlignBlocks(r.align) = 0
    BY DEF AllocInv, TypeOK, Layouts, AlignInv
  <2> QED BY <2>1, AlignedBytes DEF FirstByte
<1> QED BY <1>1, <1>2, AlignStep, AllocInvariant, PTL DEF Spec
=============================================================================
