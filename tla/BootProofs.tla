----------------------------- MODULE BootProofs -----------------------------
(***************************************************************************)
(* Theorems about the parts of the boot, the frame allocator, the virtual  *)
(* machine and the network card, and about Boot, which is made of them:    *)
(* for every memory map, bytecode, context and ring size.                  *)
(***************************************************************************)
EXTENDS Boot, SetInduction, FiniteSetTheorems, SequenceTheorems, TLAPS

-----------------------------------------------------------------------------
(* The frame allocator, for every memory map that lists its frames in      *)
(* ascending order, gaps or not.                                           *)

\* The last frame dealt so far is no lower than any frame of a run: what was
\* handed out lies behind the cursor, also where a run reaches into a gap.
Dealt == IF next < Len(Usable) THEN next ELSE Len(Usable)
Behind(c) == c.pages > 0 /\ Dealt > 0 /\ c.first + c.pages - 1 <= Usable[Dealt]
AllBehind == \A i \in 1..Len(claims) : Behind(claims[i])
MemInv == MemTypeOK /\ AllBehind /\ RunsDisjoint

LEMMA Difference == ASSUME NEW a \in Nat, NEW b \in Nat, a <= b PROVE b - a \in Nat
OBVIOUS

LEMMA Widen ==
    ASSUME NEW f \in Nat, NEW p \in Nat, NEW u \in Nat, NEW v \in Nat, f + p - 1 <= u, u <= v
    PROVE  f + p - 1 <= v
OBVIOUS

LEMMA RunBefore ==
    ASSUME NEW f \in Nat, NEW p \in Nat, NEW u \in Nat, NEW g \in Nat, f + p - 1 <= u, g > u
    PROVE  f + p <= g
OBVIOUS

\* A run that ends before another begins shares no frame with it.
LEMMA ApartRuns ==
    ASSUME NEW c \in Claims, NEW d \in Claims, c.first + c.pages <= d.first
    PROVE  Frames(c) \cap Frames(d) = {}
<1>1. c.first \in Nat /\ c.pages \in Nat /\ d.first \in Nat /\ d.pages \in Nat
  BY DEF Claims
<1>2. ASSUME NEW x \in Frames(c), x \in Frames(d) PROVE FALSE
  <2>1. x \in Int /\ x <= c.first + c.pages - 1 /\ x >= d.first
    BY <1>1, <1>2 DEF Frames
  <2> QED BY <1>1, <2>1
<1> QED BY <1>2

\* n frames from the cursor are there, or the map ends before.
LEMMA CursorFacts ==
    ASSUME next \in Nat
    PROVE  /\ Len(Usable) \in Nat /\ Left \in Nat /\ Dealt \in Nat /\ Dealt <= Len(Usable)
           /\ Left > 0 => next = Dealt /\ Dealt + Left = Len(Usable)
BY UsableAssumption DEF Left, Dealt

LEMMA UsableFacts ==
    ASSUME NEW k \in 1..Len(Usable), NEW l \in 1..Len(Usable), k <= l
    PROVE  Usable[k] \in Nat /\ Usable[l] \in Nat /\ Usable[k] + (l - k) <= Usable[l]
<1>1. Usable \in Seq(Nat) /\ \A i, j \in 1..Len(Usable) : i <= j => Usable[i] + (j - i) <= Usable[j]
  BY UsableAssumption
<1>2. Usable[k] \in Nat /\ Usable[l] \in Nat
  BY <1>1, ElementOfSeq
<1>3. Usable[k] + (l - k) <= Usable[l]
  BY <1>1, Zenon
<1> QED BY <1>2, <1>3

\* n requests move the last frame dealt by n, or to the end of the map.
LEMMA AllocateFacts ==
    ASSUME next \in Nat, NEW n \in Nat, AllocateFrames(n)
    PROVE  /\ next' \in Nat
           /\ n <= Left => Dealt' = Dealt + n
           /\ n > Left => Dealt' = Dealt + Left
<1>1. Len(Usable) \in Nat
  BY UsableAssumption
<1>2. next' = next + (IF n <= Left THEN n ELSE Left + 1)
  BY DEF AllocateFrames
<1>3. Left = IF next < Len(Usable) THEN Len(Usable) - next ELSE 0
  BY DEF Left
<1>4. /\ Dealt = IF next < Len(Usable) THEN next ELSE Len(Usable)
      /\ Dealt' = IF next' < Len(Usable) THEN next' ELSE Len(Usable)
  BY DEF Dealt
<1>5. CASE n <= Left
  BY <1>1, <1>2, <1>3, <1>4, <1>5
<1>6. CASE ~(n <= Left)
  BY <1>1, <1>2, <1>3, <1>4, <1>6
<1> QED BY <1>1, <1>3, <1>5, <1>6

\* Runs that start past the last frame dealt may join the others.
LEMMA JoinRuns ==
    ASSUME MemInv, NEW new \in Seq(Claims), claims' = claims \o new,
           next' \in Nat, Dealt' >= Dealt, Dealt' <= Len(Usable), Dealt' \in Nat,
           Len(new) > 0 => Dealt' > 0,
           \A k \in 1..Len(new) :
              /\ new[k].pages > 0
              /\ Dealt > 0 => new[k].first > Usable[Dealt]
              /\ new[k].first + new[k].pages - 1 <= Usable[Dealt'],
           \A k, l \in 1..Len(new) : k < l => new[k].first + new[k].pages <= new[l].first
    PROVE  AllBehind' /\ RunsDisjoint' /\ claims' \in Seq(Claims)
<1>1. claims' \in Seq(Claims) /\ Len(claims') = Len(claims) + Len(new)
      /\ Len(claims) \in Nat /\ Len(new) \in Nat
  BY DEF MemInv, MemTypeOK
<1>2. \A i \in 1..Len(claims) : claims'[i] = claims[i] /\ claims[i] \in Claims
  BY DEF MemInv, MemTypeOK
<1>3. \A i \in 1..Len(claims') : i > Len(claims) =>
        /\ claims'[i] = new[i - Len(claims)]
        /\ i - Len(claims) \in 1..Len(new)
        /\ new[i - Len(claims)] \in Claims
  BY <1>1 DEF MemInv, MemTypeOK
<1>4. Dealt \in Nat /\ Dealt <= Len(Usable) /\ Len(Usable) \in Nat
  BY CursorFacts DEF MemInv, MemTypeOK
<1>5. Dealt > 0 => Usable[Dealt] \in Nat /\ Usable[Dealt'] \in Nat /\ Usable[Dealt] <= Usable[Dealt']
  <2> SUFFICES ASSUME Dealt > 0 PROVE Usable[Dealt] \in Nat /\ Usable[Dealt'] \in Nat /\ Usable[Dealt] <= Usable[Dealt']
    OBVIOUS
  <2>1. Dealt \in 1..Len(Usable) /\ Dealt' \in 1..Len(Usable) /\ Dealt <= Dealt'
    BY <1>4
  <2>2. Dealt' - Dealt \in Nat
    BY <1>4, <2>1, Difference
  <2>3. Usable[Dealt] \in Nat /\ Usable[Dealt'] \in Nat /\ Usable[Dealt] + (Dealt' - Dealt) <= Usable[Dealt']
    BY <2>1, UsableFacts
  <2> QED BY <2>2, <2>3
<1>6. AllBehind'
  <2> SUFFICES ASSUME NEW i \in 1..Len(claims')
               PROVE  /\ claims'[i].pages > 0 /\ Dealt' > 0
                      /\ claims'[i].first + claims'[i].pages - 1 <= Usable[Dealt']
    BY DEF AllBehind, Behind
  <2>1. CASE i \in 1..Len(claims)
    <3>1. claims'[i] = claims[i] /\ claims[i].first \in Nat /\ claims[i].pages \in Nat
      BY <2>1, <1>2 DEF Claims
    <3>2. claims[i].pages > 0 /\ Dealt > 0 /\ claims[i].first + claims[i].pages - 1 <= Usable[Dealt]
      BY <2>1 DEF MemInv, AllBehind, Behind
    <3>3. claims[i].first + claims[i].pages - 1 <= Usable[Dealt']
      <4>1. Usable[Dealt] \in Nat /\ Usable[Dealt'] \in Nat /\ Usable[Dealt] <= Usable[Dealt']
        BY <3>2, <1>5
      <4> QED BY <3>1, <3>2, <4>1, Widen
    <3>4. Dealt' > 0
      BY <3>2, <1>4
    <3> QED BY <3>1, <3>2, <3>3, <3>4
  <2>2. CASE i > Len(claims)
    <3>1. Len(new) > 0
      BY <2>2, <1>1, <1>3
    <3> QED BY <2>2, <1>3, <3>1
  <2> QED BY <2>1, <2>2, <1>1
<1>7. RunsDisjoint'
  <2>1. ASSUME NEW i \in 1..Len(claims'), NEW j \in 1..Len(claims'), i < j
        PROVE  Frames(claims'[i]) \cap Frames(claims'[j]) = {}
    <3>1. CASE j \in 1..Len(claims)
      <4>1. i \in 1..Len(claims) /\ i # j
        BY <2>1, <3>1, <1>1
      <4> QED BY <3>1, <4>1, <1>2 DEF MemInv, RunsDisjoint
    <3>2. CASE i \in 1..Len(claims) /\ j > Len(claims)
      <4>1. claims'[i] = claims[i] /\ claims[i].first \in Nat /\ claims[i].pages \in Nat
        BY <3>2, <1>2 DEF Claims
      <4>2. Dealt > 0 /\ claims[i].first + claims[i].pages - 1 <= Usable[Dealt]
        BY <3>2 DEF MemInv, AllBehind, Behind
      <4>3. claims'[j].first > Usable[Dealt] /\ claims'[j].first \in Nat /\ claims'[j].pages \in Nat
        BY <3>2, <4>2, <1>3 DEF Claims
      <4>4. Usable[Dealt] \in Nat
        BY <4>2, <1>5
      <4>5. claims[i].first + claims[i].pages <= claims'[j].first
        BY <4>1, <4>2, <4>3, <4>4, RunBefore
      <4>6. claims[i] \in Claims /\ claims'[j] \in Claims
        BY <3>2, <1>2, <1>3
      <4> QED BY <4>1, <4>5, <4>6, ApartRuns
    <3>3. CASE i > Len(claims)
      <4> DEFINE k == i - Len(claims)
                 l == j - Len(claims)
      <4>1. j > Len(claims) /\ k < l
        BY <2>1, <3>3, <1>1
      <4>2. /\ claims'[i] = new[k] /\ k \in 1..Len(new) /\ new[k] \in Claims
            /\ claims'[j] = new[l] /\ l \in 1..Len(new) /\ new[l] \in Claims
        BY <3>3, <4>1, <1>3
      <4>3. new[k].first + new[k].pages <= new[l].first
        BY <4>1, <4>2
      <4> HIDE DEF k, l
      <4> QED BY <4>2, <4>3, ApartRuns
    <3>4. j \in 1..Len(claims) \/ j > Len(claims)
      BY <1>1
    <3>5. i \in 1..Len(claims) \/ i > Len(claims)
      BY <1>1
    <3> QED BY <3>1, <3>2, <3>3, <3>4, <3>5
  <2>2. ASSUME NEW i \in 1..Len(claims'), NEW j \in 1..Len(claims'), i # j
        PROVE  Frames(claims'[i]) \cap Frames(claims'[j]) = {}
    <3>1. i < j \/ j < i
      BY <2>2, <1>1
    <3> QED BY <2>1, <3>1
  <2> QED BY <2>2 DEF RunsDisjoint, Frames
<1> QED BY <1>1, <1>6, <1>7

\* A run of several pages, also where it straddles a gap.
LEMMA DmaInv ==
    ASSUME MemInv, NEW pages \in Nat \ {0}, AllocateDmaFrames(pages)
    PROVE  MemInv'
<1>1. next \in Nat /\ claims \in Seq(Claims)
  BY DEF MemInv, MemTypeOK
<1>2. AllocateFrames(pages)
  <2>1. 1 + Rest(pages) = pages
    BY DEF Rest
  <2> QED BY <2>1 DEF AllocateDmaFrames
<1>3. /\ Len(Usable) \in Nat /\ Left \in Nat /\ Dealt \in Nat /\ Dealt <= Len(Usable)
      /\ Left > 0 => next = Dealt /\ Dealt + Left = Len(Usable)
      /\ next' \in Nat
      /\ pages <= Left => Dealt' = Dealt + pages
      /\ pages > Left => Dealt' = Dealt + Left
  BY <1>1, <1>2, CursorFacts, AllocateFacts
<1>4. CASE pages <= Left
  <2> DEFINE c == [first |-> Usable[next + 1], pages |-> pages]
  <2>1. next = Dealt /\ Dealt + pages <= Len(Usable) /\ Dealt' = Dealt + pages
    BY <1>3, <1>4
  <2>2. Dealt + 1 \in 1..Len(Usable) /\ Dealt + pages \in 1..Len(Usable) /\ Dealt + 1 <= Dealt + pages
    BY <1>3, <2>1
  <2>3. Usable[Dealt + 1] \in Nat /\ Usable[Dealt + 1] + ((Dealt + pages) - (Dealt + 1)) <= Usable[Dealt + pages]
        /\ Usable[Dealt + pages] \in Nat
    BY <2>2, UsableFacts
  <2>4. Usable[Dealt + 1] + pages - 1 <= Usable[Dealt']
    BY <1>3, <2>1, <2>3
  <2>5. Dealt > 0 => Usable[Dealt + 1] > Usable[Dealt]
    <3> SUFFICES ASSUME Dealt > 0 PROVE Usable[Dealt + 1] > Usable[Dealt]
      OBVIOUS
    <3>1. Dealt \in 1..Len(Usable) /\ Dealt <= Dealt + 1
      BY <1>3
    <3>2. Usable[Dealt] \in Nat /\ Usable[Dealt] + ((Dealt + 1) - Dealt) <= Usable[Dealt + 1]
      BY <2>2, <3>1, UsableFacts
    <3> QED BY <1>3, <2>3, <3>2
  <2>6. c \in Claims /\ c.first = Usable[Dealt + 1] /\ c.pages = pages
    BY <2>1, <2>3 DEF Claims
  <2>7. claims' = Append(claims, c) /\ granted' = "ok" /\ mapped' = mapped
    BY <1>4 DEF AllocateDmaFrames
  <2> HIDE DEF c
  <2>8. claims' = claims \o <<c>> /\ <<c>> \in Seq(Claims) /\ Len(<<c>>) = 1 /\ <<c>>[1] = c
    BY <1>1, <2>6, <2>7
  <2>9. Dealt' \in Nat /\ Dealt' > 0 /\ Dealt' >= Dealt /\ Dealt' <= Len(Usable)
    BY <1>3, <2>1
  <2>10. \A k \in 1..Len(<<c>>) :
              /\ <<c>>[k].pages > 0
              /\ Dealt > 0 => <<c>>[k].first > Usable[Dealt]
              /\ <<c>>[k].first + <<c>>[k].pages - 1 <= Usable[Dealt']
    BY <2>4, <2>5, <2>6, <2>8
  <2>11. \A k, l \in 1..Len(<<c>>) : k < l => <<c>>[k].first + <<c>>[k].pages <= <<c>>[l].first
    BY <2>8
  <2>12. AllBehind' /\ RunsDisjoint' /\ claims' \in Seq(Claims)
    BY <1>3, <2>8, <2>9, <2>10, <2>11, JoinRuns
  <2> QED BY <1>3, <2>7, <2>12 DEF MemInv, MemTypeOK
<1>5. CASE pages > Left
  <2>1. claims' = claims /\ granted' = "none" /\ mapped' = mapped
    BY <1>3, <1>5 DEF AllocateDmaFrames
  <2>2. claims' = claims \o << >> /\ << >> \in Seq(Claims) /\ Len(<< >>) = 0
    BY <1>1, <2>1
  <2>3. Dealt' \in Nat /\ Dealt' >= Dealt /\ Dealt' <= Len(Usable)
    BY <1>3, <1>5
  <2>4. AllBehind' /\ RunsDisjoint' /\ claims' \in Seq(Claims)
    <3>1. \A k \in 1..Len(<< >>) : FALSE
      BY <2>2
    <3>2. Len(<< >>) > 0 => Dealt' > 0
      BY <2>2
    <3> QED BY <1>3, <2>2, <2>3, <3>1, <3>2, JoinRuns
  <2> QED BY <1>3, <2>1, <2>4 DEF MemInv, MemTypeOK
<1> QED BY <1>3, <1>4, <1>5

\* Frames one by one, for page tables, the heap, or rings.
LEMMA SinglesInv ==
    ASSUME MemInv, NEW n \in Nat, AllocateSingles(n)
    PROVE  MemInv'
<1> DEFINE m == IF n <= Left THEN n ELSE Left
<1>1. next \in Nat /\ claims \in Seq(Claims)
  BY DEF MemInv, MemTypeOK
<1>2. /\ Len(Usable) \in Nat /\ Left \in Nat /\ Dealt \in Nat /\ Dealt <= Len(Usable)
      /\ Left > 0 => next = Dealt /\ Dealt + Left = Len(Usable)
      /\ next' \in Nat
      /\ n <= Left => Dealt' = Dealt + n
      /\ n > Left => Dealt' = Dealt + Left
  BY <1>1, CursorFacts, AllocateFacts DEF AllocateSingles
<1>3. m \in Nat /\ m <= Left /\ Dealt' = Dealt + m
  BY <1>2
<1>4. claims' = claims \o Singles(m) /\ granted' \in {"ok", "none"}
  BY DEF AllocateSingles
<1> HIDE DEF m
<1>5. m > 0 => next = Dealt
  BY <1>2, <1>3
<1>6. Dealt' \in Nat /\ Dealt' >= Dealt /\ Dealt' <= Len(Usable)
  BY <1>2, <1>3
<1>7. ASSUME NEW k \in 1..m
      PROVE  /\ Singles(m)[k] = [first |-> Usable[Dealt + k], pages |-> 1]
             /\ Dealt + k \in 1..Len(Usable) /\ Dealt + k <= Dealt'
             /\ Usable[Dealt + k] \in Nat
  <2>1. m > 0
    BY <1>3
  <2>2. Dealt + k \in 1..Len(Usable) /\ Dealt + k <= Dealt'
    BY <1>2, <1>3
  <2>3. Usable[Dealt + k] \in Nat
    BY <2>2, UsableFacts
  <2> QED BY <1>5, <2>1, <2>2, <2>3 DEF Singles
<1>8. Singles(m) \in Seq(Claims) /\ Len(Singles(m)) = m
  <2>1. ASSUME NEW k \in 1..m PROVE Singles(m)[k] \in Claims
    <3>1. Singles(m)[k] = [first |-> Usable[Dealt + k], pages |-> 1] /\ Usable[Dealt + k] \in Nat
      BY <1>7
    <3> QED BY <3>1 DEF Claims
  <2>2. Singles(m) = [k \in 1..m |-> Singles(m)[k]]
    BY DEF Singles
  <2> HIDE DEF Singles
  <2> QED BY <1>3, <2>1, <2>2
<1>9. \A k \in 1..Len(Singles(m)) :
          /\ Singles(m)[k].pages > 0
          /\ Dealt > 0 => Singles(m)[k].first > Usable[Dealt]
          /\ Singles(m)[k].first + Singles(m)[k].pages - 1 <= Usable[Dealt']
  <2> SUFFICES ASSUME NEW k \in 1..m
               PROVE  /\ Dealt > 0 => Usable[Dealt + k] > Usable[Dealt]
                      /\ Usable[Dealt + k] <= Usable[Dealt']
    BY <1>7, <1>8
  <2>1. Dealt + k \in 1..Len(Usable) /\ Dealt' \in 1..Len(Usable) /\ Dealt + k <= Dealt'
    <3>1. Dealt + k \in 1..Len(Usable) /\ Dealt + k <= Dealt'
      BY <1>7
    <3> QED BY <1>2, <1>6, <3>1
  <2>2. /\ Usable[Dealt + k] \in Nat /\ Usable[Dealt'] \in Nat
        /\ Usable[Dealt + k] + (Dealt' - (Dealt + k)) <= Usable[Dealt']
    BY <2>1, UsableFacts
  <2>3. Usable[Dealt + k] <= Usable[Dealt']
    BY <1>2, <1>6, <2>1, <2>2
  <2>4. Dealt > 0 => Usable[Dealt + k] > Usable[Dealt]
    <3> SUFFICES ASSUME Dealt > 0 PROVE Usable[Dealt + k] > Usable[Dealt]
      OBVIOUS
    <3>1. Dealt \in 1..Len(Usable) /\ Dealt <= Dealt + k
      BY <1>2
    <3>2. Usable[Dealt] \in Nat /\ Usable[Dealt] + ((Dealt + k) - Dealt) <= Usable[Dealt + k]
      BY <2>1, <3>1, UsableFacts
    <3> QED BY <1>2, <2>2, <3>2
  <2> QED BY <2>3, <2>4
<1>10. \A k, l \in 1..Len(Singles(m)) :
          k < l => Singles(m)[k].first + Singles(m)[k].pages <= Singles(m)[l].first
  <2> SUFFICES ASSUME NEW k \in 1..m, NEW l \in 1..m, k < l
               PROVE  Usable[Dealt + k] + 1 <= Usable[Dealt + l]
    BY <1>7, <1>8
  <2>1. Dealt + k \in 1..Len(Usable) /\ Dealt + l \in 1..Len(Usable) /\ Dealt + k <= Dealt + l
    <3>1. Dealt + k \in 1..Len(Usable) /\ Dealt + l \in 1..Len(Usable)
      BY <1>7
    <3> QED BY <1>2, <1>3, <3>1
  <2>2. /\ Usable[Dealt + k] \in Nat /\ Usable[Dealt + l] \in Nat
        /\ Usable[Dealt + k] + ((Dealt + l) - (Dealt + k)) <= Usable[Dealt + l]
    BY <2>1, UsableFacts
  <2> QED BY <1>2, <2>2
<1>11. Len(Singles(m)) > 0 => Dealt' > 0
  BY <1>2, <1>3, <1>8
<1>12. AllBehind' /\ RunsDisjoint' /\ claims' \in Seq(Claims)
  <2> DEFINE new == Singles(m)
  <2>1. new \in Seq(Claims) /\ claims' = claims \o new
    BY <1>4, <1>8
  <2> HIDE DEF new
  <2> QED BY <1>2, <1>6, <1>9, <1>10, <1>11, <2>1, JoinRuns DEF new
<1> QED BY <1>2, <1>4, <1>12 DEF MemInv, MemTypeOK

LEMMA MapInv ==
    ASSUME MemInv, NEW region, NEW tables \in 0..MaxTables,
           MapMmio(region, tables)
    PROVE  MemInv'
<1>1. CASE region \cap mapped # {}
  BY <1>1 DEF MapMmio, MemInv, MemTypeOK, AllBehind, Behind, Dealt, RunsDisjoint, Frames
<1>2. CASE region \cap mapped = {}
  <2>1. tables \in Nat
    BY TablesAssumption
  <2> QED BY <1>2, <2>1, SinglesInv DEF MapMmio
<1> QED BY <1>1, <1>2

LEMMA HeapInv ==
    ASSUME MemInv, NEW heap, IsFiniteSet(heap), NEW tables \in 0..MaxTables,
           InitHeap(heap, tables)
    PROVE  MemInv'
<1>1. Cardinality(heap) \in Nat
  BY FS_CardinalityType
<1>2. Cardinality(heap) + tables \in Nat
  BY <1>1, TablesAssumption
<1> QED BY <1>2, SinglesInv DEF InitHeap

LEMMA MemInitInv == MemInit => MemInv
BY DEF MemInit, MemInv, MemTypeOK, AllBehind, RunsDisjoint

LEMMA MemStepInv == ASSUME MemInv, [MemStep]_memVars PROVE MemInv'
<1>1. ASSUME NEW n \in Nat, AllocateSingles(n), UNCHANGED mapped PROVE MemInv'
  BY <1>1, SinglesInv DEF MemInv, MemTypeOK
<1>2. CASE UNCHANGED memVars
  BY <1>2 DEF memVars, MemInv, MemTypeOK, AllBehind, Behind, Dealt, RunsDisjoint, Frames
<1> QED BY <1>1, <1>2, DmaInv, MapInv, HeapInv DEF MemStep

\* No frame is handed out twice, in whatever order the drivers ask, and however
\* their runs lie across the gaps of the memory map.
THEOREM FramesDisjoint == MemSpec => []RunsDisjoint
<1>1. MemInv => RunsDisjoint
  BY DEF MemInv
<1> QED BY <1>1, MemInitInv, MemStepInv, PTL DEF MemSpec
-----------------------------------------------------------------------------
(* The virtual machine, for every bytecode, every context, every stack     *)
(* size and every length of hash.                                          *)

VmInv == VmTypeOK /\ VmInBounds

LEMMA BoolHashType == ASSUME NEW b \in BOOLEAN PROVE BoolHash(b) \in Hash
BY VmAssumption DEF BoolHash, Hash, Byte

LEMMA VmInitInv == VmInit => VmInv
<1> SUFFICES ASSUME VmInit PROVE VmInv
  OBVIOUS
<1>1. ctx \in Contexts
  BY BoolHashType DEF VmInit, Contexts
<1>2. code \in Seq(Byte) /\ stack \in Seq(Hash) /\ Len(code) = 0 /\ Len(stack) = 0
  BY DEF VmInit
<1> QED BY <1>1, <1>2, VmAssumption DEF VmInit, VmInv, VmTypeOK, VmInBounds, RanOut, Byte

LEMMA PushInv ==
    ASSUME VmInv, NEW v \in Hash, NEW size \in Nat, vpc + size <= Len(code),
           UNCHANGED <<code, ctx>>, Push(v, size)
    PROVE  VmInv'
<1>1. CASE StackFull
  BY <1>1 DEF VmInv, VmTypeOK, VmInBounds, Push, Reject, StackError, Byte
<1>2. CASE ~StackFull
  <2>1. stack' = Append(stack, v) /\ vpc' = vpc + size /\ verdict' = verdict
    BY <1>2 DEF Push
  <2>2. stack' \in Seq(Hash) /\ Len(stack') = Len(stack) + 1
    BY <2>1 DEF VmInv, VmTypeOK
  <2>3. Len(stack) \in Nat /\ Len(stack) < StackSize
    BY <1>2, VmAssumption DEF StackFull, VmInv, VmTypeOK
  <2> QED BY <2>1, <2>2, <2>3, VmAssumption DEF VmInv, VmTypeOK, VmInBounds
<1> QED BY <1>1, <1>2

LEMMA RejectInv ==
    ASSUME VmInv, NEW e \in {Malformed, UnknownVariable, StackError, IllegalOp, RanOut},
           UNCHANGED <<code, ctx>>, Reject(e)
    PROVE  VmInv'
<1>1. e \in Byte
  BY DEF Malformed, UnknownVariable, StackError, IllegalOp, RanOut, Byte
<1> QED BY <1>1 DEF VmInv, VmTypeOK, VmInBounds, Reject

LEMMA WithoutFacts ==
    ASSUME VmInv, NEW k \in Nat, k <= Len(stack)
    PROVE  Without(k) \in Seq(Hash) /\ Len(Without(k)) = Len(stack) - k
BY DEF VmInv, VmTypeOK, Without

LEMMA CompareInv ==
    ASSUME VmInv, NEW b \in BOOLEAN, vpc < Len(code), UNCHANGED <<code, ctx>>, Compare(b)
    PROVE  VmInv'
<1>1. CASE Len(stack) < 2
  BY <1>1, RejectInv DEF Compare
<1>2. CASE ~(Len(stack) < 2)
  <2>1. stack' = Append(Without(2), BoolHash(b)) /\ vpc' = vpc + 1 /\ verdict' = verdict
    BY <1>2 DEF Compare
  <2>2. Len(stack) \in Nat /\ Len(stack) >= 2
    BY <1>2 DEF VmInv, VmTypeOK
  <2>3. Without(2) \in Seq(Hash) /\ Len(Without(2)) = Len(stack) - 2
    BY <2>2, WithoutFacts
  <2>4. stack' \in Seq(Hash) /\ Len(stack') = Len(stack) - 1
    BY <2>1, <2>2, <2>3, BoolHashType
  <2> QED BY <2>1, <2>2, <2>4, VmAssumption DEF VmInv, VmTypeOK, VmInBounds
<1> QED BY <1>1, <1>2

LEMMA FetchFacts ==
    ASSUME VmInv, NEW op, Fetch(op)
    PROVE  vpc < Len(code) /\ Len(code) \in Nat /\ vpc \in Nat /\ UNCHANGED <<code, ctx>>
BY DEF Fetch, VmInv, VmTypeOK

LEMMA AssertInv == ASSUME VmInv, AssertOrDissonance PROVE VmInv'
<1>1. vpc < Len(code) /\ Len(code) \in Nat /\ vpc \in Nat /\ UNCHANGED <<code, ctx>>
  BY FetchFacts DEF AssertOrDissonance
<1>2. CASE vpc + 1 >= Len(code) \/ stack = <<>>
  BY <1>1, <1>2, RejectInv DEF AssertOrDissonance
<1>3. CASE vpc + 1 < Len(code) /\ stack # <<>>
  <2>1. stack' = Without(1)
    BY <1>1, <1>3 DEF AssertOrDissonance
  <2>2. Len(stack) \in Nat /\ Len(stack) >= 1
    BY <1>3 DEF VmInv, VmTypeOK
  <2>3. stack' \in Seq(Hash) /\ Len(stack') = Len(stack) - 1
    BY <2>1, <2>2, WithoutFacts
  <2>4. CASE IsTrue(Top(1))
    <3>1. vpc' = vpc + 2 /\ verdict' = verdict
      BY <1>1, <1>3, <2>4 DEF AssertOrDissonance
    <3> QED BY <1>1, <1>3, <2>2, <2>3, <3>1, VmAssumption DEF VmInv, VmTypeOK, VmInBounds
  <2>5. CASE ~IsTrue(Top(1))
    <3>1. vpc' = vpc /\ verdict' = code[vpc + 2]
      BY <1>1, <1>3, <2>5 DEF AssertOrDissonance
    <3>2. code[vpc + 2] \in Byte
      BY <1>1, <1>3 DEF VmInv, VmTypeOK
    <3> QED BY <1>1, <2>2, <2>3, <3>1, <3>2, VmAssumption DEF VmInv, VmTypeOK, VmInBounds
  <2> QED BY <2>4, <2>5
<1> QED BY <1>1, <1>2, <1>3

LEMMA VmNextInv == ASSUME VmInv, [VmNext]_vmVars PROVE VmInv'
<1>1. CASE PushVar
  <2>1. vpc < Len(code) /\ Len(code) \in Nat /\ vpc \in Nat /\ UNCHANGED <<code, ctx>>
    BY <1>1, FetchFacts DEF PushVar
  <2>2. CASE vpc + 1 >= Len(code)
    BY <1>1, <2>1, <2>2, RejectInv DEF PushVar
  <2>3. CASE vpc + 1 < Len(code) /\ code[vpc + 2] \notin Vars
    BY <1>1, <2>1, <2>3, RejectInv DEF PushVar
  <2>4. CASE vpc + 1 < Len(code) /\ code[vpc + 2] \in Vars
    <3>1. ctx[code[vpc + 2]] \in Hash
      BY <2>4 DEF VmInv, VmTypeOK, Contexts
    <3>2. Push(ctx[code[vpc + 2]], 2)
      BY <1>1, <2>1, <2>4 DEF PushVar
    <3>3. vpc + 2 <= Len(code)
      BY <2>1, <2>4
    <3> QED BY <2>1, <3>1, <3>2, <3>3, PushInv
  <2> QED BY <2>1, <2>2, <2>3, <2>4
<1>2. CASE PushConst
  <2>1. vpc < Len(code) /\ Len(code) \in Nat /\ vpc \in Nat /\ UNCHANGED <<code, ctx>>
    BY <1>2, FetchFacts DEF PushConst
  <2>2. CASE vpc + HashLen >= Len(code)
    BY <1>2, <2>1, <2>2, RejectInv DEF PushConst
  <2>3. CASE ~(vpc + HashLen >= Len(code))
    <3> DEFINE h == [k \in 1..HashLen |-> code[vpc + 1 + k]]
    <3>1. h \in Hash
      <4>1. ASSUME NEW k \in 1..HashLen PROVE code[vpc + 1 + k] \in Byte
        BY <2>1, <2>3, VmAssumption DEF VmInv, VmTypeOK
      <4> QED BY <4>1 DEF Hash
    <3>2. Push(h, HashLen + 1)
      BY <1>2, <2>3 DEF PushConst
    <3>3. vpc + (HashLen + 1) <= Len(code) /\ HashLen + 1 \in Nat
      BY <2>1, <2>3, VmAssumption
    <3> HIDE DEF h
    <3> QED BY <2>1, <3>1, <3>2, <3>3, PushInv
  <2> QED BY <2>2, <2>3
<1>3. CASE Eq
  <2>1. (Len(stack) >= 2 /\ Top(1) = Top(2)) \in BOOLEAN
    OBVIOUS
  <2>2. vpc < Len(code) /\ UNCHANGED <<code, ctx>>
    BY <1>3, FetchFacts DEF Eq
  <2> QED BY <1>3, <2>1, <2>2, CompareInv DEF Eq
<1>4. CASE Neq
  <2>1. (Len(stack) >= 2 /\ Top(1) # Top(2)) \in BOOLEAN
    OBVIOUS
  <2>2. vpc < Len(code) /\ UNCHANGED <<code, ctx>>
    BY <1>4, FetchFacts DEF Neq
  <2> QED BY <1>4, <2>1, <2>2, CompareInv DEF Neq
<1>5. CASE AssertOrDissonance
  BY <1>5, AssertInv
<1>6. CASE HaltOk
  BY <1>6 DEF HaltOk, Fetch, VmInv, VmTypeOK, VmInBounds
<1>7. CASE Illegal \/ RunOut
  BY <1>7, RejectInv DEF Illegal, RunOut, Fetch
<1>8. CASE Forget
  <2>1. ctx' \in Contexts
    BY <1>8, BoolHashType DEF Forget, Contexts
  <2>2. code' = <<>> /\ vpc' = 0 /\ stack' = <<>> /\ verdict' = RanOut
    BY <1>8 DEF Forget
  <2> QED BY <2>1, <2>2, VmAssumption DEF VmInv, VmTypeOK, VmInBounds, RanOut, Byte
<1>9. ASSUME NEW c \in Seq(Byte), NEW x \in Contexts, Call(c, x) PROVE VmInv'
  <2>1. code' = c /\ ctx' = x /\ vpc' = 0 /\ stack' = <<>> /\ verdict' = Running
    BY <1>9 DEF Call
  <2>2. Len(c) \in Nat
    OBVIOUS
  <2> QED BY <2>1, <2>2, VmAssumption DEF VmInv, VmTypeOK, VmInBounds
<1>10. CASE UNCHANGED vmVars
  BY <1>10 DEF vmVars, VmInv, VmTypeOK, VmInBounds
<1> QED BY <1>1, <1>2, <1>3, <1>4, <1>5, <1>6, <1>7, <1>8, <1>9, <1>10 DEF VmNext, VmStep

\* No bytecode makes the machine leave its code or its stack.
THEOREM VmBounds == VmSpec => []VmInBounds
<1>1. VmInv => VmInBounds
  BY DEF VmInv
<1> QED BY <1>1, VmInitInv, VmNextInv, PTL DEF VmSpec

\* A step of a run moves the counter or ends the run.
LEMMA StepProgress ==
    ASSUME VmInv, VmNext, verdict = Running
    PROVE  vpc' > vpc \/ verdict' # Running
<1>1. vpc \in Nat
  BY DEF VmInv, VmTypeOK
<1>2. ASSUME NEW v, NEW size \in Nat, size > 0, Push(v, size)
      PROVE  vpc' > vpc \/ verdict' # Running
  BY <1>1, <1>2 DEF Push, Reject, StackError, Running
<1>3. ASSUME NEW b, Compare(b) PROVE vpc' > vpc \/ verdict' # Running
  BY <1>1, <1>3 DEF Compare, Reject, StackError, Running
<1>4. CASE PushVar
  BY <1>4, <1>2 DEF PushVar, Reject, Malformed, UnknownVariable, Running
<1>5. CASE PushConst
  <2>1. HashLen + 1 \in Nat /\ HashLen + 1 > 0
    BY VmAssumption
  <2> QED BY <1>5, <2>1, <1>2 DEF PushConst, Reject, Malformed, Running
<1>6. CASE Eq \/ Neq
  BY <1>6, <1>3 DEF Eq, Neq
<1>7. CASE AssertOrDissonance
  <2>1. CASE vpc + 1 >= Len(code) \/ stack = <<>>
    BY <1>7, <2>1 DEF AssertOrDissonance, Reject, Malformed, StackError, Running
  <2>2. CASE ~(vpc + 1 >= Len(code)) /\ stack # <<>>
    <3>1. CASE IsTrue(Top(1))
      BY <1>1, <1>7, <2>2, <3>1 DEF AssertOrDissonance
    <3>2. CASE ~IsTrue(Top(1))
      <4>1. verdict' = code[vpc + 2]
        BY <1>7, <2>2, <3>2 DEF AssertOrDissonance
      <4>2. code[vpc + 2] \in Byte
        BY <1>1, <2>2 DEF VmInv, VmTypeOK
      <4> QED BY <4>1, <4>2 DEF Running, Byte
    <3> QED BY <3>1, <3>2
  <2> QED BY <2>1, <2>2
<1>8. CASE HaltOk \/ Illegal \/ RunOut
  BY <1>8 DEF HaltOk, Illegal, RunOut, Reject, Granted, IllegalOp, RanOut, Running
<1> QED BY <1>4, <1>5, <1>6, <1>7, <1>8 DEF VmNext, VmStep

\* Every run ends after at most as many steps as the bytecode has bytes.
THEOREM VmAdvances == VmSpec => VmProgress
<1>1. VmInv /\ [VmNext]_vmVars
        => [verdict = Running => vpc' > vpc \/ verdict' # Running]_vmVars
  BY StepProgress
<1> QED BY <1>1, VmInitInv, VmNextInv, PTL DEF VmSpec, VmProgress
-----------------------------------------------------------------------------
(* The booting kernel: whatever is on the bus and whatever the vault file  *)
(* says, a step of Boot is a step of each part.                            *)

\* Every step of the kernel asks the allocator for something, or leaves it alone.
LEMMA MemPart == ASSUME [Next]_vars PROVE [MemStep]_memVars
<1>1. CASE StartHeap
  BY <1>1, BootAssumption DEF StartHeap, MemStep
<1>2. CASE StartNvme \/ MapE1000
  BY <1>2 DEF StartNvme, MapE1000, MemStep
<1>3. CASE NewE1000
  <2>1. 3 + NumRx \in Nat
    BY RingAssumption
  <2> QED BY <1>3, <2>1 DEF NewE1000, MemStep
<1>4. CASE MapVirtio
  BY <1>4 DEF MapVirtio, MemStep
<1>5. CASE AllocateVirtio
  <2>1. 1 \in Nat \ {0} /\ QueuePages \in Nat \ {0} /\ BackingPages \in Nat \ {0}
    BY BootAssumption
  <2> QED BY <1>5, <2>1 DEF AllocateVirtio, MemStep
<1>6. CASE Probe \/ RefuseVirtio \/ ReadVault \/ VmRuns \/ ReadVaultAsOwner \/ PrintVault \/ Traffic
  BY <1>6 DEF Probe, RefuseVirtio, ReadVault, VmRuns, ReadVaultAsOwner, PrintVault, Traffic, KeepMem
<1>7. CASE UNCHANGED vars
  BY <1>7 DEF vars, memVars
<1> QED BY <1>1, <1>2, <1>3, <1>4, <1>5, <1>6, <1>7 DEF Next

\* While the kernel boots, no driver is given memory that another part of the
\* kernel uses.
THEOREM BootRunsDisjoint == Spec => []RunsDisjoint
<1>1. Init => MemInv
  BY MemInitInv DEF Init
<1>2. MemInv /\ [Next]_vars => MemInv'
  BY MemPart, MemStepInv
<1>3. MemInv => RunsDisjoint
  BY DEF MemInv
<1> QED BY <1>1, <1>2, <1>3, PTL DEF Spec

\* The machine runs only while the vault is read, and there is a file in it.
Idle == boot \notin {"bad", "good"} => verdict # Running
VaultSound == vault \in Vaults \cup {NoVault}
BootVmInv == VmInv /\ Idle /\ VaultSound

LEMMA BootTypes ==
    /\ ForgedCode \in Seq(Byte)
    /\ BadContext \in Contexts /\ GoodContext \in Contexts
<1>1. ForgedCode \in Seq(Byte)
  <2>1. /\ OpPushVar \in Byte /\ VarRequestor \in Byte /\ VarOwner \in Byte /\ OpEq \in Byte
        /\ OpAssert \in Byte /\ 66 \in Byte /\ OpHaltOk \in Byte
    BY DEF Byte, OpPushVar, VarRequestor, VarOwner, OpEq, OpAssert, OpHaltOk
  <2> QED BY <2>1 DEF ForgedCode
<1>2. ASSUME NEW b \in Byte PROVE BootContext(b) \in Contexts
  <2>1. All(b) \in Hash /\ Zeros \in Hash
    BY BoolHashType DEF All, Hash, Zeros
  <2> QED BY <2>1 DEF BootContext, Contexts
<1>3. 187 \in Byte /\ 170 \in Byte
  BY DEF Byte
<1> QED BY <1>1, <1>2, <1>3 DEF BadContext, GoodContext

LEMMA VaultCode == \A v \in Vaults \cup {NoVault} : v.code \in Seq(Byte)
<1>1. <<>> \in Seq(Byte) /\ NoVault.code = <<>>
  BY DEF NoVault
<1>2. ASSUME NEW v \in Vaults PROVE v.code \in {ForgedCode} \cup OldCodes
  BY DEF Vaults
<1> QED BY <1>1, <1>2, BootTypes, BootAssumption

LEMMA VaultKept == ASSUME BootVmInv, [Next]_vars PROVE VaultSound'
BY DEF Next, vars, bootVars, StartHeap, Probe, StartNvme, MapE1000, NewE1000, RefuseVirtio,
       MapVirtio, AllocateVirtio, ReadVault, VmRuns, ReadVaultAsOwner, PrintVault, Traffic,
       BootVmInv, VaultSound

\* Every step of the kernel runs the machine, or leaves it alone.
LEMMA VmPart ==
    ASSUME BootVmInv, [Next]_vars PROVE [VmNext]_vmVars /\ Idle' /\ VaultSound'
<1> SUFFICES [VmNext]_vmVars /\ Idle'
  BY VaultKept
<1>1. CASE StartHeap \/ Probe \/ StartNvme \/ MapE1000 \/ NewE1000 \/ RefuseVirtio
          \/ MapVirtio \/ AllocateVirtio
  <2>1. UNCHANGED vmVars
    BY <1>1 DEF StartHeap, Probe, StartNvme, MapE1000, NewE1000, RefuseVirtio, MapVirtio, AllocateVirtio, KeepVm
  <2>2. boot \notin {"bad", "good"}
    BY <1>1 DEF StartHeap, Probe, StartNvme, MapE1000, NewE1000, RefuseVirtio, MapVirtio, AllocateVirtio
  <2> QED BY <2>1, <2>2 DEF BootVmInv, Idle, vmVars
<1>2. CASE ReadVault
  <2>1. verdict # Running
    BY <1>2 DEF ReadVault, BootVmInv, Idle
  <2>2. CASE nvme = NoDrive
    BY <1>2, <2>1, <2>2 DEF ReadVault, KeepVm, Idle, vmVars
  <2>3. CASE nvme # NoDrive
    <3>1. boot' = "bad" /\ (UNCHANGED vmVars \/ \E c \in Seq(Byte) : Call(c, BadContext))
      BY <1>2, <2>3, VaultCode DEF ReadVault, KeepVm
    <3> QED BY <2>1, <3>1, BootTypes DEF Idle, VmNext
  <2> QED BY <2>2, <2>3
<1>3. CASE VmRuns
  BY <1>3 DEF VmRuns, VmNext, bootVars, Idle
<1>4. CASE ReadVaultAsOwner
  <2>1. /\ Call(vault.code, GoodContext) \/ Forget
        /\ boot' = "good" /\ verdict # Running /\ vault.code \in Seq(Byte)
    BY <1>4, VaultCode DEF ReadVaultAsOwner, BootVmInv, VaultSound
  <2> QED BY <2>1, BootTypes DEF VmNext, Idle
<1>5. CASE PrintVault
  <2>1. verdict # Running /\ Forget
    BY <1>5 DEF PrintVault
  <2>2. verdict' # Running
    BY <2>1 DEF Forget, RanOut, Running
  <2> QED BY <2>1, <2>2 DEF VmNext, Idle
<1>6. CASE Traffic \/ UNCHANGED vars
  BY <1>6 DEF Traffic, KeepVm, bootVars, vars, BootVmInv, Idle, vmVars
<1> QED BY <1>1, <1>2, <1>3, <1>4, <1>5, <1>6 DEF Next

LEMMA BootVmInit == Init => BootVmInv
<1> SUFFICES ASSUME Init PROVE BootVmInv
  OBVIOUS
<1>1. VmInv
  BY VmInitInv DEF Init
<1>2. verdict # Running
  BY DEF Init, VmInit, RanOut, Running
<1>3. VaultSound
  BY DEF Init, VaultSound
<1> QED BY <1>1, <1>2, <1>3 DEF BootVmInv, Idle

\* Whatever file the disk has for a vault, reading it at boot keeps the machine
\* inside its code and its stack.
THEOREM BootVmBounds == Spec => []VmInBounds
<1>1. BootVmInv /\ [Next]_vars => BootVmInv'
  BY VmPart, VmNextInv DEF BootVmInv
<1>2. BootVmInv => VmInBounds
  BY DEF BootVmInv, VmInv
<1> QED BY <1>1, <1>2, BootVmInit, PTL DEF Spec

\* ... and every instruction gets it nearer the end.
THEOREM BootVmAdvances == Spec => VmProgress
<1>1. BootVmInv /\ [Next]_vars => BootVmInv'
  BY VmPart, VmNextInv DEF BootVmInv
<1>2. BootVmInv /\ [Next]_vars
        => [verdict = Running => vpc' > vpc \/ verdict' # Running]_vmVars
  BY VmPart, StepProgress DEF BootVmInv
<1> QED BY <1>1, <1>2, BootVmInit, PTL DEF Spec, VmProgress

-----------------------------------------------------------------------------
(* The network card.                                                       *)

\* Every step of the kernel is a step of the driver or the card, or leaves them
\* alone.
LEMMA NetPart == ASSUME [Next]_vars PROVE [NetStep]_netVars
<1>1. CASE Traffic
  BY <1>1 DEF Traffic
<1>2. CASE StartHeap \/ Probe \/ StartNvme \/ MapE1000 \/ NewE1000 \/ RefuseVirtio
          \/ MapVirtio \/ AllocateVirtio \/ ReadVault \/ VmRuns \/ ReadVaultAsOwner \/ PrintVault
  BY <1>2 DEF StartHeap, Probe, StartNvme, MapE1000, NewE1000, RefuseVirtio, MapVirtio,
              AllocateVirtio, ReadVault, VmRuns, ReadVaultAsOwner, PrintVault, KeepNet
<1>3. CASE UNCHANGED vars
  BY <1>3 DEF vars
<1> QED BY <1>1, <1>2, <1>3 DEF Next

\* An index of a ring goes round.
LEMMA RingNext ==
  ASSUME NEW n \in Nat \ {0, 1}, NEW k \in 0..n - 1
  PROVE  /\ (k + 1) % n = IF k + 1 = n THEN 0 ELSE k + 1
         /\ (k + 1) % n \in 0..n - 1 /\ (k + 1) % n # k
<1>1. CASE k + 1 = n
  <2>1. (k + 1) % n = 0
    BY <1>1
  <2> QED BY <1>1, <2>1
<1>2. CASE k + 1 < n
  <2>1. (k + 1) % n = k + 1
    BY <1>2
  <2> QED BY <1>2, <2>1
<1> QED BY <1>1, <1>2

\* Staging, copying and sending keep the packets in order.
LEMMA TxStep == ASSUME TxInv, [NetStep]_netVars PROVE TxInv'
<1>1. CASE SendPing \/ SendArpRequest
  <2>1. PICK p : Stage(p) /\ p.kind \in {"ping", "arp"}
    <3>1. \A ip : /\ [kind |-> "ping", to |-> ip].kind = "ping"
                  /\ [kind |-> "arp", to |-> ip].kind = "arp"
      OBVIOUS
    <3>2. CASE SendPing
      BY <3>1, <3>2 DEF SendPing
    <3>3. CASE SendArpRequest
      BY <3>1, <3>3 DEF SendArpRequest
    <3> QED BY <1>1, <3>2, <3>3
  <2>2. p # NoPacket
    BY <2>1 DEF NoPacket
  <2>3. (tdh + 1) % NumTx # tdh
    BY RingNext, RingAssumption DEF TxInv
  <2> QED BY <2>1, <2>2, <2>3 DEF Stage, TxInv
<1>2. CASE RingTail
  <2>1. TxNext \in 0..NumTx - 1
    BY RingNext, RingAssumption DEF TxInv, TxNext
  <2> QED BY <1>2, <2>1 DEF RingTail, TxInv, TxTail, TxNext
<1>3. CASE CardSend
  <2>1. (tdh + 1) % NumTx \in 0..NumTx - 1
    BY RingNext, RingAssumption DEF TxInv
  <2> QED BY <1>3, <2>1 DEF CardSend, TxInv
<1>4. CASE PollReceive \/ CardReceive \/ UNCHANGED netVars
  BY <1>4 DEF PollReceive, CardReceive, netVars, txVars, TxInv
<1> QED BY <1>1, <1>2, <1>3, <1>4 DEF NetStep

\* Polling and receiving keep the packets not yet taken in order.
LEMMA RxStep == ASSUME RxInv, [NetStep]_netVars PROVE RxInv'
<1>0. /\ rxIndex \in Slots /\ rdh \in Slots /\ rdt \in Slots /\ slice \in Slots \cup {NoSlice}
      /\ rxBuf \in [Slots -> Nat] /\ done \in [Slots -> BOOLEAN]
      /\ arrived \in Nat /\ taken \in Nat /\ NumRx \in Nat \ {0, 1}
      /\ \A k \in Slots : k \in Nat /\ k < NumRx
  BY RingAssumption DEF RxInv, Slots
<1>1. CASE SendPing \/ SendArpRequest
  <2>1. PICK p : Stage(p)
    BY <1>1 DEF SendPing, SendArpRequest
  <2> QED BY <2>1 DEF Stage, RxInv, Ahead
<1>2. CASE RingTail \/ CardSend \/ UNCHANGED netVars
  BY <1>2 DEF RingTail, CardSend, netVars, rxVars, RxInv, Ahead
<1>3. CASE PollReceive
  <2>1. CASE ~done[rxIndex]
    BY <1>3, <2>1 DEF PollReceive, RxInv, Ahead
  <2>2. CASE done[rxIndex]
    <3>1. /\ done' = [done EXCEPT ![rxIndex] = FALSE] /\ rdt' = rxIndex /\ slice' = rxIndex
          /\ rxIndex' = (rxIndex + 1) % NumRx /\ taken' = taken + 1
          /\ rxBuf' = rxBuf /\ rdh' = rdh /\ arrived' = arrived
      BY <1>3, <2>2 DEF PollReceive, RxTail
    <3>2. rxIndex' = (IF rxIndex + 1 = NumRx THEN 0 ELSE rxIndex + 1) /\ rxIndex' \in Slots
      BY <1>0, <3>1, RingNext DEF Slots
    <3>3. ASSUME NEW k \in Slots
          PROVE  /\ Ahead(k) \in 0..NumRx - 1 /\ (Ahead(k) = 0 <=> k = rxIndex)
                 /\ Ahead(k)' = IF k = rxIndex THEN NumRx - 1 ELSE Ahead(k) - 1
      BY <1>0, <3>2 DEF Ahead
    <3>4. Ahead(rxIndex) = 0 /\ 0 < arrived - taken /\ rxBuf[rxIndex] = taken + 1
      BY <1>0, <2>2, <3>3 DEF RxInv
    <3>5. Ahead(rdh) = arrived - taken
      BY DEF RxInv
    <3>6. rdh # rxIndex /\ Ahead(rdh)' = arrived' - taken' /\ Ahead(rdt)' = NumRx - 1
      <4>1. rdh # rxIndex
        BY <1>0, <3>3, <3>4, <3>5
      <4>2. Ahead(rdh)' = arrived' - taken'
        BY <1>0, <3>1, <3>3, <3>5, <4>1 DEF Ahead
      <4>3. Ahead(rdt)' = NumRx - 1
        BY <1>0, <3>1, <3>2 DEF Ahead
      <4> QED BY <4>1, <4>2, <4>3
    <3>7. ASSUME NEW k \in Slots
          PROVE  /\ done'[k] <=> Ahead(k)' < arrived' - taken'
                 /\ done'[k] => rxBuf'[k] = taken' + Ahead(k)' + 1
      <4>1. CASE k = rxIndex
        <5>1. ~done'[k] /\ Ahead(k)' = NumRx - 1
          BY <1>0, <3>1, <3>3, <4>1
        <5>2. arrived - taken <= NumRx - 1
          BY <1>0, <3>3, <3>5
        <5> QED BY <1>0, <3>1, <5>1, <5>2
      <4>2. CASE k # rxIndex
        <5>1. done'[k] = done[k] /\ Ahead(k)' = Ahead(k) - 1 /\ Ahead(k) \in Nat
          BY <1>0, <3>1, <3>3, <4>2
        <5>2. /\ done[k] <=> Ahead(k) < arrived - taken
              /\ done[k] => rxBuf[k] = taken + Ahead(k) + 1
          BY DEF RxInv
        <5>3. /\ Ahead(k) < arrived - taken <=> Ahead(k)' < arrived' - taken'
              /\ taken + Ahead(k) + 1 = taken' + Ahead(k)' + 1 /\ rxBuf'[k] = rxBuf[k]
          BY <1>0, <3>1, <5>1
        <5> QED BY <5>1, <5>2, <5>3, Zenon
      <4> QED BY <4>1, <4>2
    <3>8. done' \in [Slots -> BOOLEAN] /\ taken' \in Nat
      BY <1>0, <3>1
    <3> QED BY <1>0, <3>1, <3>2, <3>4, <3>6, <3>7, <3>8 DEF RxInv
  <2> QED BY <2>1, <2>2
<1>4. CASE CardReceive
  <2>1. /\ rdh # rdt /\ rxBuf' = [rxBuf EXCEPT ![rdh] = arrived + 1]
        /\ done' = [done EXCEPT ![rdh] = TRUE] /\ rdh' = (rdh + 1) % NumRx
        /\ arrived' = arrived + 1
        /\ rxIndex' = rxIndex /\ rdt' = rdt /\ taken' = taken /\ slice' = slice
    BY <1>4 DEF CardReceive
  <2>2. rdh' = (IF rdh + 1 = NumRx THEN 0 ELSE rdh + 1) /\ rdh' \in Slots
    BY <1>0, <2>1, RingNext DEF Slots
  <2>3. \A k \in Slots : /\ Ahead(k) \in 0..NumRx - 1 /\ Ahead(k)' = Ahead(k)
                         /\ k # rdh => Ahead(k) # Ahead(rdh)
    BY <1>0, <2>1 DEF Ahead
  <2>4. Ahead(rdh) = arrived - taken /\ Ahead(rdt) = NumRx - 1
    BY DEF RxInv
  <2>5. Ahead(rdh)' = arrived' - taken'
    <3>1. IF rdh' >= rxIndex THEN rdh' - rxIndex = arrived + 1 - taken
                             ELSE rdh' - rxIndex + NumRx = arrived + 1 - taken
      BY <1>0, <2>1, <2>2, <2>4 DEF Ahead
    <3> QED BY <1>0, <2>1, <3>1 DEF Ahead
  <2>6. Ahead(rdt)' = NumRx - 1
    BY <1>0, <2>1, <2>4 DEF Ahead
  <2>7. ASSUME NEW k \in Slots
        PROVE  /\ done'[k] <=> Ahead(k)' < arrived' - taken'
               /\ done'[k] => rxBuf'[k] = taken' + Ahead(k)' + 1
    <3>1. CASE k = rdh
      <4>1. done'[k] /\ rxBuf'[k] = arrived + 1 /\ Ahead(k)' = arrived - taken
        BY <1>0, <2>1, <2>3, <2>4, <3>1
      <4> QED BY <1>0, <2>1, <4>1
    <3>2. CASE k # rdh
      <4>1. /\ done'[k] = done[k] /\ rxBuf'[k] = rxBuf[k]
            /\ Ahead(k)' = Ahead(k) /\ Ahead(k) \in Nat /\ Ahead(k) # arrived - taken
        BY <1>0, <2>1, <2>3, <2>4, <3>2
      <4>2. /\ done[k] <=> Ahead(k) < arrived - taken
            /\ done[k] => rxBuf[k] = taken + Ahead(k) + 1
        BY DEF RxInv
      <4>3. /\ Ahead(k) < arrived - taken <=> Ahead(k)' < arrived' - taken'
            /\ taken + Ahead(k) + 1 = taken' + Ahead(k)' + 1
        BY <1>0, <2>1, <4>1
      <4> QED BY <4>1, <4>2, <4>3, Zenon
    <3> QED BY <3>1, <3>2
  <2>8. slice' # NoSlice => slice' = rdt' /\ rxBuf'[slice'] = taken'
    BY <1>0, <2>1 DEF RxInv
  <2>9. rxBuf' \in [Slots -> Nat] /\ done' \in [Slots -> BOOLEAN] /\ arrived' \in Nat
    BY <1>0, <2>1
  <2> QED BY <1>0, <2>1, <2>2, <2>5, <2>6, <2>7, <2>8, <2>9 DEF RxInv
<1> QED BY <1>1, <1>2, <1>3, <1>4 DEF NetStep

LEMMA TxInit == Init => TxInv
<1>1. 0 \in 0..NumTx - 1
  BY RingAssumption
<1> QED BY <1>1 DEF Init, NetInit, TxInv

\* As long as no packet is staged before the card has sent the last one, what
\* was sent goes out whole, once and in order, for rings of every size.
THEOREM BootSentOneByOne == Spec => []SentOneByOne
<1>1. Init => TxInv
  BY TxInit
<1>2. TxInv /\ [Next]_vars => TxInv'
  BY NetPart, TxStep
<1>3. TxInv => SentOneByOne
  <2>1. TxInv => (tdh + 1) % NumTx # tdh
    BY RingNext, RingAssumption DEF TxInv
  <2> QED BY <2>1 DEF TxInv, SentOneByOne
<1> QED BY <1>1, <1>2, <1>3, PTL DEF Spec

LEMMA RxInit == Init => RxInv
<1> SUFFICES ASSUME Init PROVE RxInv
  OBVIOUS
<1>1. /\ rxBuf = [k \in Slots |-> 0] /\ done = [k \in Slots |-> FALSE]
      /\ rxIndex = 0 /\ rdh = 0 /\ rdt = NumRx - 1
      /\ arrived = 0 /\ taken = 0 /\ slice = NoSlice
  BY DEF Init, NetInit
<1>2. 0 \in Slots /\ NumRx - 1 \in Slots /\ \A k \in Slots : k \in Nat
  BY RingAssumption DEF Slots
<1>3. Ahead(rdh) = 0 /\ Ahead(rdt) = NumRx - 1 /\ \A k \in Slots : Ahead(k) = k
  BY <1>1, <1>2, RingAssumption DEF Ahead
<1> QED BY <1>1, <1>2, <1>3 DEF RxInv

\* The slice a caller holds shows the next packet in the order of arrival, and
\* the card does not write into it, for rings of every size.
THEOREM BootSliceShown == Spec => []SliceShowsNextPacket
<1>1. Init => RxInv
  BY RxInit
<1>2. RxInv /\ [Next]_vars => RxInv'
  BY NetPart, RxStep
<1>3. RxInv => SliceShowsNextPacket
  BY DEF RxInv, SliceShowsNextPacket
<1> QED BY <1>1, <1>2, <1>3, PTL DEF Spec
-----------------------------------------------------------------------------
(* The scan of the bus.                                                    *)

Before(d, e) == d[1] < e[1] \/ (d[1] = e[1] /\ d[2] < e[2])

\* The scan is at a function of the bus, and looks at one beyond the first only
\* where the first says that there are several.
AtSound ==
    /\ at \in Nat \X (0..LastFunc)
    /\ at[2] # 0 => /\ at[1] <= LastSlot /\ Device(at[1], 0) # NoDevice
                    /\ board[at[1]].multi
    /\ boot \notin {"heap", "scan", "bad", "good", "up", "panic"} => at[1] <= LastSlot

\* What is being started at it, and that the scan is over when the vault is read.
StageSound ==
    /\ boot \in {"heap", "scan", "nvme", "e1000", "e1000 new", "virtio", "virtio notify",
                 "virtio queue", "virtio mailbox", "virtio backing",
                 "bad", "good", "up", "panic"}
    /\ boot = "nvme" => Here.kind = "nvme" /\ Here.mem
    /\ boot \notin {"heap", "scan", "nvme", "bad", "good", "up", "panic"} => Here.kind # "nvme"
    /\ boot \in {"bad", "good", "up"} => at[1] > LastSlot

\* No controller that answers lies behind the scan without being driven.
NonePassed ==
    /\ nvme # NoDrive => nvme \in Drivable("nvme")
    /\ nvme = NoDrive => \A d \in Drivable("nvme") : ~Before(d, at)

ScanInv == board \in Boards /\ AtSound /\ StageSound /\ NonePassed

LEMMA SlotFacts == ASSUME board \in Boards PROVE LastSlot \in Nat /\ PciSlots = 0..LastSlot
<1>1. PICK last \in Nat : PciSlots = 0..last
  BY BoardsAssumption DEF PciSlots
<1>2. last \in PciSlots /\ \A t \in PciSlots : t <= last
  BY <1>1
<1>3. LastSlot \in PciSlots /\ \A t \in PciSlots : t <= LastSlot
  BY <1>2 DEF LastSlot
<1>4. LastSlot = last
  BY <1>1, <1>2, <1>3
<1> QED BY <1>1, <1>4

\* The function the scan goes on to: a place to look at, with nothing that
\* answers in between.
LEMMA FollowingFacts ==
  ASSUME board \in Boards, AtSound, at[1] <= LastSlot
  PROVE  /\ Following \in Nat \X (0..LastFunc)
         /\ Following[2] # 0 => /\ Following[1] <= LastSlot
                                /\ Device(Following[1], 0) # NoDevice
                                /\ board[Following[1]].multi
         /\ \A d \in Drivable("nvme") : Before(d, Following) => Before(d, at) \/ d = at
<1> DEFINE Leaves == at[2] = LastFunc \/ Device(at[1], 0) = NoDevice \/ ~board[at[1]].multi
<1>0. at[1] \in Nat /\ at[2] \in 0..LastFunc /\ at = <<at[1], at[2]>> /\ LastFunc = 7
  BY DEF AtSound, LastFunc
<1>1. /\ Leaves => Following = <<at[1] + 1, 0>>
      /\ ~Leaves => Following = <<at[1], at[2] + 1>>
  BY DEF Following
<1>2. Following \in Nat \X (0..LastFunc)
  <2>1. CASE Leaves
    BY <1>0, <1>1, <2>1
  <2>2. CASE ~Leaves
    <3>1. at[2] + 1 \in 0..LastFunc
      BY <1>0, <2>2
    <3> QED BY <1>0, <1>1, <2>2, <3>1
  <2> QED BY <2>1, <2>2
<1>3. Following[2] # 0 => ~Leaves /\ Following[1] = at[1]
  BY <1>0, <1>1
<1>4. ASSUME NEW d \in Drivable("nvme"), Before(d, Following) PROVE Before(d, at) \/ d = at
  <2>1. /\ d[1] \in PciSlots /\ d[2] \in 0..LastFunc /\ d = <<d[1], d[2]>>
        /\ Device(d[1], 0) # NoDevice /\ (d[2] = 0 \/ board[d[1]].multi)
    BY DEF Drivable, Answers
  <2>2. d[1] \in Nat /\ d[2] \in 0..7
    BY <1>0, <2>1, SlotFacts
  <2>3. CASE Leaves
    <3>1. d[1] < at[1] + 1
      BY <1>0, <1>1, <1>4, <2>2, <2>3 DEF Before
    <3>2. CASE d[1] < at[1]
      BY <3>2 DEF Before
    <3>3. CASE d[1] = at[1]
      <4>1. at[2] = 7 \/ d[2] = 0
        BY <1>0, <2>1, <2>3, <3>3
      <4>2. d[2] < at[2] \/ d[2] = at[2]
        BY <1>0, <2>2, <4>1
      <4>3. d[2] = at[2] => d = at
        BY <1>0, <2>1, <3>3
      <4> QED BY <3>3, <4>2, <4>3 DEF Before
    <3> QED BY <1>0, <2>2, <3>1, <3>2, <3>3
  <2>4. CASE ~Leaves
    <3>1. d[1] < at[1] \/ (d[1] = at[1] /\ (d[2] < at[2] \/ d[2] = at[2]))
      BY <1>0, <1>1, <1>4, <2>2, <2>4 DEF Before
    <3>2. d[1] = at[1] /\ d[2] = at[2] => d = at
      BY <1>0, <2>1
    <3> QED BY <3>1, <3>2 DEF Before
  <2> QED BY <2>3, <2>4
<1>5. ~Leaves => Device(at[1], 0) # NoDevice /\ board[at[1]].multi
  OBVIOUS
<1> QED BY <1>2, <1>3, <1>4, <1>5

\* The scan goes on: from a function that is not a drive, or has become the drive.
LEMMA GoOn ==
  ASSUME ScanInv, at[1] <= LastSlot, boot' = "scan", at' = Following, board' = board,
         \/ nvme' = nvme /\ at \notin Drivable("nvme")
         \/ nvme' = at /\ at \in Drivable("nvme")
  PROVE  ScanInv'
<1>1. LastSlot' = LastSlot /\ Drivable("nvme")' = Drivable("nvme")
  BY DEF LastSlot, PciSlots, Drivable, Answers, Device
<1>2. /\ Following \in Nat \X (0..LastFunc)
      /\ Following[2] # 0 => /\ Following[1] <= LastSlot
                             /\ Device(Following[1], 0) # NoDevice
                             /\ board[Following[1]].multi
      /\ \A d \in Drivable("nvme") : Before(d, Following) => Before(d, at) \/ d = at
  BY FollowingFacts DEF ScanInv
<1>3. AtSound'
  BY <1>1, <1>2 DEF AtSound, Device
<1>4. StageSound'
  BY DEF StageSound
<1>5. NonePassed'
  <2>1. CASE nvme' = at /\ at \in Drivable("nvme")
    <3>1. nvme' # NoDrive
      BY <2>1 DEF ScanInv, AtSound, NoDrive
    <3> QED BY <1>1, <2>1, <3>1 DEF NonePassed
  <2>2. CASE nvme' = nvme /\ at \notin Drivable("nvme")
    <3>1. \A d \in Drivable("nvme") : Before(d, at') => Before(d, at)
      BY <1>2, <2>2
    <3> QED BY <1>1, <2>2, <3>1 DEF ScanInv, NonePassed, Before
  <2> QED BY <2>1, <2>2
<1> QED BY <1>3, <1>4, <1>5 DEF ScanInv

\* The scan stays where it is, in another stage.
LEMMA StayAt ==
  ASSUME ScanInv, at' = at, board' = board, nvme' = nvme, StageSound',
         boot' \notin {"heap", "scan", "bad", "good", "up", "panic"} => at[1] <= LastSlot
  PROVE  ScanInv'
<1>1. LastSlot' = LastSlot /\ Drivable("nvme")' = Drivable("nvme")
  BY DEF LastSlot, PciSlots, Drivable, Answers, Device
<1>2. AtSound'
  BY <1>1 DEF ScanInv, AtSound, Device
<1>3. NonePassed'
  BY <1>1 DEF ScanInv, NonePassed, Before
<1> QED BY <1>2, <1>3 DEF ScanInv

\* Every step of the kernel keeps the scan sound.
LEMMA ScanStep == ASSUME ScanInv, [Next]_vars PROVE ScanInv'
<1> DEFINE Quiet == {"heap", "scan", "bad", "good", "up", "panic"}
<1>0. /\ board \in Boards
      /\ boot \notin Quiet => at[1] <= LastSlot
      /\ boot \notin Quiet \cup {"nvme"} => at \notin Drivable("nvme")
      /\ at[1] <= LastSlot => (at \in Drivable("nvme") => Here.kind = "nvme" /\ Here.mem)
  BY DEF ScanInv, AtSound, StageSound, Drivable, Here
<1>1. at[1] \in Nat /\ at[2] \in 0..LastFunc /\ at = <<at[1], at[2]>> /\ LastSlot \in Nat
  BY <1>0, SlotFacts DEF ScanInv, AtSound
<1>2. CASE StartHeap
  <2>1. boot = "heap" /\ boot' \in {"scan", "panic"} /\ UNCHANGED <<board, at, nvme>>
    BY <1>2 DEF StartHeap
  <2>2. StageSound'
    BY <2>1 DEF StageSound
  <2> QED BY <2>1, <2>2, StayAt
<1>3. CASE Probe
  <2>1. /\ boot = "scan" /\ at[1] <= LastSlot /\ UNCHANGED <<board, nvme>>
    BY <1>3 DEF Probe
  <2>2. CASE (Here.kind = "virtio") \/ (Here.kind \in {"nvme", "e1000"} /\ Here.mem)
    <3>1. boot' = Here.kind /\ at' = at
      BY <1>3, <2>2 DEF Probe
    <3>2. Here' = Here
      BY <2>1, <3>1 DEF Here, Device
    <3>3. StageSound'
      BY <2>2, <3>1, <3>2 DEF StageSound
    <3> QED BY <2>1, <3>1, <3>3, StayAt
  <2>3. CASE ~((Here.kind = "virtio") \/ (Here.kind \in {"nvme", "e1000"} /\ Here.mem))
    <3>1. boot' = "scan" /\ at' = Following
      BY <1>3, <2>1, <2>3 DEF Probe
    <3>2. at \notin Drivable("nvme")
      BY <1>0, <2>1, <2>3
    <3> QED BY <2>1, <3>1, <3>2, GoOn
  <2> QED BY <2>2, <2>3
<1>4. CASE StartNvme
  <2>1. boot = "nvme" /\ UNCHANGED board
    BY <1>4 DEF StartNvme
  <2>2. at \in Drivable("nvme")
    <3>1. Here.kind = "nvme" /\ Here.mem /\ at[1] <= LastSlot
      BY <1>0, <2>1 DEF ScanInv, StageSound
    <3>2. at[1] \in PciSlots
      BY <1>0, <1>1, <3>1, SlotFacts
    <3>3. Here # NoDevice
      BY <3>1 DEF NoDevice
    <3>4. Answers(at[1], at[2])
      BY <3>3 DEF Here, Answers, ScanInv, AtSound
    <3> QED BY <1>1, <3>1, <3>2, <3>4 DEF Drivable, Here
  <2>3. CASE granted' = "ok"
    <3>1. boot' = "scan" /\ at' = Following /\ nvme' = at
      BY <1>4, <2>3 DEF StartNvme
    <3> QED BY <1>0, <2>1, <2>2, <3>1, GoOn
  <2>4. CASE granted' # "ok"
    <3>1. boot' = "panic" /\ at' = at /\ nvme' = nvme
      BY <1>4, <2>4 DEF StartNvme
    <3>2. StageSound'
      BY <3>1 DEF StageSound
    <3> QED BY <2>1, <3>1, <3>2, StayAt
  <2> QED BY <2>3, <2>4
<1>5. CASE MapE1000 \/ NewE1000 \/ RefuseVirtio \/ MapVirtio \/ AllocateVirtio
  <2> USE DEF MapE1000, NewE1000, RefuseVirtio, MapVirtio, AllocateVirtio, GoOnOrGiveUp
  <2>1. boot \notin Quiet \cup {"nvme"} /\ UNCHANGED <<board, nvme>>
    BY <1>5
  <2>2. \/ boot' = "scan" /\ at' = Following
        \/ /\ at' = at
           /\ boot' \in {"panic", "e1000 new", "virtio notify", "virtio queue", "virtio mailbox",
                         "virtio backing"}
    BY <1>5
  <2> HIDE DEF MapE1000, NewE1000, RefuseVirtio, MapVirtio, AllocateVirtio, GoOnOrGiveUp
  <2>3. CASE boot' = "scan" /\ at' = Following
    BY <1>0, <2>1, <2>3, GoOn
  <2>4. CASE /\ at' = at
             /\ boot' \in {"panic", "e1000 new", "virtio notify", "virtio queue", "virtio mailbox",
                           "virtio backing"}
    <3>1. Here' = Here /\ Here.kind # "nvme"
      BY <2>1, <2>4 DEF Here, Device, ScanInv, StageSound
    <3>2. StageSound'
      BY <2>4, <3>1 DEF StageSound
    <3> QED BY <1>0, <2>1, <2>4, <3>2, StayAt
  <2> QED BY <2>2, <2>3, <2>4
<1>6. CASE ReadVault
  <2>1. at[1] > LastSlot /\ boot' \in {"up", "bad"} /\ UNCHANGED <<board, at, nvme>>
    BY <1>6 DEF ReadVault
  <2>2. LastSlot' = LastSlot
    BY <2>1 DEF LastSlot, PciSlots
  <2>3. StageSound'
    BY <2>1, <2>2 DEF StageSound
  <2> QED BY <2>1, <2>3, StayAt
<1>7. CASE ReadVaultAsOwner \/ PrintVault
  <2>1. /\ boot \in {"bad", "good"} /\ boot' \in {"good", "up", "panic"}
        /\ UNCHANGED <<board, at, nvme>>
    BY <1>7 DEF ReadVaultAsOwner, PrintVault
  <2>2. LastSlot' = LastSlot
    BY <2>1 DEF LastSlot, PciSlots
  <2>3. StageSound'
    BY <2>1, <2>2 DEF ScanInv, StageSound
  <2> QED BY <2>1, <2>3, StayAt
<1>8. CASE VmRuns \/ Traffic \/ UNCHANGED vars
  <2>1. UNCHANGED bootVars
    BY <1>8 DEF VmRuns, Traffic, vars
  <2>2. LastSlot' = LastSlot /\ Here' = Here
    BY <2>1 DEF bootVars, LastSlot, PciSlots, Here, Device
  <2>3. StageSound'
    BY <2>1, <2>2 DEF bootVars, ScanInv, StageSound
  <2> QED BY <1>0, <2>1, <2>3, StayAt DEF bootVars
<1> QED BY <1>2, <1>3, <1>4, <1>5, <1>6, <1>7, <1>8 DEF Next

LEMMA ScanInit == Init => ScanInv
<1> SUFFICES ASSUME Init PROVE ScanInv
  OBVIOUS
<1>1. board \in Boards /\ boot = "heap" /\ at = <<0, 0>> /\ nvme = NoDrive
  BY DEF Init
<1>2. AtSound
  BY <1>1 DEF AtSound, LastFunc
<1>3. StageSound
  BY <1>1 DEF StageSound
<1>4. \A d \in Drivable("nvme") : d[1] \in Nat /\ d[2] \in Nat
  BY <1>1, SlotFacts DEF Drivable, LastFunc
<1>5. NonePassed
  BY <1>1, <1>4 DEF NonePassed, Before
<1> QED BY <1>1, <1>2, <1>3, <1>5 DEF ScanInv

LEMMA ScanDone == ScanInv => DriveFound
<1> SUFFICES ASSUME ScanInv, boot \in {"bad", "good", "up"}
             PROVE  IF Drivable("nvme") = {} THEN nvme = NoDrive ELSE nvme \in Drivable("nvme")
  BY DEF DriveFound
<1>1. at[1] \in Nat /\ at[1] > LastSlot
  BY DEF ScanInv, StageSound, AtSound
<1>2. \A d \in Drivable("nvme") : d[1] \in 0..LastSlot /\ LastSlot \in Nat
  BY SlotFacts DEF ScanInv, Drivable
<1>3. \A d \in Drivable("nvme") : Before(d, at)
  BY <1>1, <1>2 DEF Before
<1>4. CASE nvme = NoDrive
  <2>1. Drivable("nvme") = {}
    BY <1>3, <1>4 DEF ScanInv, NonePassed
  <2> QED BY <1>4, <2>1
<1>5. CASE nvme # NoDrive
  BY <1>5 DEF ScanInv, NonePassed
<1> QED BY <1>4, <1>5

\* Whatever is on the bus, and however many slots it has, the scan of pci.rs
\* leaves NVME_DRIVE with a controller that answers, unless there is none.
THEOREM BootDriveFound == Spec => []DriveFound
<1>1. ScanInv /\ [Next]_vars => ScanInv'
  BY ScanStep
<1> QED BY <1>1, ScanInit, ScanDone, PTL DEF Spec
-----------------------------------------------------------------------------
(* The types of the whole.                                                 *)

NetInv == TxInv /\ RxInv /\ NetTypeOK

LEMMA NetInvInit == Init => NetInv
<1> SUFFICES ASSUME Init PROVE NetInv
  OBVIOUS
<1>1. TxInv /\ RxInv
  BY TxInit, RxInit
<1>2. NetTypeOK
  <2>1. /\ txBuf = NoPacket /\ sending = NoPacket /\ sent = <<>> /\ wire = <<>>
        /\ rxBuf = [k \in Slots |-> 0] /\ arrived = 0 /\ taken = 0
    BY DEF Init, NetInit
  <2>2. 0 \in 0..MaxArrivals /\ 0 \in 0..0
    BY ArrivalsAssumption
  <2>3. rxBuf \in [Slots -> 0..MaxArrivals]
    BY <2>1, <2>2
  <2> QED BY <1>1, <2>1, <2>2, <2>3 DEF NetTypeOK, TxInv, RxInv
<1> QED BY <1>1, <1>2 DEF NetInv

LEMMA TakenArrived == RxInv => taken \in 0..arrived
<1> SUFFICES ASSUME RxInv PROVE taken \in 0..arrived
  OBVIOUS
<1>1. arrived \in Nat /\ taken \in Nat /\ rdh \in Slots /\ rxIndex \in Slots
  BY DEF RxInv
<1>2. rdh \in Nat /\ rxIndex \in Nat /\ rxIndex < NumRx /\ NumRx \in Nat
  BY <1>1, RingAssumption DEF Slots
<1>3. Ahead(rdh) \in Int /\ Ahead(rdh) >= 0
  BY <1>2 DEF Ahead
<1>4. Ahead(rdh) = arrived - taken
  BY DEF RxInv
<1>5. taken <= arrived
  BY <1>1, <1>3, <1>4
<1> QED BY <1>1, <1>5

LEMMA NetInvStep == ASSUME NetInv, [NetStep]_netVars PROVE NetInv'
<1>1. TxInv' /\ RxInv'
  BY TxStep, RxStep DEF NetInv
<1>2. /\ {txIndex, tdh, tdt}' \subseteq 0..NumTx - 1 /\ overrun' \in BOOLEAN
      /\ {rxIndex, rdh, rdt}' \subseteq Slots /\ done' \in [Slots -> BOOLEAN]
      /\ slice' \in Slots \cup {NoSlice}
  BY <1>1 DEF TxInv, RxInv
<1>3. (RxInv => taken \in 0..arrived)'
  BY TakenArrived, PTL
<1> DEFINE Bufs == Packets \cup {Torn, NoPacket}
<1>4. /\ txBuf \in Bufs /\ sending \in Bufs /\ sent \in Seq(Packets) /\ wire \in Seq(Bufs)
      /\ rxBuf \in [Slots -> 0..MaxArrivals] /\ arrived \in 0..MaxArrivals
  BY DEF NetInv, NetTypeOK
<1>5. /\ txBuf' \in Bufs /\ sending' \in Bufs /\ sent' \in Seq(Packets) /\ wire' \in Seq(Bufs)
      /\ rxBuf' \in [Slots -> 0..MaxArrivals] /\ arrived' \in 0..MaxArrivals
  <2>1. CASE SendPing \/ SendArpRequest
    <3>1. PICK p \in Packets : Stage(p)
      BY <2>1 DEF SendPing, SendArpRequest, Packets
    <3> QED BY <1>4, <3>1 DEF Stage
  <2>2. CASE RingTail
    BY <1>4, <2>2 DEF RingTail, rxVars
  <2>3. CASE PollReceive
    BY <1>4, <2>3 DEF PollReceive, txVars
  <2>4. CASE CardSend
    BY <1>4, <2>4 DEF CardSend, rxVars
  <2>5. CASE CardReceive
    <3>1. arrived + 1 \in 0..MaxArrivals
      BY <1>4, <2>5, ArrivalsAssumption DEF CardReceive
    <3> QED BY <1>4, <2>5, <3>1 DEF CardReceive, txVars
  <2>6. CASE UNCHANGED netVars
    BY <1>4, <2>6 DEF netVars, txVars, rxVars
  <2> QED BY <2>1, <2>2, <2>3, <2>4, <2>5, <2>6 DEF NetStep
<1>6. NetTypeOK'
  BY <1>1, <1>2, <1>3, <1>5 DEF NetTypeOK
<1> QED BY <1>1, <1>6 DEF NetInv

\* The network card's function and the pages mapped.
RestSound ==
    /\ net \in {NoDrive} \cup (PciSlots \X (0..LastFunc))
    /\ mapped \subseteq Pages

LEMMA RestStep == ASSUME ScanInv, RestSound, [Next]_vars PROVE RestSound'
<1>1. PciSlots' = PciSlots
  BY DEF Next, vars, bootVars, PciSlots, StartHeap, Probe, StartNvme, MapE1000, NewE1000, RefuseVirtio,
         MapVirtio, AllocateVirtio, ReadVault, VmRuns, ReadVaultAsOwner, PrintVault, Traffic
<1>2. boot \notin {"heap", "scan", "bad", "good", "up", "panic"}
        => /\ Here.region \subseteq Pages
           /\ at \in PciSlots \X (0..LastFunc)
  <2> SUFFICES ASSUME boot \notin {"heap", "scan", "bad", "good", "up", "panic"}
               PROVE  /\ Here.region \subseteq Pages
                      /\ at \in PciSlots \X (0..LastFunc)
    OBVIOUS
  <2>1. at \in Nat \X (0..LastFunc) /\ at[1] <= LastSlot /\ board \in Boards
    BY DEF ScanInv, AtSound
  <2>2. at[1] \in PciSlots
    BY <2>1, SlotFacts
  <2>3. at \in PciSlots \X (0..LastFunc)
    BY <2>1, <2>2
  <2>4. Here.region \subseteq Pages
    BY <2>1, <2>2, BoardsAssumption DEF Here, Device, NoDevice, PciSlots
  <2> QED BY <2>3, <2>4
<1>3. ASSUME NEW region \in SUBSET Pages, NEW tables, MapMmio(region, tables) PROVE mapped' \subseteq Pages
  BY <1>3 DEF MapMmio, RestSound
<1>4. mapped' \subseteq Pages
  <2>1. CASE StartHeap
    BY <2>1, BoardsAssumption DEF StartHeap, InitHeap, RestSound
  <2>2. CASE StartNvme \/ MapE1000 \/ MapVirtio
    BY <2>2, <1>2, <1>3 DEF StartNvme, MapE1000, MapVirtio
  <2>3. CASE NewE1000 \/ AllocateVirtio
    BY <2>3 DEF NewE1000, AllocateVirtio, AllocateDmaFrames, RestSound
  <2>4. CASE Probe \/ RefuseVirtio \/ ReadVault \/ VmRuns \/ ReadVaultAsOwner \/ PrintVault \/ Traffic
    BY <2>4 DEF Probe, RefuseVirtio, ReadVault, VmRuns, ReadVaultAsOwner, PrintVault, Traffic, KeepMem,
                memVars, RestSound
  <2>5. CASE UNCHANGED vars
    BY <2>5 DEF vars, memVars, RestSound
  <2> QED BY <2>1, <2>2, <2>3, <2>4, <2>5 DEF Next
<1>5. net' \in {NoDrive} \cup (PciSlots \X (0..LastFunc))
  <2>1. CASE NewE1000
    BY <1>2, <2>1 DEF NewE1000, RestSound
  <2>2. CASE StartHeap \/ Probe \/ StartNvme \/ MapE1000 \/ RefuseVirtio \/ MapVirtio \/ AllocateVirtio
            \/ ReadVault \/ VmRuns \/ ReadVaultAsOwner \/ PrintVault \/ Traffic \/ UNCHANGED vars
    BY <2>2 DEF vars, bootVars, StartHeap, Probe, StartNvme, MapE1000, RefuseVirtio, MapVirtio,
                AllocateVirtio, ReadVault, VmRuns, ReadVaultAsOwner, PrintVault, Traffic, RestSound
  <2> QED BY <2>1, <2>2 DEF Next
<1> QED BY <1>1, <1>4, <1>5 DEF RestSound

BootInv == MemInv /\ BootVmInv /\ NetInv /\ ScanInv /\ RestSound

LEMMA BootInvType == BootInv => TypeOK
<1> SUFFICES ASSUME BootInv PROVE TypeOK
  OBVIOUS
<1>1. MemTypeOK /\ VmTypeOK /\ NetTypeOK
  BY DEF BootInv, MemInv, BootVmInv, VmInv, NetInv
<1>2. nvme \in {NoDrive} \cup (PciSlots \X (0..LastFunc))
  BY DEF BootInv, ScanInv, NonePassed, Drivable
<1> QED BY <1>1, <1>2 DEF BootInv, BootVmInv, VaultSound, ScanInv, AtSound, StageSound, RestSound, TypeOK

\* Types of the whole boot: every driver's function is one of the bus, and no
\* page is mapped that belongs neither to the heap nor to a device.
THEOREM BootTypeOK == Spec => []TypeOK
<1>1. Init => BootInv
  <2>1. Init => RestSound
    BY DEF Init, MemInit, RestSound
  <2> QED BY <2>1, MemInitInv, BootVmInit, NetInvInit, ScanInit DEF Init, BootInv
<1>2. BootInv /\ [Next]_vars => BootInv'
  <2> SUFFICES ASSUME BootInv, [Next]_vars PROVE BootInv'
    OBVIOUS
  <2>1. MemInv'
    BY MemPart, MemStepInv DEF BootInv
  <2>2. BootVmInv'
    BY VmPart, VmNextInv DEF BootInv, BootVmInv
  <2>3. NetInv'
    BY NetPart, NetInvStep DEF BootInv
  <2>4. ScanInv' /\ RestSound'
    BY ScanStep, RestStep DEF BootInv
  <2> QED BY <2>1, <2>2, <2>3, <2>4 DEF BootInv
<1> QED BY <1>1, <1>2, BootInvType, PTL DEF Spec
-----------------------------------------------------------------------------
(* The machine and the policies: what Compile writes.                      *)

LEMMA Joined ==
  ASSUME NEW S, NEW s \in Seq(S), NEW t \in Seq(S)
  PROVE  /\ s \o t \in Seq(S) /\ Len(s \o t) = Len(s) + Len(t)
         /\ \A i \in 1..Len(s) : (s \o t)[i] = s[i]
         /\ \A i \in 1..Len(t) : (s \o t)[Len(s) + i] = t[i]
<1>1. /\ s \o t \in Seq(S) /\ Len(s \o t) = Len(s) + Len(t)
      /\ \A i \in 1..Len(s) + Len(t) : (s \o t)[i] = IF i <= Len(s) THEN s[i] ELSE t[i - Len(s)]
  BY ConcatProperties
<1>2. Len(s) \in Nat /\ Len(t) \in Nat
  OBVIOUS
<1>3. ASSUME NEW i \in 1..Len(s) PROVE (s \o t)[i] = s[i]
  <2>1. i \in 1..Len(s) + Len(t) /\ i <= Len(s)
    BY <1>2
  <2> QED BY <1>1, <2>1
<1>4. ASSUME NEW i \in 1..Len(t) PROVE (s \o t)[Len(s) + i] = t[i]
  <2>1. Len(s) + i \in 1..Len(s) + Len(t) /\ ~(Len(s) + i <= Len(s)) /\ (Len(s) + i) - Len(s) = i
    BY <1>2
  <2> QED BY <1>1, <2>1
<1> QED BY <1>1, <1>3, <1>4

LEMMA ConditionType ==
  ASSUME NEW c \in Conditions
  PROVE  /\ c.var \in Vars /\ c.op \in {OpEq, OpNeq} /\ c.error \in Byte
         /\ c.kind \in {"var", "const"}
         /\ c.kind = "var" => c.with \in [1..1 -> Vars]
         /\ c.kind = "const" => c.with \in Hash
BY DEF Conditions

\* Bytes of the operand of a condition, and of the condition.
OperandSize(c) == IF c.kind = "var" THEN 2 ELSE HashLen + 1
ConditionSize(c) == OperandSize(c) + 5

LEMMA OperandFacts ==
  ASSUME NEW c \in Conditions
  PROVE  /\ OperandSize(c) \in Nat /\ OperandSize(c) >= 2
         /\ Operand(c) \in Seq(Byte) /\ Len(Operand(c)) = OperandSize(c)
         /\ Operand(c)[1] = IF c.kind = "var" THEN OpPushVar ELSE OpPushConst
         /\ \A i \in 1..OperandSize(c) - 1 : Operand(c)[1 + i] = c.with[i]
<1>1. Vars \subseteq Byte /\ OpPushVar \in Byte /\ OpPushConst \in Byte
  BY DEF Vars, VarRequestor, VarAction, VarOwner, VarStatus, Byte, OpPushVar, OpPushConst
<1>2. HashLen \in Nat /\ HashLen >= 1
  BY VmAssumption
<1>3. ASSUME NEW n \in Nat, NEW w \in [1..n -> Byte], NEW op \in Byte
      PROVE  /\ <<op>> \o w \in Seq(Byte) /\ Len(<<op>> \o w) = n + 1
             /\ (<<op>> \o w)[1] = op
             /\ \A i \in 1..n : (<<op>> \o w)[1 + i] = w[i]
  <2>1. w \in Seq(Byte) /\ Len(w) = n
    OBVIOUS
  <2>2. <<op>> \in Seq(Byte) /\ Len(<<op>>) = 1 /\ <<op>>[1] = op
    OBVIOUS
  <2>3. /\ <<op>> \o w \in Seq(Byte) /\ Len(<<op>> \o w) = Len(<<op>>) + Len(w)
        /\ \A i \in 1..Len(<<op>>) : (<<op>> \o w)[i] = <<op>>[i]
        /\ \A i \in 1..Len(w) : (<<op>> \o w)[Len(<<op>>) + i] = w[i]
    BY <2>1, <2>2, Joined
  <2>4. 1 \in 1..1 /\ 1 + n = n + 1
    OBVIOUS
  <2> QED BY <2>1, <2>2, <2>3, <2>4
<1>4. CASE c.kind = "var"
  <2>1. c.with \in [1..1 -> Byte] /\ 1 \in Nat
    BY <1>1, <1>4, ConditionType
  <2>2. OperandSize(c) = 1 + 1 /\ OperandSize(c) - 1 = 1 /\ Operand(c) = <<OpPushVar>> \o c.with
    BY <1>4 DEF OperandSize, Operand
  <2> QED BY <1>1, <1>3, <1>4, <2>1, <2>2
<1>5. CASE c.kind # "var"
  <2>1. c.with \in [1..HashLen -> Byte]
    BY <1>1, <1>5, ConditionType DEF Hash
  <2>2. /\ OperandSize(c) = HashLen + 1 /\ OperandSize(c) - 1 = HashLen
        /\ Operand(c) = <<OpPushConst>> \o c.with
    BY <1>2, <1>5 DEF OperandSize, Operand
  <2>3. OperandSize(c) \in Nat /\ OperandSize(c) >= 2
    BY <1>2, <2>2
  <2> QED BY <1>1, <1>2, <1>3, <1>5, <2>1, <2>2, <2>3
<1> QED BY <1>4, <1>5

LEMMA ConditionFacts ==
  ASSUME NEW c \in Conditions
  PROVE  LET o == OperandSize(c) IN
         /\ Condition(c) \in Seq(Byte) /\ Len(Condition(c)) = ConditionSize(c)
         /\ Condition(c)[1] = OpPushVar /\ Condition(c)[2] = c.var
         /\ \A i \in 1..o : Condition(c)[2 + i] = Operand(c)[i]
         /\ Condition(c)[3 + o] = c.op
         /\ Condition(c)[4 + o] = OpAssert /\ Condition(c)[5 + o] = c.error
<1> DEFINE o == OperandSize(c)
           head == <<OpPushVar, c.var>>
           tail == <<OpAssert, c.error>>
           most == head \o Operand(c)
           nearly == most \o <<c.op>>
<1>1. /\ OpPushVar \in Byte /\ c.var \in Byte /\ c.op \in Byte /\ OpAssert \in Byte /\ c.error \in Byte
  BY ConditionType
     DEF Vars, VarRequestor, VarAction, VarOwner, VarStatus, Byte, OpPushVar, OpEq, OpNeq, OpAssert
<1>2. /\ head \in Seq(Byte) /\ Len(head) = 2 /\ head[1] = OpPushVar /\ head[2] = c.var
      /\ <<c.op>> \in Seq(Byte) /\ Len(<<c.op>>) = 1 /\ <<c.op>>[1] = c.op
      /\ tail \in Seq(Byte) /\ Len(tail) = 2 /\ tail[1] = OpAssert /\ tail[2] = c.error
  BY <1>1
<1>3. o \in Nat /\ Operand(c) \in Seq(Byte) /\ Len(Operand(c)) = o
  BY OperandFacts
<1>4. Condition(c) = nearly \o tail
  BY DEF Condition
<1> HIDE DEF o, head, tail
<1>5. /\ most \in Seq(Byte) /\ Len(most) = 2 + o
      /\ \A i \in 1..2 : most[i] = head[i]
      /\ \A i \in 1..o : most[2 + i] = Operand(c)[i]
  <2>1. /\ head \o Operand(c) \in Seq(Byte)
        /\ Len(head \o Operand(c)) = Len(head) + Len(Operand(c))
        /\ \A i \in 1..Len(head) : (head \o Operand(c))[i] = head[i]
        /\ \A i \in 1..Len(Operand(c)) : (head \o Operand(c))[Len(head) + i] = Operand(c)[i]
    <3>1. head \in Seq(Byte) /\ Operand(c) \in Seq(Byte)
      BY <1>2, <1>3
    <3> QED BY <3>1, Joined
  <2> QED BY <1>2, <1>3, <2>1
<1> HIDE DEF most
<1>6. /\ nearly \in Seq(Byte) /\ Len(nearly) = 2 + o + 1
      /\ \A i \in 1..2 + o : nearly[i] = most[i]
      /\ nearly[2 + o + 1] = c.op
  <2>1. 1 \in 1..1
    OBVIOUS
  <2> QED BY <1>2, <1>5, <2>1, Joined
<1> HIDE DEF nearly
<1>7. /\ Condition(c) \in Seq(Byte) /\ Len(Condition(c)) = 2 + o + 1 + 2
      /\ \A i \in 1..2 + o + 1 : Condition(c)[i] = nearly[i]
      /\ Condition(c)[2 + o + 1 + 1] = OpAssert /\ Condition(c)[2 + o + 1 + 2] = c.error
  <2>1. 1 \in 1..2 /\ 2 \in 1..2
    OBVIOUS
  <2>2. /\ nearly \o tail \in Seq(Byte)
        /\ Len(nearly \o tail) = Len(nearly) + Len(tail)
        /\ \A i \in 1..Len(nearly) : (nearly \o tail)[i] = nearly[i]
        /\ \A i \in 1..Len(tail) : (nearly \o tail)[Len(nearly) + i] = tail[i]
    <3>1. nearly \in Seq(Byte) /\ tail \in Seq(Byte)
      BY <1>2, <1>6
    <3> QED BY <3>1, Joined
  <2> QED BY <1>2, <1>4, <1>6, <2>1, <2>2
<1>8. /\ 2 + o + 1 + 2 = o + 5 /\ 2 + o + 1 = 3 + o /\ 2 + o + 1 + 1 = 4 + o /\ 2 + o + 1 + 2 = 5 + o
      /\ 3 + o \in 1..3 + o
      /\ \A i \in 1..2 + o : i \in 1..3 + o
      /\ \A i \in 1..2 : i \in 1..2 + o
      /\ \A i \in 1..o : 2 + i \in 1..2 + o
      /\ 1 \in 1..2 /\ 2 \in 1..2
  BY <1>3
<1>9. Condition(c)[1] = OpPushVar /\ Condition(c)[2] = c.var
  BY <1>2, <1>5, <1>6, <1>7, <1>8
<1>10. \A i \in 1..o : Condition(c)[2 + i] = Operand(c)[i]
  BY <1>5, <1>6, <1>7, <1>8
<1>11. Len(Condition(c)) = ConditionSize(c)
  BY <1>7, <1>8 DEF ConditionSize, o
<1> QED BY <1>6, <1>7, <1>8, <1>9, <1>10, <1>11 DEF o

\* Two sequences that start alike and go on alike are the same.
LEMMA SameSteps ==
  ASSUME NEW n \in Nat, NEW f, NEW g, f[0] = g[0],
         \A k \in 0..n - 1 : f[k] = g[k] => f[k + 1] = g[k + 1]
  PROVE  \A k \in 0..n : f[k] = g[k]
<1> DEFINE S == {k \in 0..n : f[k] = g[k]}
<1>1. \A k \in 0..n : k \in S <=> f[k] = g[k]
  OBVIOUS
<1> HIDE DEF S
<1>2. 0 \in S
  BY <1>1
<1>3. \A k \in 0..n - 1 : k \in S => k + 1 \in S
  <2>1. \A k \in 0..n - 1 : k \in 0..n /\ k + 1 \in 0..n
    OBVIOUS
  <2> QED BY <1>1, <2>1
<1>4. 0..n \subseteq S
  BY <1>2, <1>3, UpToBySteps
<1> QED BY <1>1, <1>4

\* The bytecode of a policy, condition by condition.
Writes(p, f) ==
    /\ f \in [Nat -> Seq(Byte)] /\ f[0] = <<>>
    /\ \A k \in 0..Len(p) - 1 : f[k + 1] = f[k] \o Condition(p[k + 1])
    /\ Compile(p) = f[Len(p)] \o <<OpHaltOk>>

LEMMA CompileSteps == ASSUME NEW p \in Seq(Conditions) PROVE \E f : Writes(p, f)
<1> DEFINE V == Seq(Byte)
           n == Len(p)
           More(k, v) == IF k \in 1..n THEN v \o Condition(p[k]) ELSE v
           G == [k \in Nat |-> [v \in V |-> More(k, v)]]
           IsUpto(f) == f = [k \in 0..n |-> IF k = 0 THEN <<>> ELSE f[k - 1] \o Condition(p[k])]
<1>1. n \in Nat /\ <<>> \in V /\ \A k \in 1..n : p[k] \in Conditions
  BY ElementOfSeq
<1>2. ASSUME NEW k \in Nat, NEW v \in V PROVE More(k, v) \in V
  <2>1. CASE k \in 1..n
    <3>1. Condition(p[k]) \in V
      BY <1>1, <2>1, ConditionFacts
    <3>2. v \o Condition(p[k]) \in V
      BY <3>1
    <3> QED BY <2>1, <3>2
  <2>2. CASE k \notin 1..n
    BY <2>2
  <2> QED BY <2>1, <2>2
<1>3. G \in StepsOn(V)
  <2> HIDE DEF More, V
  <2> QED BY <1>2 DEF StepsOn
<1>4. \A k \in Nat, v \in V : G[k][v] = More(k, v)
  <2> HIDE DEF More, V
  <2> QED OBVIOUS
<1>5. Compile(p) = (CHOOSE f : IsUpto(f))[n] \o <<OpHaltOk>>
  BY Zenon DEF Compile
<1>6. Defines(V, <<>>, G)
  <2> HIDE DEF G, V
  <2> QED BY <1>1, <1>3, Recursion
<1>7. PICK f \in [Nat -> V] : f[0] = <<>> /\ \A k \in Nat : f[k + 1] = G[k + 1][f[k]]
  BY <1>6 DEF Defines
<1> HIDE DEF G
<1>8. ASSUME NEW k \in 0..n - 1 PROVE f[k + 1] = f[k] \o Condition(p[k + 1])
  <2>1. k \in Nat /\ k + 1 \in Nat /\ k + 1 \in 1..n
    BY <1>1
  <2>2. f[k] \in V
    BY <2>1
  <2>3. f[k + 1] = More(k + 1, f[k])
    <3> HIDE DEF More, V
    <3> QED BY <1>4, <1>7, <2>1, <2>2
  <2> QED BY <2>1, <2>3
<1> HIDE DEF More
<1> DEFINE upto == CHOOSE g : IsUpto(g)
           mine == [k \in 0..n |-> f[k]]
<1>9. IsUpto(mine)
  <2>1. ASSUME NEW k \in 0..n
        PROVE  mine[k] = IF k = 0 THEN <<>> ELSE mine[k - 1] \o Condition(p[k])
    <3>1. CASE k = 0
      BY <1>7, <3>1
    <3>2. CASE k # 0
      <4>1. k - 1 \in 0..n - 1 /\ (k - 1) + 1 = k /\ k - 1 \in 0..n
        BY <1>1, <3>2
      <4>2. f[k] = f[k - 1] \o Condition(p[k])
        BY <1>8, <4>1
      <4> QED BY <3>2, <4>1, <4>2
    <3> QED BY <3>1, <3>2
  <2> QED BY <2>1
<1>10. IsUpto(upto)
  <2> HIDE DEF IsUpto, mine
  <2> QED BY <1>9
<1> HIDE DEF upto, mine
<1>11. \A k \in 0..n : upto[k] = IF k = 0 THEN <<>> ELSE upto[k - 1] \o Condition(p[k])
  BY <1>10
<1> HIDE DEF IsUpto
<1>12. upto[0] = f[0]
  <2>1. 0 \in 0..n
    BY <1>1
  <2> QED BY <1>7, <1>11, <2>1
<1>13. ASSUME NEW k \in 0..n - 1, upto[k] = f[k] PROVE upto[k + 1] = f[k + 1]
  <2>1. k + 1 \in 0..n /\ k + 1 # 0 /\ (k + 1) - 1 = k
    BY <1>1
  <2>2. upto[k + 1] = upto[k] \o Condition(p[k + 1])
    BY <1>11, <2>1
  <2> QED BY <1>8, <1>13, <2>2
<1>14. \A k \in 0..n : upto[k] = f[k]
  <2> HIDE DEF n
  <2> QED BY <1>1, <1>12, <1>13, SameSteps
<1>15. upto[n] = f[n]
  <2>1. n \in 0..n
    BY <1>1
  <2> QED BY <1>14, <2>1
<1>16. Compile(p) = f[n] \o <<OpHaltOk>>
  BY <1>5, <1>15 DEF upto
<1>17. Writes(p, f)
  BY <1>7, <1>8, <1>16 DEF Writes
<1> QED BY <1>17

Written(p) == CHOOSE f : Writes(p, f)
\* Bytes before condition k + 1 of a policy.
Begin(p, k) == Len(Written(p)[k])
Extends(s, t) == Len(s) <= Len(t) /\ \A i \in 1..Len(s) : t[i] = s[i]

LEMMA LongerExtends ==
  ASSUME NEW S, NEW s \in Seq(S), NEW t \in Seq(S), NEW u \in Seq(S), Extends(s \o t, u)
  PROVE  Extends(s, u)
<1>1. /\ Len(s \o t) = Len(s) + Len(t) /\ \A i \in 1..Len(s) : (s \o t)[i] = s[i]
  BY Joined
<1>2. Len(s) \in Nat /\ Len(t) \in Nat /\ Len(u) \in Nat
  OBVIOUS
<1>3. Len(s) + Len(t) <= Len(u) /\ \A i \in 1..Len(s) + Len(t) : u[i] = (s \o t)[i]
  BY <1>1 DEF Extends
<1>4. \A i \in 1..Len(s) : i \in 1..Len(s) + Len(t)
  BY <1>2
<1>5. Len(s) <= Len(u)
  BY <1>2, <1>3
<1>6. \A i \in 1..Len(s) : u[i] = s[i]
  BY <1>1, <1>3, <1>4
<1> QED BY <1>5, <1>6 DEF Extends

\* Where a condition's bytes stand in the bytecode of its policy.
LEMMA Layout ==
  ASSUME NEW p \in Seq(Conditions)
  PROVE  LET full == Compile(p) IN
         /\ full \in Seq(Byte) /\ Begin(p, 0) = 0
         /\ \A k \in 0..Len(p) : Begin(p, k) \in Nat /\ Begin(p, k) < Len(full)
         /\ Len(full) = Begin(p, Len(p)) + 1 /\ full[Len(full)] = OpHaltOk
         /\ \A k \in 0..Len(p) - 1 :
               /\ Begin(p, k + 1) = Begin(p, k) + ConditionSize(p[k + 1])
               /\ \A i \in 1..ConditionSize(p[k + 1]) :
                     full[Begin(p, k) + i] = Condition(p[k + 1])[i]
<1> DEFINE n == Len(p)
           full == Compile(p)
           f == Written(p)
<1>1. Writes(p, f)
  BY CompileSteps DEF Written
<1> HIDE DEF f
<1>2. /\ \A k \in Nat : f[k] \in Seq(Byte) /\ Len(f[k]) \in Nat
      /\ f[0] = <<>> /\ full = f[n] \o <<OpHaltOk>> /\ n \in Nat
      /\ \A k \in 0..n - 1 : f[k + 1] = f[k] \o Condition(p[k + 1])
  <2>1. f \in [Nat -> Seq(Byte)]
    BY <1>1 DEF Writes
  <2>2. \A k \in Nat : f[k] \in Seq(Byte)
    BY <2>1
  <2>3. \A t \in Seq(Byte) : Len(t) \in Nat
    OBVIOUS
  <2>4. n \in Nat
    OBVIOUS
  <2> QED BY <1>1, <2>2, <2>3, <2>4 DEF Writes
<1>3. \A k \in 0..n - 1 : /\ p[k + 1] \in Conditions /\ Condition(p[k + 1]) \in Seq(Byte)
                          /\ Len(Condition(p[k + 1])) = ConditionSize(p[k + 1])
  <2>1. \A k \in 0..n - 1 : p[k + 1] \in Conditions
    <3>1. \A k \in 0..n - 1 : k + 1 \in 1..n
      BY <1>2
    <3> QED BY <3>1, ElementOfSeq
  <2> QED BY <2>1, ConditionFacts
<1>4. <<OpHaltOk>> \in Seq(Byte) /\ Len(<<OpHaltOk>>) = 1 /\ <<OpHaltOk>>[1] = OpHaltOk
  BY DEF OpHaltOk, Byte
<1>5. f[n] \in Seq(Byte)
  BY <1>2
<1>6. /\ full \in Seq(Byte) /\ Len(full) = Len(f[n]) + 1 /\ full[Len(f[n]) + 1] = OpHaltOk
      /\ \A i \in 1..Len(f[n]) : full[i] = f[n][i]
  <2> DEFINE halt == <<OpHaltOk>>
  <2>1. halt \in Seq(Byte) /\ f[n] \in Seq(Byte)
    BY <1>4, <1>5
  <2> HIDE DEF halt, full, n
  <2>2. /\ f[n] \o halt \in Seq(Byte) /\ Len(f[n] \o halt) = Len(f[n]) + Len(halt)
        /\ \A i \in 1..Len(f[n]) : (f[n] \o halt)[i] = f[n][i]
        /\ \A i \in 1..Len(halt) : (f[n] \o halt)[Len(f[n]) + i] = halt[i]
    BY <2>1, Joined
  <2>3. Len(halt) = 1 /\ halt[1] = OpHaltOk /\ full = f[n] \o halt /\ 1 \in 1..1
    BY <1>2, <1>4 DEF halt
  <2> QED BY <2>2, <2>3
<1> DEFINE S == {m \in 0..n : Extends(f[n - m], f[n])}
<1>7. \A m \in 0..n : m \in S <=> Extends(f[n - m], f[n])
  OBVIOUS
<1> HIDE DEF S, full
<1>8. 0 \in S
  <2>1. n - 0 = n /\ 0 \in 0..n /\ Len(f[n]) \in Nat
    BY <1>2
  <2>2. Len(f[n]) <= Len(f[n])
    BY <1>6, <2>1
  <2> QED BY <1>6, <1>7, <2>1, <2>2 DEF Extends
<1>9. ASSUME NEW m \in 0..n - 1, m \in S PROVE m + 1 \in S
  <2>1. /\ m \in 0..n /\ m + 1 \in 0..n /\ n - (m + 1) \in 0..n - 1
        /\ n - (m + 1) \in Nat /\ (n - (m + 1)) + 1 = n - m
    BY <1>2
  <2> DEFINE k == n - (m + 1)
  <2>2. f[n - m] = f[k] \o Condition(p[k + 1])
    BY <1>2, <2>1
  <2>3. f[k] \in Seq(Byte) /\ Condition(p[k + 1]) \in Seq(Byte)
    BY <1>2, <1>3, <2>1
  <2>4. Extends(f[k] \o Condition(p[k + 1]), f[n])
    BY <1>7, <1>9, <2>1, <2>2
  <2>5. Extends(f[k], f[n])
    BY <1>5, <2>3, <2>4, LongerExtends
  <2> QED BY <1>7, <2>1, <2>5
<1>10. 0..n \subseteq S
  <2> HIDE DEF n
  <2> QED BY <1>2, <1>8, <1>9, UpToBySteps
<1>11. ASSUME NEW k \in 0..n
       PROVE  Len(f[k]) \in Nat /\ Len(f[k]) < Len(full) /\ \A i \in 1..Len(f[k]) : full[i] = f[k][i]
  <2>1. n - k \in 0..n /\ n - (n - k) = k /\ k \in Nat
    BY <1>2
  <2>2. Len(f[k]) <= Len(f[n]) /\ \A i \in 1..Len(f[k]) : f[n][i] = f[k][i]
    BY <1>7, <1>10, <2>1 DEF Extends
  <2>3. Len(f[k]) \in Nat /\ Len(f[n]) \in Nat
    BY <1>2, <2>1
  <2>4. Len(f[k]) < Len(full)
    BY <1>6, <2>2, <2>3
  <2>5. \A i \in 1..Len(f[k]) : i \in 1..Len(f[n])
    BY <2>2, <2>3
  <2> QED BY <1>6, <2>2, <2>3, <2>4, <2>5
<1>12. ASSUME NEW k \in 0..n - 1
       PROVE  /\ Len(f[k + 1]) = Len(f[k]) + ConditionSize(p[k + 1])
              /\ \A i \in 1..ConditionSize(p[k + 1]) : full[Len(f[k]) + i] = Condition(p[k + 1])[i]
  <2>1. k \in Nat /\ k + 1 \in 0..n
    BY <1>2
  <2> DEFINE c == Condition(p[k + 1])
  <2>2. c \in Seq(Byte) /\ Len(c) = ConditionSize(p[k + 1]) /\ f[k + 1] = f[k] \o c /\ f[k] \in Seq(Byte)
    BY <1>2, <1>3, <2>1
  <2> HIDE DEF c, n
  <2>3. /\ Len(f[k] \o c) = Len(f[k]) + Len(c)
        /\ \A i \in 1..Len(c) : (f[k] \o c)[Len(f[k]) + i] = c[i]
    <3>1. f[k] \in Seq(Byte) /\ c \in Seq(Byte)
      BY <2>2
    <3> QED BY <3>1, Joined
  <2>4. \A i \in 1..Len(f[k + 1]) : full[i] = f[k + 1][i]
    BY <1>11, <2>1
  <2>5. Len(f[k]) \in Nat /\ Len(c) \in Nat
    BY <2>2
  <2>6. \A i \in 1..Len(c) : Len(f[k]) + i \in 1..Len(f[k]) + Len(c)
    BY <2>5
  <2>7. \A i \in 1..Len(c) : full[Len(f[k]) + i] = c[i]
    BY <2>2, <2>3, <2>4, <2>6
  <2> QED BY <2>2, <2>3, <2>7 DEF c
<1>13. \A k \in Nat : Begin(p, k) = Len(f[k])
  BY DEF Begin, f
<1>14. \A k \in 0..n - 1 : k \in Nat /\ k + 1 \in Nat
  BY <1>2
<1>15. Begin(p, 0) = 0
  BY <1>2, <1>13
<1>16. Len(full) = Begin(p, n) + 1 /\ full[Len(full)] = OpHaltOk
  BY <1>2, <1>6, <1>13
<1>17. \A k \in 0..n : Begin(p, k) \in Nat /\ Begin(p, k) < Len(full)
  BY <1>2, <1>11, <1>13
<1>18. \A k \in 0..n - 1 :
          /\ Begin(p, k + 1) = Begin(p, k) + ConditionSize(p[k + 1])
          /\ \A i \in 1..ConditionSize(p[k + 1]) :
                full[Begin(p, k) + i] = Condition(p[k + 1])[i]
  BY <1>12, <1>13, <1>14
<1> QED BY <1>6, <1>15, <1>16, <1>17, <1>18 DEF full
-----------------------------------------------------------------------------
(* The machine and the policies: how the bytecode of one condition runs.   *)

\* The instruction that is executed is the one the counter is at.
LEMMA Decode ==
  ASSUME VmInv, VmStep
  PROVE  /\ UNCHANGED <<code, ctx>> /\ verdict = Running
         /\ vpc >= Len(code) => verdict' = RanOut
         /\ vpc < Len(code) =>
              /\ code[vpc + 1] = OpPushVar => PushVar
              /\ code[vpc + 1] = OpPushConst => PushConst
              /\ code[vpc + 1] = OpEq => Eq
              /\ code[vpc + 1] = OpNeq => Neq
              /\ code[vpc + 1] = OpAssert => AssertOrDissonance
              /\ code[vpc + 1] = OpHaltOk => HaltOk
<1> USE DEF OpPushVar, OpPushConst, OpEq, OpNeq, OpAssert, OpHaltOk
<1>0. vpc \in Nat /\ Len(code) \in Nat
  BY DEF VmInv, VmTypeOK
<1>1. CASE PushVar
  <2>1. Fetch(OpPushVar)
    BY <1>1 DEF PushVar
  <2> QED BY <1>0, <1>1, <2>1 DEF Fetch
<1>2. CASE PushConst
  <2>1. Fetch(OpPushConst)
    BY <1>2 DEF PushConst
  <2> QED BY <1>0, <1>2, <2>1 DEF Fetch
<1>3. CASE Eq
  <2>1. Fetch(OpEq)
    BY <1>3 DEF Eq
  <2> QED BY <1>0, <1>3, <2>1 DEF Fetch
<1>4. CASE Neq
  <2>1. Fetch(OpNeq)
    BY <1>4 DEF Neq
  <2> QED BY <1>0, <1>4, <2>1 DEF Fetch
<1>5. CASE AssertOrDissonance
  <2>1. Fetch(OpAssert)
    BY <1>5 DEF AssertOrDissonance
  <2> QED BY <1>0, <1>5, <2>1 DEF Fetch
<1>6. CASE HaltOk
  <2>1. Fetch(OpHaltOk)
    BY <1>6 DEF HaltOk
  <2> QED BY <1>0, <1>6, <2>1 DEF Fetch
<1>7. CASE Illegal
  BY <1>0, <1>7 DEF Illegal, Fetch
<1>8. CASE RunOut
  BY <1>0, <1>8 DEF RunOut, Reject
<1> QED BY <1>1, <1>2, <1>3, <1>4, <1>5, <1>6, <1>7, <1>8 DEF VmStep

\* The code has the bytes of condition c from byte b on, as far as it goes.
Has(c, b) ==
    \A i \in 1..ConditionSize(c) : b + i <= Len(code) => code[b + i] = Condition(c)[i]
\* The run ends with an error, for the code ends before the condition does.
CutShort(c, b) == verdict' \in Byte /\ Len(code) < b + ConditionSize(c)

LEMMA Errors == {Malformed, UnknownVariable, StackError, IllegalOp, RanOut} \subseteq Byte
BY DEF Malformed, UnknownVariable, StackError, IllegalOp, RanOut, Byte

LEMMA RunsVar ==
  ASSUME VmInv, VmStep, NEW c \in Conditions, NEW b \in Nat, Has(c, b),
         vpc = b, stack = <<>>
  PROVE  CutShort(c, b)
         \/ (verdict' = Running /\ vpc' = b + 2 /\ stack' = <<ctx[c.var]>>)
<1> DEFINE o == OperandSize(c)
<1>1. o \in Nat /\ ConditionSize(c) = o + 5 /\ Len(code) \in Nat
  BY OperandFacts DEF ConditionSize, VmInv, VmTypeOK
<1> HIDE DEF o
<1>2. 1 \in 1..ConditionSize(c) /\ 2 \in 1..ConditionSize(c)
  BY <1>1
<1>3. /\ b < Len(code) => code[b + 1] = OpPushVar
      /\ b + 1 < Len(code) => code[b + 2] = c.var
  <2>1. Condition(c)[1] = OpPushVar /\ Condition(c)[2] = c.var
    BY ConditionFacts
  <2> QED BY <1>1, <1>2, <2>1 DEF Has
<1>4. CASE b >= Len(code)
  BY <1>1, <1>4, Decode, Errors DEF CutShort
<1>5. CASE b < Len(code)
  <2>1. PushVar /\ verdict = Running
    BY <1>3, <1>5, Decode
  <2>2. CASE b + 1 >= Len(code)
    BY <1>1, <2>1, <2>2, Errors DEF CutShort, PushVar, Reject
  <2>3. CASE b + 1 < Len(code)
    <3>1. code[b + 2] = c.var /\ c.var \in Vars
      BY <1>3, <2>3, ConditionType
    <3>2. ~StackFull
      BY PoliciesAssumption, VmAssumption DEF StackFull
    <3>3. Push(ctx[c.var], 2)
      BY <1>1, <2>1, <2>3, <3>1 DEF PushVar
    <3>4. stack' = Append(stack, ctx[c.var]) /\ vpc' = vpc + 2 /\ verdict' = verdict
      BY <3>2, <3>3 DEF Push
    <3> QED BY <2>1, <3>4
  <2> QED BY <1>1, <2>2, <2>3
<1> QED BY <1>1, <1>4, <1>5

LEMMA AppendOne == ASSUME NEW x, NEW v PROVE Append(<<x>>, v) = <<x, v>>
<1> DEFINE S == {x, v}
           one == <<x>>
           two == <<x, v>>
<1>1. one \in Seq(S) /\ Len(one) = 1 /\ one[1] = x
  OBVIOUS
<1>2. two \in Seq(S) /\ Len(two) = 2 /\ two[1] = x /\ two[2] = v
  OBVIOUS
<1>3. v \in S
  OBVIOUS
<1> HIDE DEF one, two, S
<1>4. /\ Append(one, v) \in Seq(S) /\ Len(Append(one, v)) = 2
      /\ Append(one, v)[1] = x /\ Append(one, v)[2] = v
  <2>1. /\ Append(one, v) \in Seq(S) /\ Len(Append(one, v)) = Len(one) + 1
        /\ \A i \in 1..Len(one) : Append(one, v)[i] = one[i]
        /\ Append(one, v)[Len(one) + 1] = v
    <3>1. one \in Seq(S) /\ v \in S
      BY <1>1, <1>3
    <3> QED BY <3>1, AppendProperties
  <2>2. 1 \in 1..1 /\ 1 + 1 = 2
    OBVIOUS
  <2> QED BY <1>1, <2>1, <2>2
<1>5. \A i \in 1..2 : i = 1 \/ i = 2
  OBVIOUS
<1>6. Append(one, v) = two
  BY <1>2, <1>4, <1>5, SeqEqual
<1> QED BY <1>6 DEF one, two

LEMMA RunsOperand ==
  ASSUME VmInv, VmStep, NEW c \in Conditions, NEW b \in Nat, Has(c, b),
         vpc = b + 2, stack = <<ctx[c.var]>>
  PROVE  CutShort(c, b)
         \/ (verdict' = Running /\ vpc' = b + 2 + OperandSize(c) /\ stack' = <<ctx[c.var], Value(c)>>)
<1> DEFINE o == OperandSize(c)
<1>1. /\ o \in Nat /\ o >= 2 /\ ConditionSize(c) = o + 5 /\ Len(code) \in Nat
      /\ HashLen \in Nat
  BY OperandFacts, VmAssumption DEF ConditionSize, VmInv, VmTypeOK
<1>2. /\ Operand(c)[1] = IF c.kind = "var" THEN OpPushVar ELSE OpPushConst
      /\ \A i \in 1..o - 1 : Operand(c)[1 + i] = c.with[i]
      /\ \A i \in 1..o : Condition(c)[2 + i] = Operand(c)[i]
  BY OperandFacts, ConditionFacts
<1>3. o = IF c.kind = "var" THEN 2 ELSE HashLen + 1
  BY DEF OperandSize
<1> HIDE DEF o
<1>4. \A i \in 1..o : b + 2 + i <= Len(code) => code[b + 2 + i] = Operand(c)[i]
  <2>1. \A i \in 1..o : 2 + i \in 1..ConditionSize(c) /\ b + (2 + i) = b + 2 + i
    BY <1>1
  <2> QED BY <1>2, <2>1 DEF Has
<1>5. ~StackFull /\ \A v : Append(stack, v) = <<ctx[c.var], v>>
  <2>1. Len(stack) = 1
    OBVIOUS
  <2>2. ~StackFull
    BY <2>1, PoliciesAssumption, VmAssumption DEF StackFull
  <2>3. \A x, v : Append(<<x>>, v) = <<x, v>>
    BY AppendOne
  <2> QED BY <2>2, <2>3
<1>6. CASE b + 2 >= Len(code)
  BY <1>1, <1>6, Decode, Errors DEF CutShort
<1>7. CASE b + 2 < Len(code) /\ c.kind = "var"
  <2>1. code[b + 2 + 1] = OpPushVar
    <3>1. 1 \in 1..o /\ b + 2 + 1 <= Len(code)
      BY <1>1, <1>7
    <3> QED BY <1>2, <1>4, <1>7, <3>1
  <2>2. PushVar /\ verdict = Running
    BY <1>7, <2>1, Decode
  <2>3. CASE b + 2 + 1 >= Len(code)
    BY <1>1, <2>2, <2>3, Errors DEF CutShort, PushVar, Reject
  <2>4. CASE b + 2 + 1 < Len(code)
    <3>1. c.with \in [1..1 -> Vars] /\ c.with[1] \in Vars
      <4>1. c.with \in [1..1 -> Vars]
        BY <1>7, ConditionType
      <4>2. 1 \in 1..1
        OBVIOUS
      <4> QED BY <4>1, <4>2
    <3>2. code[b + 2 + 2] = c.with[1]
      <4>1. 2 \in 1..o /\ b + 2 + 2 <= Len(code) /\ 1 \in 1..o - 1 /\ 1 + 1 = 2
        BY <1>1, <2>4
      <4>2. Operand(c)[2] = c.with[1]
        BY <1>2, <4>1
      <4> QED BY <1>4, <4>1, <4>2
    <3>3. Push(ctx[c.with[1]], 2)
      BY <1>1, <2>2, <2>4, <3>1, <3>2 DEF PushVar
    <3>4. stack' = Append(stack, ctx[c.with[1]]) /\ vpc' = vpc + 2 /\ verdict' = verdict
      BY <1>5, <3>3 DEF Push
    <3>5. Value(c) = ctx[c.with[1]] /\ o = 2
      BY <1>3, <1>7 DEF Value
    <3> QED BY <1>5, <2>2, <3>4, <3>5 DEF o
  <2> QED BY <1>1, <2>3, <2>4
<1>8. CASE b + 2 < Len(code) /\ c.kind # "var"
  <2>1. code[b + 2 + 1] = OpPushConst
    <3>1. 1 \in 1..o /\ b + 2 + 1 <= Len(code)
      BY <1>1, <1>8
    <3> QED BY <1>2, <1>4, <1>8, <3>1
  <2>2. PushConst /\ verdict = Running
    BY <1>8, <2>1, Decode
  <2>0. o = HashLen + 1
    BY <1>3, <1>8
  <2>3. CASE b + 2 + HashLen >= Len(code)
    BY <1>1, <2>0, <2>2, <2>3, Errors DEF CutShort, PushConst, Reject
  <2>4. CASE b + 2 + HashLen < Len(code)
    <3> DEFINE v == [k \in 1..HashLen |-> code[vpc + 1 + k]]
    <3>1. c.with \in [1..HashLen -> Byte]
      BY <1>8, ConditionType DEF Hash
    <3>2. ASSUME NEW k \in 1..HashLen PROVE code[vpc + 1 + k] = c.with[k]
      <4>1. 1 + k \in 1..o /\ b + 2 + (1 + k) <= Len(code) /\ k \in 1..o - 1
        BY <1>1, <2>0, <2>4
      <4>2. vpc + 1 + k = b + 2 + (1 + k)
        BY <1>1
      <4>3. Operand(c)[1 + k] = c.with[k]
        BY <1>2, <4>1
      <4> QED BY <1>4, <4>1, <4>2, <4>3
    <3>3. v = c.with
      BY <3>1, <3>2
    <3>4. Push(v, HashLen + 1)
      BY <1>1, <2>2, <2>4 DEF PushConst
    <3> HIDE DEF v
    <3>5. stack' = Append(stack, v) /\ vpc' = vpc + (HashLen + 1) /\ verdict' = verdict
      BY <1>5, <3>4 DEF Push
    <3>6. Value(c) = c.with
      BY <1>8 DEF Value
    <3> QED BY <1>5, <2>0, <2>2, <3>3, <3>5, <3>6 DEF o
  <2> QED BY <1>1, <2>3, <2>4
<1> QED BY <1>1, <1>6, <1>7, <1>8

LEMMA RunsComparison ==
  ASSUME VmInv, VmStep, NEW c \in Conditions, NEW b \in Nat, Has(c, b),
         vpc = b + 2 + OperandSize(c), stack = <<ctx[c.var], Value(c)>>
  PROVE  CutShort(c, b)
         \/ /\ verdict' = Running /\ vpc' = b + 3 + OperandSize(c)
            /\ Len(stack') = 1 /\ (IsTrue(stack'[1]) <=> Holds(c))
<1> DEFINE o == OperandSize(c)
<1>1. o \in Nat /\ ConditionSize(c) = o + 5 /\ Len(code) \in Nat
  BY OperandFacts DEF ConditionSize, VmInv, VmTypeOK
<1>2. Condition(c)[3 + o] = c.op
  BY ConditionFacts
<1> HIDE DEF o
<1>3. b + 2 + o < Len(code) => code[b + 2 + o + 1] = c.op
  <2>1. 3 + o \in 1..ConditionSize(c) /\ b + (3 + o) = b + 2 + o + 1
    BY <1>1
  <2>2. b + 2 + o < Len(code) => b + (3 + o) <= Len(code)
    BY <1>1
  <2> QED BY <1>2, <2>1, <2>2 DEF Has
<1>4. vpc = b + 2 + o
  BY DEF o
<1>5. CASE b + 2 + o >= Len(code)
  BY <1>1, <1>4, <1>5, Decode, Errors DEF CutShort
<1>6. CASE b + 2 + o < Len(code)
  <2>1. /\ Len(stack) = 2 /\ Top(1) = Value(c) /\ Top(2) = ctx[c.var]
    BY DEF Top
  <2>2. Without(2) = <<>>
    <3>1. stack \in Seq(Hash)
      BY DEF VmInv, VmTypeOK
    <3> QED BY <2>1, <3>1 DEF Without
  <2>3. ASSUME NEW h \in BOOLEAN, Compare(h), h <=> Holds(c)
        PROVE  /\ verdict' = verdict /\ vpc' = vpc + 1
               /\ Len(stack') = 1 /\ (IsTrue(stack'[1]) <=> Holds(c))
    <3>1. stack' = Append(Without(2), BoolHash(h)) /\ vpc' = vpc + 1 /\ verdict' = verdict
      BY <2>1, <2>3 DEF Compare
    <3>2. \A v : Append(<<>>, v) = <<v>> /\ Len(<<v>>) = 1 /\ <<v>>[1] = v
      OBVIOUS
    <3>3. Len(stack') = 1 /\ stack'[1] = BoolHash(h)
      BY <2>2, <3>1, <3>2
    <3>4. BoolHash(h)[1] = IF h THEN 1 ELSE 0
      <4>1. 1 \in 1..HashLen
        BY VmAssumption
      <4> QED BY <4>1 DEF BoolHash
    <3> QED BY <2>3, <3>1, <3>3, <3>4 DEF IsTrue
  <2>4. verdict = Running
    BY Decode
  <2>5. CASE c.op = OpEq
    <3>1. Eq
      BY <1>3, <1>4, <1>6, <2>5, Decode
    <3> DEFINE h == Top(1) = Top(2)
    <3>2. Compare(h) /\ h \in BOOLEAN
      BY <2>1, <3>1 DEF Eq, Compare
    <3>3. h <=> Holds(c)
      BY <2>1, <2>5 DEF Holds
    <3> HIDE DEF h
    <3>4. /\ verdict' = verdict /\ vpc' = vpc + 1
          /\ Len(stack') = 1 /\ (IsTrue(stack'[1]) <=> Holds(c))
      BY <2>3, <3>2, <3>3
    <3>5. vpc' = b + 3 + o
      BY <1>1, <1>4, <3>4
    <3> QED BY <2>4, <3>4, <3>5 DEF o
  <2>6. CASE c.op = OpNeq
    <3>1. Neq
      BY <1>3, <1>4, <1>6, <2>6, Decode
    <3> DEFINE h == Top(1) # Top(2)
    <3>2. Compare(h) /\ h \in BOOLEAN
      BY <2>1, <3>1 DEF Neq, Compare
    <3>3. h <=> Holds(c)
      BY <2>1, <2>6 DEF Holds, OpEq, OpNeq
    <3> HIDE DEF h
    <3>4. /\ verdict' = verdict /\ vpc' = vpc + 1
          /\ Len(stack') = 1 /\ (IsTrue(stack'[1]) <=> Holds(c))
      BY <2>3, <3>2, <3>3
    <3>5. vpc' = b + 3 + o
      BY <1>1, <1>4, <3>4
    <3> QED BY <2>4, <3>4, <3>5 DEF o
  <2> QED BY <2>5, <2>6, ConditionType
<1> QED BY <1>1, <1>5, <1>6

LEMMA RunsAssert ==
  ASSUME VmInv, VmStep, NEW c \in Conditions, NEW b \in Nat, Has(c, b),
         vpc = b + 3 + OperandSize(c), Len(stack) = 1, IsTrue(stack[1]) <=> Holds(c)
  PROVE  \/ CutShort(c, b)
         \/ Holds(c) /\ verdict' = Running /\ vpc' = b + ConditionSize(c) /\ stack' = <<>>
         \/ ~Holds(c) /\ verdict' = c.error
<1> DEFINE o == OperandSize(c)
<1>1. o \in Nat /\ ConditionSize(c) = o + 5 /\ Len(code) \in Nat
  BY OperandFacts DEF ConditionSize, VmInv, VmTypeOK
<1>2. Condition(c)[4 + o] = OpAssert /\ Condition(c)[5 + o] = c.error
  BY ConditionFacts
<1> HIDE DEF o
<1>3. /\ b + 3 + o < Len(code) => code[b + 3 + o + 1] = OpAssert
      /\ b + 3 + o + 1 < Len(code) => code[b + 3 + o + 2] = c.error
  <2>1. /\ 4 + o \in 1..ConditionSize(c) /\ b + (4 + o) = b + 3 + o + 1
        /\ 5 + o \in 1..ConditionSize(c) /\ b + (5 + o) = b + 3 + o + 2
    BY <1>1
  <2>2. /\ b + 3 + o < Len(code) => b + (4 + o) <= Len(code)
        /\ b + 3 + o + 1 < Len(code) => b + (5 + o) <= Len(code)
    BY <1>1
  <2> QED BY <1>2, <2>1, <2>2 DEF Has
<1>4. vpc = b + 3 + o
  BY DEF o
<1>5. CASE b + 3 + o >= Len(code)
  BY <1>1, <1>4, <1>5, Decode, Errors DEF CutShort
<1>6. CASE b + 3 + o < Len(code)
  <2>1. AssertOrDissonance /\ verdict = Running
    BY <1>3, <1>4, <1>6, Decode
  <2>2. CASE vpc + 1 >= Len(code)
    BY <1>1, <1>4, <2>1, <2>2, Errors DEF CutShort, AssertOrDissonance, Reject
  <2>3. CASE vpc + 1 < Len(code)
    <3>1. stack # <<>> /\ Top(1) = stack[1]
      <4>1. Len(<<>>) = 0 /\ (1 + 1) - 1 = 1
        OBVIOUS
      <4>2. stack # <<>>
        <5> SUFFICES ASSUME stack = <<>> PROVE Len(stack) = 0
          OBVIOUS
        <5> QED BY <4>1
      <4>3. Top(1) = stack[1]
        BY <4>1 DEF Top
      <4> QED BY <4>2, <4>3
    <3>2. Without(1) = <<>>
      <4>1. stack \in Seq(Hash)
        BY DEF VmInv, VmTypeOK
      <4> QED BY <4>1 DEF Without
    <3>3. CASE Holds(c)
      BY <1>1, <1>4, <2>1, <2>3, <3>1, <3>2, <3>3 DEF AssertOrDissonance
    <3>4. CASE ~Holds(c)
      <4>1. verdict' = code[vpc + 2]
        BY <1>1, <1>4, <2>1, <2>3, <3>1, <3>4 DEF AssertOrDissonance
      <4> QED BY <1>1, <1>3, <1>4, <2>3, <3>4, <4>1
    <3> QED BY <3>3, <3>4
  <2> QED BY <1>1, <1>4, <2>2, <2>3
<1> QED BY <1>1, <1>5, <1>6
-----------------------------------------------------------------------------
(* The machine and the policies: a whole run.                              *)

\* The first k conditions held, and the machine is at one of the four
\* instructions of condition k + 1, with the values it needs on the stack.
At(p, k) ==
    /\ k \in 0..Len(p) /\ \A j \in 1..k : Holds(p[j])
    /\ \/ vpc = Begin(p, k) /\ stack = <<>>
       \/ /\ k < Len(p) /\ vpc = Begin(p, k) + 2
          /\ stack = <<ctx[p[k + 1].var]>>
       \/ /\ k < Len(p) /\ vpc = Begin(p, k) + 2 + OperandSize(p[k + 1])
          /\ stack = <<ctx[p[k + 1].var], Value(p[k + 1])>>
       \/ /\ k < Len(p) /\ vpc = Begin(p, k) + 3 + OperandSize(p[k + 1])
          /\ Len(stack) = 1 /\ (IsTrue(stack[1]) <=> Holds(p[k + 1]))
OnCourse(p) == \E k \in 0..Len(p) : At(p, k)

\* What the code means: all conditions hold, or one is the first that does not.
MeaningSound ==
    \A p \in Seq(Conditions) :
        /\ (\A j \in 1..Len(p) : Holds(p[j])) => Meaning(p) = Granted
        /\ \A k \in 0..Len(p) - 1 :
              (\A j \in 1..k : Holds(p[j])) /\ ~Holds(p[k + 1]) => Meaning(p) = p[k + 1].error

LEMMA MeaningFacts == MeaningSound
<1> SUFFICES ASSUME NEW p \in Seq(Conditions)
             PROVE  /\ (\A j \in 1..Len(p) : Holds(p[j])) => Meaning(p) = Granted
                    /\ \A k \in 0..Len(p) - 1 :
                          (\A j \in 1..k : Holds(p[j])) /\ ~Holds(p[k + 1])
                              => Meaning(p) = p[k + 1].error
  BY DEF MeaningSound
<1> DEFINE failing == {k \in 1..Len(p) : ~Holds(p[k])}
           first == CHOOSE k \in failing : \A l \in failing : k <= l
<1>1. Meaning(p) = IF failing = {} THEN Granted ELSE p[first].error
  BY DEF Meaning
<1>2. \A k : k \in failing <=> k \in 1..Len(p) /\ ~Holds(p[k])
  OBVIOUS
<1>3. Len(p) \in Nat
  OBVIOUS
<1> HIDE DEF failing
<1>4. ASSUME NEW k \in 0..Len(p) - 1, \A j \in 1..k : Holds(p[j]), ~Holds(p[k + 1])
      PROVE  Meaning(p) = p[k + 1].error
  <2>1. k \in Nat /\ k + 1 \in 1..Len(p)
    BY <1>3
  <2>2. k + 1 \in failing
    BY <1>2, <1>4, <2>1
  <2>3. ASSUME NEW l \in failing PROVE k + 1 <= l
    <3>1. l \in Nat /\ l >= 1 /\ l \notin 1..k
      BY <1>2, <1>3, <1>4
    <3> QED BY <2>1, <3>1
  <2>4. first \in failing /\ first <= k + 1
    BY <2>2, <2>3
  <2>5. first = k + 1
    <3>1. k + 1 <= first /\ first \in Nat
      BY <1>2, <1>3, <2>3, <2>4
    <3> QED BY <2>1, <2>4, <3>1
  <2> QED BY <1>1, <2>2, <2>5
<1>5. (\A j \in 1..Len(p) : Holds(p[j])) => Meaning(p) = Granted
  <2>1. (\A j \in 1..Len(p) : Holds(p[j])) => failing = {}
    BY <1>2
  <2> QED BY <1>1, <2>1
<1> QED BY <1>4, <1>5

\* The verdict of a run of the first n bytes of a policy's bytecode.
Judged(p, n) ==
    IF n = Len(Compile(p)) THEN verdict = Meaning(p) ELSE verdict # Granted

LEMMA CutFacts ==
  ASSUME NEW p \in Seq(Conditions), NEW n \in 0..Len(Compile(p))
  PROVE  /\ Len(SubSeq(Compile(p), 1, n)) = n
         /\ \A i \in 1..n : SubSeq(Compile(p), 1, n)[i] = Compile(p)[i]
<1> DEFINE full == Compile(p)
<1>1. full \in Seq(Byte)
  BY Layout
<1> HIDE DEF full
<1>2. n \in Nat /\ n <= Len(full)
  <2>1. Len(full) \in Nat
    BY <1>1
  <2> QED BY <2>1 DEF full
<1>3. /\ Len(SubSeq(full, 1, n)) = n
      /\ \A i \in 1..n : SubSeq(full, 1, n)[i] = full[i]
  BY <1>1, <1>2
<1> QED BY <1>3 DEF full

\* A step of a run on course stays on course, or ends it with the right verdict.
LEMMA StepOnCourse ==
  ASSUME VmInv, VmStep, NEW p \in Seq(Conditions), NEW n \in 0..Len(Compile(p)),
         code = SubSeq(Compile(p), 1, n), OnCourse(p)
  PROVE  IF verdict' = Running THEN OnCourse(p)' ELSE Judged(p, n)'
<1> DEFINE full == Compile(p)
<1>1. PICK k \in 0..Len(p) : At(p, k)
  BY DEF OnCourse
<1>2. Len(code) = n /\ \A i \in 1..n : code[i] = full[i]
  BY CutFacts
<1>3. /\ full \in Seq(Byte)
      /\ \A j \in 0..Len(p) : Begin(p, j) \in Nat /\ Begin(p, j) < Len(full)
      /\ Len(full) = Begin(p, Len(p)) + 1 /\ full[Len(full)] = OpHaltOk
      /\ \A j \in 0..Len(p) - 1 :
            /\ Begin(p, j + 1) = Begin(p, j) + ConditionSize(p[j + 1])
            /\ \A i \in 1..ConditionSize(p[j + 1]) :
                  full[Begin(p, j) + i] = Condition(p[j + 1])[i]
  BY Layout
<1>4. UNCHANGED <<code, ctx>> /\ verdict = Running
  BY Decode
<1>5. \A c : (Holds(c)' <=> Holds(c)) /\ Value(c)' = Value(c)
  BY <1>4 DEF Holds, Value
<1>6. MeaningSound'
  BY MeaningFacts, PTL
<1>7. Len(p) \in Nat /\ Len(full) \in Nat /\ n \in Nat /\ n <= Len(full)
  <2>1. Len(p) \in Nat /\ Len(full) \in Nat
    BY <1>3
  <2> QED BY <2>1
<1> HIDE DEF full
<1>8. Running \notin Byte /\ Granted \notin Byte /\ Granted # Running /\ RanOut \in Byte
  BY DEF Running, Granted, Byte, RanOut
<1>9. CASE k = Len(p)
  <2>1. vpc = Begin(p, Len(p)) /\ vpc \in Nat
    BY <1>1, <1>3, <1>7, <1>9 DEF At
  <2>2. CASE n = Len(full)
    <3>1. vpc < Len(code) /\ code[vpc + 1] = OpHaltOk
      <4>1. vpc + 1 = n /\ vpc + 1 \in 1..n /\ vpc < n
        BY <1>3, <1>7, <2>1, <2>2
      <4> QED BY <1>2, <1>3, <2>2, <4>1
    <3>2. HaltOk
      BY <3>1, Decode
    <3>3. verdict' = Granted
      BY <3>2 DEF HaltOk
    <3>4. Meaning(p)' = Granted
      BY <1>1, <1>5, <1>6, <1>9 DEF At, MeaningSound
    <3> QED BY <1>8, <2>2, <3>3, <3>4 DEF Judged, full
  <2>3. CASE n # Len(full)
    <3>1. vpc >= Len(code)
      BY <1>2, <1>3, <1>7, <2>1, <2>3
    <3>2. verdict' = RanOut
      BY <3>1, Decode
    <3> QED BY <1>8, <2>3, <3>2 DEF Judged, full
  <2> QED BY <2>2, <2>3
<1>10. CASE k # Len(p)
  <2>1. k \in 0..Len(p) - 1 /\ k \in Nat /\ k < Len(p) /\ k + 1 \in 0..Len(p) /\ k + 1 \in 1..Len(p)
    BY <1>7, <1>10
  <2> DEFINE c == p[k + 1]
             b == Begin(p, k)
             o == OperandSize(c)
  <2>2. c \in Conditions
    BY <2>1, ElementOfSeq
  <2>3. o \in Nat /\ ConditionSize(c) = o + 5
    BY <2>2, OperandFacts DEF ConditionSize
  <2>4. b \in Nat /\ Begin(p, k + 1) = b + ConditionSize(c) /\ b + ConditionSize(c) < Len(full)
    BY <1>3, <2>1
  <2>5. Has(c, b)
    <3> SUFFICES ASSUME NEW i \in 1..ConditionSize(c), b + i <= Len(code)
                 PROVE  code[b + i] = Condition(c)[i]
      BY DEF Has
    <3>1. b + i \in 1..n
      BY <1>2, <1>7, <2>3, <2>4
    <3> QED BY <1>2, <1>3, <2>1, <3>1
  <2>6. /\ \A j \in 1..k : Holds(p[j])
        /\ \/ vpc = b /\ stack = <<>>
           \/ vpc = b + 2 /\ stack = <<ctx[c.var]>>
           \/ vpc = b + 2 + o /\ stack = <<ctx[c.var], Value(c)>>
           \/ vpc = b + 3 + o /\ Len(stack) = 1 /\ (IsTrue(stack[1]) <=> Holds(c))
    BY <1>1 DEF At
  <2>7. CutShort(c, b) => IF verdict' = Running THEN OnCourse(p)' ELSE Judged(p, n)'
    BY <1>2, <1>7, <1>8, <2>3, <2>4 DEF CutShort, Judged, full
  <2>8. \A j \in 1..k : Holds(p[j])'
    BY <1>5, <2>6
  <2>9. At(p, k)' => OnCourse(p)'
    BY <1>1 DEF OnCourse
  <2> HIDE DEF c, b, o
  <2>10. CASE vpc = b /\ stack = <<>>
    <3>1. CutShort(c, b) \/ (verdict' = Running /\ vpc' = b + 2 /\ stack' = <<ctx[c.var]>>)
      BY <2>2, <2>4, <2>5, <2>10, RunsVar
    <3>2. (verdict' = Running /\ vpc' = b + 2 /\ stack' = <<ctx[c.var]>>) => At(p, k)'
      BY <1>1, <1>4, <2>1, <2>8 DEF At, b, c
    <3> QED BY <2>7, <2>9, <3>1, <3>2
  <2>11. CASE vpc = b + 2 /\ stack = <<ctx[c.var]>>
    <3>1. CutShort(c, b) \/ (verdict' = Running /\ vpc' = b + 2 + o /\ stack' = <<ctx[c.var], Value(c)>>)
      BY <2>2, <2>4, <2>5, <2>11, RunsOperand DEF o
    <3>2. (verdict' = Running /\ vpc' = b + 2 + o /\ stack' = <<ctx[c.var], Value(c)>>) => At(p, k)'
      BY <1>1, <1>4, <1>5, <2>1, <2>8 DEF At, b, c, o
    <3> QED BY <2>7, <2>9, <3>1, <3>2
  <2>12. CASE vpc = b + 2 + o /\ stack = <<ctx[c.var], Value(c)>>
    <3>1. \/ CutShort(c, b)
          \/ /\ verdict' = Running /\ vpc' = b + 3 + o
             /\ Len(stack') = 1 /\ (IsTrue(stack'[1]) <=> Holds(c))
      BY <2>2, <2>4, <2>5, <2>12, RunsComparison DEF o
    <3>2. (verdict' = Running /\ vpc' = b + 3 + o /\ Len(stack') = 1 /\ (IsTrue(stack'[1]) <=> Holds(c)))
            => At(p, k)'
      <4>1. IsTrue(stack[1])' <=> IsTrue(stack'[1])
        BY DEF IsTrue
      <4> QED BY <1>1, <1>4, <1>5, <2>1, <2>8, <4>1 DEF At, b, c, o
    <3> QED BY <2>7, <2>9, <3>1, <3>2
  <2>13. CASE vpc = b + 3 + o /\ Len(stack) = 1 /\ (IsTrue(stack[1]) <=> Holds(c))
    <3>1. \/ CutShort(c, b)
          \/ Holds(c) /\ verdict' = Running /\ vpc' = b + ConditionSize(c) /\ stack' = <<>>
          \/ ~Holds(c) /\ verdict' = c.error
      BY <2>2, <2>4, <2>5, <2>13, RunsAssert DEF o
    <3>2. CASE Holds(c) /\ verdict' = Running /\ vpc' = b + ConditionSize(c) /\ stack' = <<>>
      <4>1. \A j \in 1..k + 1 : Holds(p[j])'
        <5>1. \A j \in 1..k + 1 : j \in 1..k \/ j = k + 1
          BY <2>1
        <5> QED BY <1>5, <2>8, <3>2, <5>1 DEF c
      <4>2. At(p, k + 1)'
        BY <2>1, <2>4, <3>2, <4>1 DEF At
      <4> QED BY <2>1, <3>2, <4>2 DEF OnCourse
    <3>3. CASE ~Holds(c) /\ verdict' = c.error
      <4>1. Meaning(p)' = c.error
        BY <1>5, <1>6, <2>1, <2>8, <3>3 DEF MeaningSound, c
      <4>2. c.error \in Byte
        BY <2>2, ConditionType
      <4> QED BY <1>8, <3>3, <4>1, <4>2 DEF Judged
    <3> QED BY <2>7, <3>1, <3>2, <3>3
  <2> QED BY <2>6, <2>10, <2>11, <2>12, <2>13 DEF b, c, o
<1> QED BY <1>9, <1>10

\* Bytecode that states a policy, whole or cut, is on course or rightly judged.
PolicyInv ==
    \A p \in Policies : \A n \in 0..Len(Compile(p)) :
        code = SubSeq(Compile(p), 1, n) =>
            IF verdict = Running THEN OnCourse(p) ELSE Judged(p, n)

\* No code is no policy: it has no HALT_OK.
LEMMA NoCode == code = <<>> /\ verdict = RanOut => PolicyInv
<1> SUFFICES ASSUME code = <<>>, verdict = RanOut, NEW p \in Policies, NEW n \in 0..Len(Compile(p)),
                    code = SubSeq(Compile(p), 1, n)
             PROVE  IF verdict = Running THEN OnCourse(p) ELSE Judged(p, n)
  BY DEF PolicyInv
<1>1. p \in Seq(Conditions)
  BY PoliciesAssumption
<1>2. n = 0
  <2>1. Len(SubSeq(Compile(p), 1, n)) = n
    BY <1>1, CutFacts
  <2> QED BY <2>1
<1>3. Len(Compile(p)) # 0
  <2>1. Begin(p, Len(p)) \in Nat /\ Len(Compile(p)) = Begin(p, Len(p)) + 1
    <3>1. Len(p) \in 0..Len(p)
      BY <1>1
    <3> QED BY <1>1, <3>1, Layout
  <2> QED BY <2>1
<1>4. RanOut # Running /\ RanOut # Granted
  BY DEF RanOut, Running, Granted
<1> QED BY <1>2, <1>3, <1>4 DEF Judged

LEMMA PolicyStep == ASSUME VmInv, PolicyInv, [VmNext]_vmVars PROVE PolicyInv'
<1>1. CASE VmStep
  <2> SUFFICES ASSUME NEW p \in Policies, NEW n \in 0..Len(Compile(p)),
                      code' = SubSeq(Compile(p), 1, n)
               PROVE  IF verdict' = Running THEN OnCourse(p)' ELSE Judged(p, n)'
    BY DEF PolicyInv
  <2>1. p \in Seq(Conditions)
    BY PoliciesAssumption
  <2>2. code = SubSeq(Compile(p), 1, n) /\ verdict = Running
    BY <1>1, Decode
  <2>3. OnCourse(p)
    BY <2>2 DEF PolicyInv
  <2> QED BY <1>1, <2>1, <2>2, <2>3, StepOnCourse
<1>2. CASE Forget
  <2>1. (code = <<>> /\ verdict = RanOut => PolicyInv)'
    BY NoCode, PTL
  <2> QED BY <1>2, <2>1 DEF Forget
<1>3. CASE \E c \in Seq(Byte), x \in Contexts : Call(c, x)
  <2>1. vpc' = 0 /\ stack' = <<>> /\ verdict' = Running
    BY <1>3 DEF Call
  <2> SUFFICES ASSUME NEW p \in Policies
               PROVE  OnCourse(p)'
    BY <2>1 DEF PolicyInv
  <2>2. p \in Seq(Conditions) /\ Begin(p, 0) = 0
    BY PoliciesAssumption, Layout
  <2>3. 0 \in 0..Len(p) /\ 1..0 = {}
    BY <2>2
  <2>4. At(p, 0)'
    BY <2>1, <2>2, <2>3 DEF At
  <2> QED BY <2>3, <2>4 DEF OnCourse
<1>4. CASE UNCHANGED vmVars
  <2>1. UNCHANGED <<code, ctx, vpc, stack, verdict>>
    BY <1>4 DEF vmVars
  <2>2. \A p : Meaning(p)' = Meaning(p)
    BY <2>1 DEF Meaning, Holds, Value
  <2>3. \A c : (Holds(c)' <=> Holds(c)) /\ Value(c)' = Value(c)
    BY <2>1 DEF Holds, Value
  <2>4. \A p : OnCourse(p) => OnCourse(p)'
    BY <2>1, <2>3 DEF OnCourse, At, IsTrue
  <2> QED BY <2>1, <2>2, <2>4 DEF PolicyInv, Judged
<1> QED BY <1>1, <1>2, <1>3, <1>4 DEF VmNext

LEMMA PolicyJudged == PolicyInv => PolicyHonoured
BY DEF PolicyInv, PolicyHonoured, Judged

\* For hashes of every length, every stack with room for two values and every
\* policy: its bytecode grants just what the policy allows, ends otherwise with
\* the error of the first condition that fails, and cut short grants nothing.
THEOREM VmPolicyHonoured == VmSpec => []PolicyHonoured
<1>1. VmInit => VmInv /\ PolicyInv
  BY VmInitInv, NoCode DEF VmInit
<1>2. (VmInv /\ PolicyInv) /\ [VmNext]_vmVars => (VmInv /\ PolicyInv)'
  BY VmNextInv, PolicyStep
<1> QED BY <1>1, <1>2, PolicyJudged, PTL DEF VmSpec

\* ... and so it is for the vault file that the booting kernel reads.
THEOREM BootPolicyHonoured == Spec => []PolicyHonoured
<1>1. Init => BootVmInv /\ PolicyInv
  BY BootVmInit, NoCode DEF Init, VmInit
<1>2. (BootVmInv /\ PolicyInv) /\ [Next]_vars => (BootVmInv /\ PolicyInv)'
  BY VmPart, VmNextInv, PolicyStep DEF BootVmInv
<1> QED BY <1>1, <1>2, PolicyJudged, PTL DEF Spec
-----------------------------------------------------------------------------
(* The checksums.                                                          *)

Octets == 0..255
\* What byte k adds to the sum of the words.
Part(d, k) == IF k % 2 = 1 THEN 256 * d[k] ELSE d[k]
Sums(d, f) ==
    /\ f \in [Nat -> Nat] /\ f[0] = 0
    /\ \A k \in 0..Len(d) - 1 : f[k + 1] = f[k] + Part(d, k + 1)
    /\ WordSum(d) = f[Len(d)]

LEMMA PartType ==
  ASSUME NEW d \in Seq(Octets), NEW k \in 1..Len(d)
  PROVE  Part(d, k) \in Nat /\ Part(d, k) <= 65280
<1>1. d[k] \in Octets
  BY ElementOfSeq
<1>2. d[k] \in Nat /\ d[k] <= 255
  <2>1. \A x \in Octets : x \in Nat /\ x <= 255
    BY DEF Octets
  <2> QED BY <1>1, <2>1
<1> QED BY <1>2 DEF Part

LEMMA SumSteps == ASSUME NEW d \in Seq(Octets) PROVE \E f : Sums(d, f)
<1> DEFINE n == Len(d)
           More(k, v) == IF k \in 1..n THEN v + Part(d, k) ELSE v
           G == [k \in Nat |-> [v \in Nat |-> More(k, v)]]
           IsSum(f) == f = [k \in 0..n |-> IF k = 0 THEN 0
                              ELSE f[k - 1] + (IF k % 2 = 1 THEN 256 * d[k] ELSE d[k])]
<1>1. n \in Nat /\ \A k \in 1..n : Part(d, k) \in Nat
  BY PartType
<1>2. ASSUME NEW k \in Nat, NEW v \in Nat PROVE More(k, v) \in Nat
  BY <1>1
<1>3. G \in [Nat -> [Nat -> Nat]]
  <2> HIDE DEF More
  <2> QED BY <1>2
<1>4. \A k \in Nat, v \in Nat : G[k][v] = More(k, v)
  <2> HIDE DEF More
  <2> QED OBVIOUS
<1>5. WordSum(d) = (CHOOSE f : IsSum(f))[n]
  BY Zenon DEF WordSum
<1>6. PICK f \in [Nat -> Nat] : f[0] = 0 /\ \A k \in Nat : f[k + 1] = G[k + 1][f[k]]
  <2> HIDE DEF G
  <2> QED BY <1>3, NatRecursion
<1> HIDE DEF G
<1>7. ASSUME NEW k \in 0..n - 1 PROVE f[k + 1] = f[k] + Part(d, k + 1)
  <2>1. k \in Nat /\ k + 1 \in Nat /\ k + 1 \in 1..n
    BY <1>1
  <2>2. f[k] \in Nat
    BY <2>1
  <2>3. f[k + 1] = More(k + 1, f[k])
    <3> HIDE DEF More
    <3> QED BY <1>4, <1>6, <2>1, <2>2
  <2> QED BY <2>1, <2>3
<1> HIDE DEF More
<1> DEFINE total == CHOOSE g : IsSum(g)
           mine == [k \in 0..n |-> f[k]]
<1>8. IsSum(mine)
  <2>1. ASSUME NEW k \in 0..n
        PROVE  mine[k] = IF k = 0 THEN 0
                         ELSE mine[k - 1] + (IF k % 2 = 1 THEN 256 * d[k] ELSE d[k])
    <3>1. CASE k = 0
      BY <1>6, <3>1
    <3>2. CASE k # 0
      <4>1. k - 1 \in 0..n - 1 /\ (k - 1) + 1 = k /\ k - 1 \in 0..n
        BY <1>1, <3>2
      <4>2. f[k] = f[k - 1] + Part(d, k)
        BY <1>7, <4>1
      <4>3. mine[k] = f[k] /\ mine[k - 1] = f[k - 1]
        BY <4>1
      <4> HIDE DEF mine
      <4> QED BY <3>2, <4>2, <4>3 DEF Part
    <3> QED BY <3>1, <3>2
  <2> QED BY <2>1
<1>9. IsSum(total)
  <2> HIDE DEF IsSum, mine
  <2> QED BY <1>8
<1> HIDE DEF total, mine
<1>10. \A k \in 0..n : total[k] = IF k = 0 THEN 0 ELSE total[k - 1] + Part(d, k)
  BY <1>9 DEF Part
<1> HIDE DEF IsSum
<1>11. total[0] = f[0]
  <2>1. 0 \in 0..n
    BY <1>1
  <2> QED BY <1>6, <1>10, <2>1
<1>12. ASSUME NEW k \in 0..n - 1, total[k] = f[k] PROVE total[k + 1] = f[k + 1]
  <2>1. k + 1 \in 0..n /\ k + 1 # 0 /\ (k + 1) - 1 = k
    BY <1>1
  <2>2. total[k + 1] = total[k] + Part(d, k + 1)
    BY <1>10, <2>1
  <2> QED BY <1>7, <1>12, <2>2
<1>13. \A k \in 0..n : total[k] = f[k]
  <2> HIDE DEF n
  <2> QED BY <1>1, <1>11, <1>12, SameSteps
<1>14. total[n] = f[n]
  <2>1. n \in 0..n
    BY <1>1
  <2> QED BY <1>13, <2>1
<1>15. WordSum(d) = f[n]
  BY <1>5, <1>14 DEF total
<1>16. Sums(d, f)
  BY <1>6, <1>7, <1>15 DEF Sums
<1> QED BY <1>16

LEMMA SumBound ==
  ASSUME NEW d \in Seq(Octets), NEW f, Sums(d, f)
  PROVE  \A k \in 0..Len(d) : f[k] \in Nat /\ f[k] <= 65280 * k
<1> DEFINE n == Len(d)
           S == {k \in 0..n : f[k] <= 65280 * k}
<1>1. n \in Nat /\ f \in [Nat -> Nat] /\ f[0] = 0
  BY DEF Sums
<1>2. \A k \in 0..n : k \in S <=> f[k] <= 65280 * k
  OBVIOUS
<1> HIDE DEF S
<1>3. 0 \in S
  BY <1>1, <1>2
<1>4. ASSUME NEW k \in 0..n - 1, k \in S PROVE k + 1 \in S
  <2>1. k \in Nat /\ k \in 0..n /\ k + 1 \in 0..n /\ k + 1 \in 1..n
    BY <1>1
  <2>2. f[k] \in Nat /\ f[k] <= 65280 * k
    BY <1>1, <1>2, <1>4, <2>1
  <2>3. f[k + 1] = f[k] + Part(d, k + 1)
    BY DEF Sums
  <2>4. Part(d, k + 1) \in Nat /\ Part(d, k + 1) <= 65280
    BY <2>1, PartType
  <2>5. f[k + 1] <= 65280 * (k + 1)
    BY <2>1, <2>2, <2>3, <2>4
  <2> QED BY <1>2, <2>1, <2>5
<1>5. 0..n \subseteq S
  <2> HIDE DEF n
  <2> QED BY <1>1, <1>3, <1>4, UpToBySteps
<1>6. \A k \in 0..n : k \in Nat /\ k \in S
  BY <1>1, <1>5
<1>7. \A k \in 0..n : f[k] \in Nat
  BY <1>1, <1>6
<1> QED BY <1>2, <1>6, <1>7

\* Two folds are enough, and a fold takes away a multiple of 65535.
LEMMA FoldTwice ==
  ASSUME NEW s \in Nat, s <= 65280 * 65536
  PROVE  LET c == W - 1 - FoldOnce(FoldOnce(s)) IN c \in Nat /\ c <= 65535 /\ (s + c) % (W - 1) = 0
<1> DEFINE Quot(x) == x \div 65536
           q == Quot(s)
           t == FoldOnce(s)
           r == Quot(t)
           u == FoldOnce(t)
<1>1. ASSUME NEW x \in Nat
      PROVE  /\ Quot(x) \in Nat /\ FoldOnce(x) \in Nat
             /\ FoldOnce(x) = x - 65535 * Quot(x)
             /\ x - 65536 * Quot(x) \in Nat /\ x - 65536 * Quot(x) <= 65535
  <2>1. /\ x \div 65536 \in Nat /\ x % 65536 \in Nat /\ x % 65536 <= 65535
        /\ x = 65536 * (x \div 65536) + (x % 65536)
    BY SMT
  <2>2. FoldOnce(x) = (x % 65536) + (x \div 65536)
    BY SMT DEF FoldOnce, W
  <2> QED BY SMT, <2>1, <2>2
<1> HIDE DEF Quot
<1>2. q \in Nat /\ t \in Nat /\ t = s - 65535 * q /\ s - 65536 * q \in Nat /\ s - 65536 * q <= 65535
  BY SMT, <1>1
<1>3. q <= 65280 /\ t <= 65535 + 65280
  BY SMT, <1>2
<1> HIDE DEF t, q
<1>4. r \in Nat /\ u \in Nat /\ u = t - 65535 * r /\ t - 65536 * r \in Nat /\ t - 65536 * r <= 65535
  BY SMT, <1>1, <1>2
<1>5. r = 0 \/ r = 1
  BY SMT, <1>2, <1>3, <1>4
<1>6. u <= 65535
  BY SMT, <1>2, <1>3, <1>4, <1>5
<1> DEFINE c == 65535 - u
<1>7. c \in Nat /\ c <= 65535
  BY SMT, <1>4, <1>6
<1>8. s + c = 65535 * (1 + q + r)
  BY SMT, <1>2, <1>4
<1>9. ASSUME NEW m \in Nat PROVE (65535 * m) % 65535 = 0
  BY SMT
<1>10. (s + c) % 65535 = 0
  <2>1. 1 + q + r \in Nat
    BY SMT, <1>2, <1>4
  <2> QED BY SMT, <1>8, <1>9, <2>1
<1>11. W - 1 = 65535 /\ W - 1 - FoldOnce(FoldOnce(s)) = c
  BY SMT DEF W, u, t
<1> HIDE DEF c
<1> QED BY SMT, <1>7, <1>10, <1>11

\* Two bytes put into an empty field add their word to the sum.
Patched(d, i, hi, lo) == [d EXCEPT ![i] = hi, ![i + 1] = lo]

LEMMA PatchSum ==
  ASSUME NEW d \in Seq(Octets), NEW i \in 1..Len(d) - 1, i % 2 = 1, d[i] = 0, d[i + 1] = 0,
         NEW hi \in Octets, NEW lo \in Octets, NEW e, e = Patched(d, i, hi, lo)
  PROVE  /\ e \in Seq(Octets) /\ Len(e) = Len(d)
         /\ WordSum(e) = WordSum(d) + (256 * hi + lo)
<1> DEFINE c == 256 * hi + lo
           n == Len(d)
<1>1. hi \in Nat /\ lo \in Nat /\ c \in Nat /\ c = 256 * hi + lo
  <2>1. Octets \subseteq Nat
    BY DEF Octets
  <2> QED BY <2>1
<1>2. n \in Nat /\ i \in Nat /\ i \in 1..n /\ i + 1 \in 1..n
  OBVIOUS
<1> HIDE DEF c
<1>4. /\ e \in Seq(Octets) /\ Len(e) = n
      /\ \A k \in 1..n : e[k] = IF k = i THEN hi ELSE IF k = i + 1 THEN lo ELSE d[k]
  <2> DEFINE a == [d EXCEPT ![i] = hi]
  <2>1. /\ a \in Seq(Octets) /\ Len(a) = n
        /\ \A k \in 1..n : a[k] = IF k = i THEN hi ELSE d[k]
    BY <1>1, <1>2, ExceptSeq
  <2>2. e = [a EXCEPT ![i + 1] = lo]
    BY DEF Patched
  <2> HIDE DEF a
  <2>3. /\ e \in Seq(Octets) /\ Len(e) = n
        /\ \A k \in 1..n : e[k] = IF k = i + 1 THEN lo ELSE a[k]
    BY <1>1, <1>2, <2>1, <2>2, ExceptSeq
  <2>4. i # i + 1
    BY <1>2
  <2> QED BY <2>1, <2>3, <2>4
<1>5. PICK f : Sums(d, f)
  BY SumSteps
<1>6. PICK g : Sums(e, g)
  BY <1>4, SumSteps
<1>7. /\ f \in [Nat -> Nat] /\ g \in [Nat -> Nat] /\ f[0] = 0 /\ g[0] = 0
      /\ WordSum(d) = f[n] /\ WordSum(e) = g[n]
      /\ \A k \in 0..n - 1 : f[k + 1] = f[k] + Part(d, k + 1) /\ g[k + 1] = g[k] + Part(e, k + 1)
  <2>1. /\ f \in [Nat -> Nat] /\ f[0] = 0 /\ WordSum(d) = f[n]
        /\ \A k \in 0..n - 1 : f[k + 1] = f[k] + Part(d, k + 1)
    BY <1>5 DEF Sums
  <2>2. /\ g \in [Nat -> Nat] /\ g[0] = 0 /\ WordSum(e) = g[n]
        /\ \A k \in 0..n - 1 : g[k + 1] = g[k] + Part(e, k + 1)
    BY <1>4, <1>6 DEF Sums
  <2> QED BY <2>1, <2>2
<1> DEFINE Added(k) == IF k < i THEN 0 ELSE IF k = i THEN 256 * hi ELSE c
           h == [k \in Nat |-> f[k] + Added(k)]
<1>8. \A k \in Nat : h[k] = f[k] + Added(k)
  OBVIOUS
<1> HIDE DEF h
<1>9. g[0] = h[0]
  <2>1. Added(0) = 0 /\ 0 \in Nat
    BY <1>2
  <2>2. h[0] = f[0] + Added(0)
    BY <1>8, <2>1
  <2> HIDE DEF Added
  <2> QED BY <1>7, <2>1, <2>2
<1>10. ASSUME NEW k \in 0..n - 1, g[k] = h[k] PROVE g[k + 1] = h[k + 1]
  <2>1. k \in Nat /\ k + 1 \in Nat /\ k + 1 \in 1..n
    BY <1>2
  <2>2. f[k] \in Nat
    BY <1>7, <2>1
  <2>3. d[k + 1] \in Octets
    BY <2>1, ElementOfSeq
  <2>4. d[k + 1] \in Nat
    <3>1. Octets \subseteq Nat
      BY DEF Octets
    <3> QED BY <2>3, <3>1
  <2>5. Part(e, k + 1) = Part(d, k + 1) + (Added(k + 1) - Added(k))
    <3>1. CASE k + 1 < i \/ k + 1 > i + 1
      <4>1. e[k + 1] = d[k + 1]
        BY <1>2, <1>4, <2>1, <3>1
      <4>2. Added(k + 1) = Added(k)
        BY <1>2, <2>1, <3>1
      <4>3. Part(e, k + 1) = Part(d, k + 1) /\ Part(d, k + 1) \in Nat
        BY <2>1, <4>1, PartType DEF Part
      <4>4. Added(k) \in Nat
        BY <1>1
      <4> HIDE DEF Added
      <4> QED BY <4>2, <4>3, <4>4
    <3>2. CASE k + 1 = i
      <4>1. e[k + 1] = hi /\ d[k + 1] = 0 /\ (k + 1) % 2 = 1
        BY <1>4, <2>1, <3>2
      <4>2. Added(k + 1) = 256 * hi /\ Added(k) = 0
        BY <1>2, <2>1, <3>2
      <4>3. Part(e, k + 1) = 256 * hi /\ Part(d, k + 1) = 0
        BY <4>1 DEF Part
      <4> HIDE DEF Added
      <4> QED BY <1>1, <4>2, <4>3
    <3>3. CASE k + 1 = i + 1
      <4>1. e[k + 1] = lo /\ d[k + 1] = 0
        BY <1>2, <1>4, <2>1, <3>3
      <4>2. (k + 1) % 2 # 1
        BY <1>2, <2>1, <3>3
      <4>3. Added(k + 1) = c /\ Added(k) = 256 * hi
        BY <1>2, <2>1, <3>3
      <4>4. Part(e, k + 1) = lo /\ Part(d, k + 1) = 0
        BY <4>1, <4>2 DEF Part
      <4> HIDE DEF Added
      <4> QED BY <1>1, <4>3, <4>4
    <3> QED BY <1>2, <2>1, <3>1, <3>2, <3>3
  <2>6. Part(d, k + 1) \in Nat /\ Added(k) \in Nat /\ Added(k + 1) \in Nat
    BY <1>1, <2>1, PartType
  <2>7. /\ g[k + 1] = f[k] + Added(k) + Part(e, k + 1)
        /\ h[k + 1] = f[k] + Part(d, k + 1) + Added(k + 1)
    <3> HIDE DEF Added
    <3>1. h[k] = f[k] + Added(k) /\ h[k + 1] = f[k + 1] + Added(k + 1)
      BY <1>8, <2>1
    <3>2. g[k + 1] = g[k] + Part(e, k + 1) /\ f[k + 1] = f[k] + Part(d, k + 1)
      BY <1>7
    <3> QED BY <1>10, <3>1, <3>2
  <2> HIDE DEF Added
  <2>8. \A u, v, x, y \in Nat : u + x + (v + (y - x)) = u + v + y
    OBVIOUS
  <2>9. f[k] + Added(k) + (Part(d, k + 1) + (Added(k + 1) - Added(k)))
          = f[k] + Part(d, k + 1) + Added(k + 1)
    BY <2>2, <2>6, <2>8
  <2> QED BY <2>5, <2>7, <2>9, Zenon
<1>11. \A k \in 0..n : g[k] = h[k]
  <2>1. \A k \in 0..n - 1 : g[k] = h[k] => g[k + 1] = h[k + 1]
    BY <1>10
  <2>2. n \in Nat
    BY <1>2
  <2> DEFINE S == {k \in 0..n : g[k] = h[k]}
  <2>3. \A k \in 0..n : k \in S <=> g[k] = h[k]
    OBVIOUS
  <2>4. 0 \in 0..n /\ \A k \in 0..n - 1 : k \in 0..n /\ k + 1 \in 0..n
    BY <2>2
  <2> HIDE DEF n, S
  <2>5. 0 \in S /\ \A k \in 0..n - 1 : k \in S => k + 1 \in S
    BY <1>9, <2>1, <2>3, <2>4
  <2>6. 0..n \subseteq S
    BY <2>2, <2>5, UpToBySteps
  <2> QED BY <2>3, <2>6
<1>12. g[n] = f[n] + c
  <2>1. n \in 0..n /\ n \in Nat /\ Added(n) = c
    BY <1>2
  <2> HIDE DEF Added
  <2> QED BY <1>8, <1>11, <2>1
<1> QED BY <1>4, <1>7, <1>12 DEF c

\* A receiver adds the words up in pairs of bytes, and gets the same sum.
LEMMA VerifiesSum ==
  ASSUME NEW d \in Seq(Octets)
  PROVE  Verifies(d) <=> WordSum(d) % (W - 1) = 0
<1> DEFINE n == Len(d)
           m == (n + 1) \div 2
           Pair(k) == 256 * d[2 * k - 1]
           Second(k) == IF 2 * k <= n THEN d[2 * k] ELSE 0
           IsTotal(f) == f = [k \in 0..m |->
               IF k = 0 THEN 0
               ELSE f[k - 1] + 256 * d[2 * k - 1] + (IF 2 * k <= n THEN d[2 * k] ELSE 0)]
           total == CHOOSE f : IsTotal(f)
<1>1. Verifies(d) <=> total[m] % (W - 1) = 0
  BY Zenon DEF Verifies
<1> HIDE DEF total
<1>2. PICK f : Sums(d, f)
  BY SumSteps
<1>3. /\ n \in Nat /\ f \in [Nat -> Nat] /\ f[0] = 0 /\ WordSum(d) = f[n]
      /\ \A k \in 0..n - 1 : f[k + 1] = f[k] + Part(d, k + 1)
  BY <1>2 DEF Sums
<1>4. m \in Nat /\ 2 * m >= n /\ 2 * m <= n + 1
  <2>1. \A x \in Nat : LET y == (x + 1) \div 2 IN y \in Nat /\ 2 * y >= x /\ 2 * y <= x + 1
    OBVIOUS
  <2> HIDE DEF n
  <2> QED BY <1>3, <2>1
<1>5. ASSUME NEW k \in 1..n PROVE d[k] \in Nat
  <2>1. Octets \subseteq Nat
    BY DEF Octets
  <2> QED BY <2>1, ElementOfSeq
<1> HIDE DEF m, n
<1> DEFINE Last(k) == IF 2 * k <= n THEN 2 * k ELSE n
           h == [k \in 0..m |-> f[Last(k)]]
<1>6. \A k \in 0..m : h[k] = f[Last(k)]
  OBVIOUS
<1> HIDE DEF h
<1>7. h[0] = 0
  <2>1. 0 \in 0..m /\ Last(0) = 0
    BY <1>3, <1>4
  <2> HIDE DEF Last
  <2> QED BY <1>3, <1>6, <2>1
<1>8. ASSUME NEW k \in 1..m PROVE h[k] = h[k - 1] + Pair(k) + Second(k)
  <2>1. /\ k \in Nat /\ k \in 0..m /\ k - 1 \in 0..m /\ 2 * k - 1 \in 1..n
        /\ 2 * k - 2 \in 0..n - 1 /\ 2 * k - 2 \in Nat /\ 2 * k - 1 \in Nat
        /\ (2 * k - 2) + 1 = 2 * k - 1 /\ 2 * (k - 1) = 2 * k - 2
        /\ (2 * k - 1) + 1 = 2 * k
    BY <1>3, <1>4
  <2>2. (2 * k - 1) % 2 = 1 /\ (2 * k) % 2 # 1
    BY <2>1
  <2>3. h[k - 1] = f[2 * k - 2]
    <3>1. Last(k - 1) = 2 * k - 2
      BY <1>3, <2>1
    <3> HIDE DEF Last
    <3> QED BY <1>6, <2>1, <3>1
  <2>4. f[2 * k - 1] = f[2 * k - 2] + Pair(k)
    <3>1. f[2 * k - 1] = f[2 * k - 2] + Part(d, 2 * k - 1)
      BY <1>3, <2>1
    <3>2. Part(d, 2 * k - 1) = Pair(k)
      BY <2>2 DEF Part
    <3> QED BY <3>1, <3>2
  <2>5. f[2 * k - 1] \in Nat
    BY <1>3, <2>1
  <2>6. CASE 2 * k <= n
    <3>1. 2 * k - 1 \in 0..n - 1
      BY <1>3, <2>1, <2>6
    <3>2. f[2 * k] = f[2 * k - 1] + Part(d, 2 * k)
      BY <1>3, <2>1, <3>1
    <3>3. Part(d, 2 * k) = d[2 * k]
      BY <2>2 DEF Part
    <3>4. Last(k) = 2 * k /\ Second(k) = d[2 * k]
      BY <2>6
    <3>5. h[k] = f[2 * k]
      BY <1>6, <2>1, <3>4
    <3> HIDE DEF Last, Second, Pair
    <3> QED BY <2>3, <2>4, <3>2, <3>3, <3>4, <3>5
  <2>7. CASE ~(2 * k <= n)
    <3>1. n = 2 * k - 1
      BY <1>3, <2>1, <2>7
    <3>2. Last(k) = n /\ Second(k) = 0
      BY <2>7
    <3>3. h[k] = f[2 * k - 1]
      BY <1>6, <2>1, <3>1, <3>2
    <3> HIDE DEF Last, Second, Pair
    <3> QED BY <2>3, <2>4, <2>5, <3>2, <3>3
  <2> QED BY <2>6, <2>7
<1>9. IsTotal(h)
  <2>1. h = [k \in 0..m |-> h[k]]
    BY DEF h
  <2>2. ASSUME NEW k \in 0..m
        PROVE  h[k] = IF k = 0 THEN 0
                      ELSE h[k - 1] + 256 * d[2 * k - 1] + (IF 2 * k <= n THEN d[2 * k] ELSE 0)
    <3>1. k # 0 => k \in 1..m
      BY <1>4
    <3> QED BY <1>7, <1>8, <3>1
  <2> QED BY <2>1, <2>2
<1>10. IsTotal(total)
  <2> HIDE DEF IsTotal
  <2> QED BY <1>9 DEF total
<1>11. \A k \in 0..m : total[k] = IF k = 0 THEN 0 ELSE total[k - 1] + Pair(k) + Second(k)
  BY <1>10
<1> HIDE DEF IsTotal, Pair, Second
<1>12. total[0] = h[0]
  <2>1. 0 \in 0..m
    BY <1>4
  <2> QED BY <1>7, <1>11, <2>1
<1>13. ASSUME NEW k \in 0..m - 1, total[k] = h[k] PROVE total[k + 1] = h[k + 1]
  <2>1. k + 1 \in 0..m /\ k + 1 \in 1..m /\ k + 1 # 0 /\ (k + 1) - 1 = k
    BY <1>4
  <2>2. total[k + 1] = total[k] + Pair(k + 1) + Second(k + 1)
    BY <1>11, <2>1
  <2>3. h[k + 1] = h[k] + Pair(k + 1) + Second(k + 1)
    BY <1>8, <2>1
  <2> QED BY <1>13, <2>2, <2>3
<1>14. \A k \in 0..m : total[k] = h[k]
  BY <1>4, <1>12, <1>13, SameSteps
<1>15. total[m] = f[n]
  <2>1. m \in 0..m /\ Last(m) = n
    BY <1>3, <1>4
  <2> HIDE DEF Last
  <2> QED BY <1>6, <1>14, <2>1
<1> QED BY <1>1, <1>3, <1>15

\* A checksum stamped in verifies.
LEMMA StampVerifies ==
  ASSUME NEW d \in Seq(Octets), NEW i \in 1..Len(d) - 1, i % 2 = 1, d[i] = 0, d[i + 1] = 0,
         Len(d) <= W
  PROVE  Verifies(Stamp(d, i))
<1> DEFINE s == WordSum(d)
           c == calculate_checksum(d)
           e == Stamp(d, i)
<1>1. s \in Nat /\ s <= 65280 * 65536
  <2>1. PICK f : Sums(d, f)
    BY SumSteps
  <2>2. Len(d) \in Nat /\ Len(d) \in 0..Len(d)
    OBVIOUS
  <2>3. f[Len(d)] \in Nat /\ f[Len(d)] <= 65280 * Len(d)
    BY <2>1, <2>2, SumBound
  <2>4. s = f[Len(d)]
    BY <2>1 DEF Sums
  <2> HIDE DEF s
  <2> QED BY SMT, <2>2, <2>3, <2>4 DEF W
<1>2. c = W - 1 - FoldOnce(FoldOnce(s))
  BY DEF calculate_checksum
<1> HIDE DEF s, c
<1>3. c \in Nat /\ c <= 65535 /\ (s + c) % (W - 1) = 0
  BY SMT, <1>1, <1>2, FoldTwice
<1> DEFINE hi == c \div 256
           lo == c % 256
<1>4. hi \in Octets /\ lo \in Octets /\ c = 256 * hi + lo
  BY SMT, <1>3 DEF Octets
<1>5. e = Patched(d, i, hi, lo)
  BY DEF Stamp, Patched, c
<1> HIDE DEF hi, lo, e
<1>6. e \in Seq(Octets) /\ WordSum(e) = WordSum(d) + (256 * hi + lo)
  <2>1. hi \in Octets /\ lo \in Octets
    BY <1>4
  <2> QED BY <1>5, <2>1, PatchSum
<1>7. WordSum(e) = s + c
  BY <1>4, <1>6 DEF s
<1> QED BY <1>3, <1>6, <1>7, VerifiesSum DEF e

LEMMA IpVerifies == ASSUME NEW p \in Packets PROVE Verifies(IpHeader(p))
<1> DEFINE size == 28 + Len(Payload)
           a == <<69, 0, size \div 256, size % 256, 18, 52, 64, 0, 64, 1, 0, 0>>
           b == a \o SourceIp
           d == b \o p.to
<1>1. p.to \in Seq(Octets) /\ Len(p.to) = 4 /\ SourceIp \in Seq(Octets) /\ Len(SourceIp) = 4
  <2>1. p.to \in [1..4 -> Octets] /\ SourceIp \in [1..4 -> Octets]
    BY BytesAssumption DEF Packets, Octets
  <2>2. \A n \in Nat : \A w \in [1..n -> Octets] : w \in Seq(Octets) /\ Len(w) = n
    OBVIOUS
  <2>3. 4 \in Nat
    OBVIOUS
  <2> QED BY <2>1, <2>2, <2>3, Zenon
<1>2. size \in Nat /\ size < 65536
  BY SMT, BytesAssumption DEF W
<1>3. size \div 256 \in Octets /\ size % 256 \in Octets
  <2> HIDE DEF size
  <2> QED BY SMT, <1>2 DEF Octets
<1>4. /\ 69 \in Octets /\ 0 \in Octets /\ 18 \in Octets /\ 52 \in Octets /\ 64 \in Octets /\ 1 \in Octets
  BY DEF Octets
<1>5. IpHeader(p) = Stamp(d, 11)
  BY DEF IpHeader
<1> HIDE DEF size
<1>6. a \in Seq(Octets) /\ Len(a) = 12 /\ a[11] = 0 /\ a[12] = 0
  BY <1>3, <1>4
<1> HIDE DEF a
<1>7. 11 \in 1..Len(a) /\ 12 \in 1..Len(a)
  BY <1>6
<1>8. b \in Seq(Octets) /\ Len(b) = 16 /\ b[11] = 0 /\ b[12] = 0
  <2>1. a \in Seq(Octets) /\ SourceIp \in Seq(Octets)
    BY <1>1, <1>6
  <2>2. /\ a \o SourceIp \in Seq(Octets) /\ Len(a \o SourceIp) = Len(a) + Len(SourceIp)
        /\ \A i \in 1..Len(a) : (a \o SourceIp)[i] = a[i]
    BY <2>1, Joined
  <2> QED BY <1>1, <1>6, <1>7, <2>2
<1> HIDE DEF b
<1>9. 11 \in 1..Len(b) /\ 12 \in 1..Len(b)
  BY <1>8
<1>10. d \in Seq(Octets) /\ Len(d) = 20 /\ d[11] = 0 /\ d[12] = 0
  <2>1. b \in Seq(Octets) /\ p.to \in Seq(Octets)
    BY <1>1, <1>8
  <2>2. /\ b \o p.to \in Seq(Octets) /\ Len(b \o p.to) = Len(b) + Len(p.to)
        /\ \A i \in 1..Len(b) : (b \o p.to)[i] = b[i]
    BY <2>1, Joined
  <2> QED BY <1>1, <1>8, <1>9, <2>2
<1> HIDE DEF d
<1>11. 11 \in 1..Len(d) - 1 /\ 11 % 2 = 1 /\ 11 + 1 = 12
  BY <1>10
<1>12. Len(d) <= W
  BY SMT, <1>10 DEF W
<1> QED BY <1>5, <1>10, <1>11, <1>12, StampVerifies

LEMMA IcmpVerifies == ASSUME NEW p PROVE Verifies(IcmpPacket(p))
<1> DEFINE a == <<8, 0, 0, 0, 0, 1, 0, 1>>
           d == a \o Payload
<1>1. Payload \in Seq(Octets) /\ Len(Payload) \in Nat /\ 28 + Len(Payload) < W
  BY BytesAssumption DEF Octets
<1>2. 8 \in Octets /\ 0 \in Octets /\ 1 \in Octets
  BY DEF Octets
<1>3. a \in Seq(Octets) /\ Len(a) = 8 /\ a[3] = 0 /\ a[4] = 0
  BY <1>2
<1>4. IcmpPacket(p) = Stamp(d, 3)
  BY DEF IcmpPacket
<1> HIDE DEF a
<1>5. 3 \in 1..Len(a) /\ 4 \in 1..Len(a)
  BY <1>3
<1>6. d \in Seq(Octets) /\ Len(d) = 8 + Len(Payload) /\ d[3] = 0 /\ d[4] = 0
  <2>1. a \in Seq(Octets) /\ Payload \in Seq(Octets)
    BY <1>1, <1>3
  <2>2. /\ a \o Payload \in Seq(Octets) /\ Len(a \o Payload) = Len(a) + Len(Payload)
        /\ \A i \in 1..Len(a) : (a \o Payload)[i] = a[i]
    BY <2>1, Joined
  <2> QED BY <1>1, <1>3, <1>5, <2>2
<1> HIDE DEF d
<1>7. 3 \in 1..Len(d) - 1 /\ 3 % 2 = 1 /\ 3 + 1 = 4
  BY <1>1, <1>6
<1>8. Len(d) <= W
  BY SMT, <1>1, <1>6 DEF W
<1> QED BY <1>4, <1>6, <1>7, <1>8, StampVerifies

\* Both checksums of a ping verify at the receiver, whatever the addresses and
\* whatever a payload that fits: two folds of the carry are enough.
THEOREM BootChecksums == Spec => []ChecksumsVerify
<1>1. NetInv /\ [Next]_vars => NetInv'
  BY NetPart, NetInvStep
<1>2. NetInv => ChecksumsVerify
  <2> SUFFICES ASSUME NetInv, txBuf.kind = "ping"
               PROVE  Verifies(IpHeader(txBuf)) /\ Verifies(IcmpPacket(txBuf))
    BY DEF ChecksumsVerify
  <2>1. txBuf \in Packets
    BY DEF NetInv, NetTypeOK, Torn, NoPacket
  <2> QED BY <2>1, IpVerifies, IcmpVerifies
<1> QED BY <1>1, <1>2, NetInvInit, PTL DEF Spec
=============================================================================
