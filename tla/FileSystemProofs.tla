------------------------- MODULE FileSystemProofs ---------------------------
(***************************************************************************)
(* Proofs about the MICT file system, for every disk, block size, radix    *)
(* and set of names.  The provers have no induction; the few recursions of *)
(* the table's text are handled with the least element of a set of numbers *)
(* (Least): a least counterexample has a predecessor that is none.         *)
(***************************************************************************)
EXTENDS MictFileSystem, SetInduction, FiniteSetTheorems, TLAPS

\* The powers of the radix, as the recursion says.
LEMMA PowerFacts ==
  /\ Power \in [Nat -> Nat]
  /\ Power[0] = 1
  /\ \A n \in Nat : Power[n + 1] = Base * Power[n]
<1> DEFINE G == [k \in Nat |-> [v \in Nat |-> Base * v]]
           IsPower(f) == f = [n \in Nat |-> IF n = 0 THEN 1 ELSE Base * f[n - 1]]
<1>0. /\ Base \in Nat /\ 1 \in Nat /\ G \in [Nat -> [Nat -> Nat]]
      /\ \A k, v \in Nat : G[k][v] = Base * v
  BY TextAssumption
<1> HIDE DEF G
<1>1. PICK f \in [Nat -> Nat] : f[0] = 1 /\ \A n \in Nat : f[n + 1] = G[n + 1][f[n]]
  BY <1>0, NatRecursion
<1>2. ASSUME NEW n \in Nat PROVE f[n] = IF n = 0 THEN 1 ELSE Base * f[n - 1]
  <2>1. CASE n = 0
    BY <1>1, <2>1
  <2>2. CASE n # 0
    <3>1. n - 1 \in Nat /\ (n - 1) + 1 = n
      BY <2>2
    <3>2. f[n] = G[n][f[n - 1]] /\ f[n - 1] \in Nat
      BY <1>1, <3>1
    <3> QED BY <1>0, <2>2, <3>2
  <2> QED BY <2>1, <2>2
<1>3. IsPower(f)
  BY <1>1, <1>2
<1>4. Power = CHOOSE g : IsPower(g)
  BY DEF Power
<1>5. IsPower(Power)
  <2> HIDE DEF IsPower
  <2> QED BY <1>3, <1>4
<1>6. \A n \in Nat : Power[n] = IF n = 0 THEN 1 ELSE Base * Power[n - 1]
  BY <1>5
<1>7. Power[0] = 1 /\ \A n \in Nat : Power[n + 1] = Base * Power[n]
  <2>1. ASSUME NEW n \in Nat PROVE Power[n + 1] = Base * Power[n]
    <3>1. n + 1 \in Nat /\ n + 1 # 0 /\ (n + 1) - 1 = n
      OBVIOUS
    <3>2. Power[n + 1] = Base * Power[(n + 1) - 1]
      BY <1>6, <3>1
    <3> QED BY <3>1, <3>2
  <2> QED BY <1>6, <2>1
<1>8. \A n \in Nat : Power[n] \in Nat
  <2> DEFINE Bad == {n \in Nat : Power[n] \notin Nat}
  <2>1. Bad \in SUBSET Nat /\ \A n \in Nat : n \in Bad <=> Power[n] \notin Nat
    OBVIOUS
  <2> HIDE DEF Bad
  <2> SUFFICES ASSUME Bad # {} PROVE FALSE
    BY <2>1
  <2>2. PICK m \in Bad : \A n \in Bad : m <= n
    BY <2>1, Least
  <2>3. m \in Nat /\ m # 0
    BY <1>0, <1>7, <2>1
  <2>4. m - 1 \in Nat /\ ~(m <= m - 1) /\ (m - 1) + 1 = m
    BY <2>3
  <2>5. Power[m - 1] \in Nat
    BY <2>1, <2>2, <2>4
  <2>6. Power[m] = Base * Power[m - 1]
    BY <1>7, <2>4
  <2>7. \A a, b \in Nat : a * b \in Nat
    OBVIOUS
  <2>8. Power[m] \in Nat
    <3>1. Base * Power[m - 1] \in Nat
      BY <2>5, <2>7, TextAssumption, Zenon
    <3> QED BY <2>6, <3>1, Zenon
  <2> QED BY <2>1, <2>3, <2>8
<1> QED BY <1>5, <1>7, <1>8

\* A power is larger than its exponent.
LEMMA PowerGrows == \A n \in Nat : Power[n] > n
<1> DEFINE Bad == {n \in Nat : ~(Power[n] > n)}
<1>1. Bad \in SUBSET Nat /\ \A n \in Nat : n \in Bad <=> ~(Power[n] > n)
  OBVIOUS
<1> HIDE DEF Bad
<1> SUFFICES ASSUME Bad # {} PROVE FALSE
  BY <1>1
<1>2. PICK m \in Bad : \A n \in Bad : m <= n
  BY <1>1, Least
<1>3. m \in Nat /\ m # 0
  BY <1>1, PowerFacts
<1>4. m - 1 \in Nat /\ ~(m <= m - 1) /\ (m - 1) + 1 = m
  BY <1>3
<1>5. Power[m - 1] \in Nat /\ Power[m - 1] > m - 1
  BY <1>1, <1>2, <1>4, PowerFacts
<1>6. Power[m] = Base * Power[m - 1]
  BY <1>4, PowerFacts
<1>7. Base * Power[m - 1] >= 2 * Power[m - 1]
  BY <1>5, TextAssumption
<1>8. Power[m] > m
  BY <1>3, <1>5, <1>6, <1>7, TextAssumption
<1> QED BY <1>1, <1>3, <1>8

\* Every number has a width.
LEMMA DigitsFacts ==
  ASSUME NEW n \in Nat
  PROVE  Digits(n) \in Nat \ {0}
<1> DEFINE Wide == {d \in Nat \ {0} : Power[d] > n}
<1>1. Wide \in SUBSET Nat /\ \A d \in Nat : d \in Wide <=> d # 0 /\ Power[d] > n
  OBVIOUS
<1> HIDE DEF Wide
<1>2. n + 1 \in Nat /\ n + 1 # 0 /\ Power[n + 1] > n
  BY PowerGrows, PowerFacts
<1>3. PICK m \in Wide : \A d \in Wide : m <= d
  BY <1>1, <1>2, Least
<1>4. m \in Nat /\ m # 0 /\ Power[m] > n /\ m <= n + 1
  BY <1>1, <1>2, <1>3
<1>5. m \in 1..n + 1
  BY <1>4
<1>6. m = 1 \/ Power[m - 1] <= n
  <2> SUFFICES ASSUME m # 1 PROVE Power[m - 1] <= n
    OBVIOUS
  <2>1. m - 1 \in Nat /\ m - 1 # 0 /\ ~(m <= m - 1)
    BY <1>4
  <2>2. ~(Power[m - 1] > n) /\ Power[m - 1] \in Nat
    BY <1>1, <1>3, <2>1, PowerFacts
  <2> QED BY <2>2
<1>7. Digits(n) \in 1..n + 1
  BY <1>4, <1>5, <1>6 DEF Digits
<1> QED BY <1>7

\* The parts of a line have lengths, and add up.
LEMMA EntryLenFacts ==
  ASSUME NEW e \in Entries
  PROVE  /\ PrefixLen(e) \in Nat /\ EntryLen(e) \in Nat
         /\ Digits(e.count) \in Nat \ {0}
         /\ EntryLen(e) = PrefixLen(e) + Digits(e.count) + 1
<1>1. e.lba \in Nat /\ e.count \in Nat
  BY DEF Entries
<1>2. Digits(e.lba) \in Nat \ {0} /\ Digits(e.count) \in Nat \ {0}
  BY <1>1, DigitsFacts
<1>3. NameLen(e.name) \in Nat
  BY DEF NameLen
<1> QED BY <1>2, <1>3 DEF PrefixLen, EntryLen

\* The lines of the text follow each other.
LEMMA LineEndFacts ==
  ASSUME NEW s \in Seq(Entries)
  PROVE  /\ LineEnd(s, 0) = Header
         /\ \A k \in 1..Len(s) : LineEnd(s, k) = LineEnd(s, k - 1) + EntryLen(s[k])
<1> DEFINE w == [k \in Nat |-> IF k \in 1..Len(s) THEN EntryLen(s[k]) ELSE 0]
           G == [k \in Nat |-> [v \in Nat |-> v + w[k]]]
           IsEnd(f) == f = [j \in 0..Len(s) |->
                              IF j = 0 THEN Header ELSE f[j - 1] + EntryLen(s[j])]
<1>1. \A k \in 1..Len(s) : EntryLen(s[k]) \in Nat
  BY EntryLenFacts
<1>2. w \in [Nat -> Nat] /\ \A k \in 1..Len(s) : w[k] = EntryLen(s[k])
  BY <1>1
<1> HIDE DEF w
<1>3. G \in [Nat -> [Nat -> Nat]] /\ \A k, v \in Nat : G[k][v] = v + w[k]
  BY <1>2
<1>4. Header \in Nat
  BY DEF Header
<1> HIDE DEF G
<1>5. PICK g \in [Nat -> Nat] : g[0] = Header /\ \A n \in Nat : g[n + 1] = G[n + 1][g[n]]
  BY <1>3, <1>4, NatRecursion
<1> DEFINE f == [j \in 0..Len(s) |-> g[j]]
<1>6. ASSUME NEW j \in 0..Len(s)
      PROVE  f[j] = IF j = 0 THEN Header ELSE f[j - 1] + EntryLen(s[j])
  <2>1. CASE j = 0
    BY <1>5, <2>1
  <2>2. CASE j # 0
    <3>1. j - 1 \in Nat /\ (j - 1) + 1 = j /\ j - 1 \in 0..Len(s) /\ j \in 1..Len(s) /\ j \in Nat
      BY <2>2
    <3>2. g[j] = G[j][g[j - 1]] /\ g[j - 1] \in Nat
      BY <1>5, <3>1
    <3>3. g[j] = g[j - 1] + EntryLen(s[j])
      BY <1>2, <1>3, <3>1, <3>2
    <3>4. f[j] = g[j] /\ f[j - 1] = g[j - 1]
      BY <3>1
    <3> HIDE DEF f
    <3> QED BY <2>2, <3>3, <3>4
  <2> QED BY <2>1, <2>2
<1>7. IsEnd(f)
  <2>1. f = [j \in 0..Len(s) |-> f[j]]
    OBVIOUS
  <2> HIDE DEF f
  <2> QED BY <1>6, <2>1
<1> DEFINE end == CHOOSE h : IsEnd(h)
<1>8. IsEnd(end)
  <2> HIDE DEF IsEnd, f
  <2> QED BY <1>7
<1>9. \A k : LineEnd(s, k) = end[k]
  BY DEF LineEnd
<1>10. \A j \in 0..Len(s) : end[j] = IF j = 0 THEN Header ELSE end[j - 1] + EntryLen(s[j])
  <2> HIDE DEF end
  <2> QED BY <1>8
<1> HIDE DEF end
<1>11. 0 \in 0..Len(s) /\ \A k \in 1..Len(s) : k \in 0..Len(s) /\ k # 0
  OBVIOUS
<1> QED BY <1>9, <1>10, <1>11

\* Every line ends at some offset.
LEMMA LineEndNat ==
  ASSUME NEW s \in Seq(Entries)
  PROVE  \A k \in 0..Len(s) : LineEnd(s, k) \in Nat
<1> DEFINE Bad == {k \in 0..Len(s) : LineEnd(s, k) \notin Nat}
<1>1. /\ Bad \in SUBSET Nat /\ Bad \subseteq 0..Len(s)
      /\ \A k \in 0..Len(s) : k \in Bad <=> LineEnd(s, k) \notin Nat
  <2>1. 0..Len(s) \subseteq Nat
    OBVIOUS
  <2> QED BY <2>1
<1> HIDE DEF Bad
<1> SUFFICES ASSUME Bad # {} PROVE FALSE
  BY <1>1
<1>2. PICK m \in Bad : \A k \in Bad : m <= k
  BY <1>1, Least
<1>3. m \in 0..Len(s) /\ m # 0
  BY <1>1, LineEndFacts DEF Header
<1>4. m - 1 \in 0..Len(s) /\ ~(m <= m - 1) /\ m \in 1..Len(s)
  BY <1>3
<1>5. LineEnd(s, m - 1) \in Nat
  BY <1>1, <1>2, <1>4
<1>6. LineEnd(s, m) = LineEnd(s, m - 1) + EntryLen(s[m]) /\ EntryLen(s[m]) \in Nat
  <2>1. s[m] \in Entries
    BY <1>4
  <2>2. EntryLen(s[m]) \in Nat
    BY <2>1, EntryLenFacts
  <2> QED BY <1>4, <2>2, LineEndFacts
<1>7. LineEnd(s, m) \in Nat
  BY <1>5, <1>6
<1> QED BY <1>1, <1>3, <1>7

\* No line ends after the last one.
LEMMA LineEndOrder ==
  ASSUME NEW s \in Seq(Entries)
  PROVE  \A k \in 0..Len(s) : LineEnd(s, k) <= LineEnd(s, Len(s))
<1> DEFINE Bad == {d \in 0..Len(s) : ~(LineEnd(s, Len(s) - d) <= LineEnd(s, Len(s)))}
<1>0. Len(s) \in Nat /\ \A d \in 0..Len(s) : Len(s) - d \in 0..Len(s) /\ Len(s) - (Len(s) - d) = d
  OBVIOUS
<1>1. /\ Bad \in SUBSET Nat /\ Bad \subseteq 0..Len(s)
      /\ \A d \in 0..Len(s) : d \in Bad <=> ~(LineEnd(s, Len(s) - d) <= LineEnd(s, Len(s)))
  <2>1. 0..Len(s) \subseteq Nat
    OBVIOUS
  <2> QED BY <2>1
<1> HIDE DEF Bad
<1>2. Bad = {}
  <2> SUFFICES ASSUME Bad # {} PROVE FALSE
    OBVIOUS
  <2>2. PICK m \in Bad : \A k \in Bad : m <= k
    BY <1>1, Least
  <2>3. m \in 0..Len(s) /\ m # 0
    <3>1. Len(s) - 0 = Len(s) /\ Len(s) \in 0..Len(s)
      BY <1>0
    <3>2. LineEnd(s, Len(s)) \in Nat
      BY <3>1, LineEndNat
    <3>3. LineEnd(s, Len(s) - 0) <= LineEnd(s, Len(s))
      BY <3>1, <3>2
    <3> QED BY <1>1, <3>3
  <2>4. m - 1 \in 0..Len(s) /\ ~(m <= m - 1)
    BY <2>3
  <2> DEFINE k == Len(s) - (m - 1)
  <2>5. LineEnd(s, k) <= LineEnd(s, Len(s))
    BY <1>1, <2>2, <2>4
  <2>6. k \in 1..Len(s) /\ k \in 0..Len(s) /\ k - 1 \in 0..Len(s) /\ k - 1 = Len(s) - m
        /\ Len(s) \in 0..Len(s)
    BY <1>0, <2>3
  <2> HIDE DEF k
  <2>7. LineEnd(s, k) = LineEnd(s, k - 1) + EntryLen(s[k]) /\ EntryLen(s[k]) \in Nat
    <3>1. s[k] \in Entries
      BY <2>6
    <3>2. EntryLen(s[k]) \in Nat
      BY <3>1, EntryLenFacts
    <3> QED BY <2>6, <3>2, LineEndFacts
  <2>8. LineEnd(s, k - 1) \in Nat /\ LineEnd(s, Len(s)) \in Nat
    BY <2>6, LineEndNat
  <2>9. LineEnd(s, k - 1) <= LineEnd(s, Len(s))
    BY <2>5, <2>7, <2>8
  <2> QED BY <1>1, <2>3, <2>6, <2>9
<1>3. ASSUME NEW k \in 0..Len(s) PROVE LineEnd(s, k) <= LineEnd(s, Len(s))
  <2>1. Len(s) - k \in 0..Len(s) /\ Len(s) - (Len(s) - k) = k
    BY <1>0
  <2> QED BY <1>1, <1>2, <2>1
<1> QED BY <1>3

\* A quotient is no larger than what is divided.
LEMMA Quotient ==
  ASSUME NEW n \in Nat, NEW p \in Nat, p > 0
  PROVE  n \div p \in Nat /\ n \div p <= n
OBVIOUS

\* A line cut short keeps all but its count, and that does not grow.
LEMMA CutFacts ==
  ASSUME NEW e \in Entries, NEW r \in Int
  PROVE  /\ Cut(e, r) \in Entries
         /\ Cut(e, r).name = e.name /\ Cut(e, r).lba = e.lba /\ Cut(e, r).tag = e.tag
         /\ Cut(e, r).count <= e.count
<1>1. /\ PrefixLen(e) \in Nat /\ Digits(e.count) \in Nat
      /\ EntryLen(e) - 1 = PrefixLen(e) + Digits(e.count)
  BY EntryLenFacts
<1>2. e.count \in Nat
  BY DEF Entries
<1>3. CASE r >= EntryLen(e) - 1
  BY <1>2, <1>3 DEF Cut
<1>4. CASE ~(r >= EntryLen(e) - 1)
  <2> DEFINE x == PrefixLen(e) + Digits(e.count) - r
             c == e.count \div Power[x]
  <2>1. x \in Nat
    BY <1>1, <1>4
  <2>2. Power[x] \in Nat /\ Power[x] > 0
    <3> HIDE DEF x
    <3>1. Power[x] \in Nat /\ Power[x] > x
      BY <2>1, PowerFacts, PowerGrows
    <3> QED BY <2>1, <3>1
  <2>3. c \in Nat /\ c <= e.count
    <3> HIDE DEF x
    <3> QED BY <1>2, <2>2, Quotient
  <2>4. Cut(e, r) = [e EXCEPT !.count = c]
    BY <1>4 DEF Cut
  <2> HIDE DEF c
  <2> QED BY <2>3, <2>4 DEF Entries
<1> QED BY <1>3, <1>4

\* What is read back are the first lines, with their counts at most as written.
LEMMA StoredFacts ==
  ASSUME NEW s \in Seq(Entries)
  PROVE  /\ Stored(s) \in Seq(Entries) /\ Len(Stored(s)) <= Len(s)
         /\ \A k \in 1..Len(Stored(s)) :
              /\ k \in 1..Len(s)
              /\ Stored(s)[k].name = s[k].name /\ Stored(s)[k].lba = s[k].lba
              /\ Stored(s)[k].tag = s[k].tag /\ Stored(s)[k].count <= s[k].count
<1> DEFINE kept == {k \in 1..Len(s) : Room(s, k) > PrefixLen(s[k])}
           n == Cardinality(kept)
<1>0. Len(s) \in Nat
  OBVIOUS
<1>1. n \in Nat /\ n <= Len(s)
  <2>1. kept \in SUBSET (1..Len(s))
    OBVIOUS
  <2> HIDE DEF kept
  <2>2. IsFiniteSet(1..Len(s)) /\ Cardinality(1..Len(s)) = Len(s)
    BY <1>0, FS_Interval
  <2>3. IsFiniteSet(kept) /\ Cardinality(kept) <= Len(s)
    BY <2>1, <2>2, FS_Subset
  <2>4. Cardinality(kept) \in Nat
    BY <2>3, FS_CardinalityType
  <2> QED BY <2>3, <2>4
<1>2. Stored(s) = [k \in 1..n |-> Cut(s[k], Room(s, k))]
  BY DEF Stored
<1> HIDE DEF n, kept
<1>3. ASSUME NEW k \in 1..n PROVE k \in 1..Len(s) /\ s[k] \in Entries /\ Room(s, k) \in Int
  <2>1. k \in 1..Len(s) /\ k - 1 \in 0..Len(s)
    BY <1>0, <1>1
  <2>2. LineEnd(s, k - 1) \in Nat
    BY <2>1, LineEndNat
  <2> QED BY <2>1, <2>2, TextAssumption DEF Room
<1>4. ASSUME NEW k \in 1..n
      PROVE  /\ Cut(s[k], Room(s, k)) \in Entries
             /\ Cut(s[k], Room(s, k)).name = s[k].name
             /\ Cut(s[k], Room(s, k)).lba = s[k].lba
             /\ Cut(s[k], Room(s, k)).tag = s[k].tag
             /\ Cut(s[k], Room(s, k)).count <= s[k].count
  BY <1>3, CutFacts
<1>5. Stored(s) \in [1..n -> Entries]
  BY <1>2, <1>4
<1>6. Stored(s) \in Seq(Entries) /\ Len(Stored(s)) = n
  BY <1>1, <1>5
<1> QED BY <1>1, <1>2, <1>3, <1>4, <1>6

\* A table that fits is read back as it was written.
LEMMA StoredWhole ==
  ASSUME NEW s \in Seq(Entries), Fits(s)
  PROVE  Stored(s) = s
<1> DEFINE kept == {k \in 1..Len(s) : Room(s, k) > PrefixLen(s[k])}
<1>0. Len(s) \in Nat
  OBVIOUS
<1>1. ASSUME NEW k \in 1..Len(s)
      PROVE  Room(s, k) > PrefixLen(s[k]) /\ Cut(s[k], Room(s, k)) = s[k]
  <2>1. k \in 0..Len(s) /\ k - 1 \in 0..Len(s) /\ Len(s) \in 0..Len(s) /\ s[k] \in Entries
    OBVIOUS
  <2>2. LineEnd(s, k - 1) \in Nat /\ LineEnd(s, k) \in Nat /\ LineEnd(s, Len(s)) \in Nat
    BY <2>1, LineEndNat
  <2>3. LineEnd(s, k) <= LineEnd(s, Len(s)) /\ LineEnd(s, k) = LineEnd(s, k - 1) + EntryLen(s[k])
    BY <2>1, LineEndOrder, LineEndFacts
  <2>4. /\ PrefixLen(s[k]) \in Nat /\ EntryLen(s[k]) \in Nat
        /\ EntryLen(s[k]) > PrefixLen(s[k])
    <3>1. /\ PrefixLen(s[k]) \in Nat /\ EntryLen(s[k]) \in Nat
          /\ Digits(s[k].count) \in Nat \ {0}
          /\ EntryLen(s[k]) = PrefixLen(s[k]) + Digits(s[k].count) + 1
      BY <2>1, EntryLenFacts
    <3> QED BY <3>1
  <2>5. Room(s, k) \in Int /\ Room(s, k) >= EntryLen(s[k])
    BY <2>2, <2>3, <2>4, TextAssumption DEF Fits, Room
  <2>6. Room(s, k) > PrefixLen(s[k]) /\ Room(s, k) >= EntryLen(s[k]) - 1
    BY <2>4, <2>5
  <2> QED BY <2>6 DEF Cut
<1>2. kept = 1..Len(s)
  BY <1>1
<1>3. Cardinality(kept) = Len(s)
  <2> HIDE DEF kept
  <2>1. IsFiniteSet(1..Len(s)) /\ Cardinality(1..Len(s)) = Len(s)
    BY <1>0, FS_Interval
  <2> QED BY <1>2, <2>1
<1>4. Stored(s) = [k \in 1..Cardinality(kept) |-> Cut(s[k], Room(s, k))]
  BY DEF Stored
<1> HIDE DEF kept
<1>5. Stored(s) = [k \in 1..Len(s) |-> s[k]]
  BY <1>1, <1>3, <1>4
<1> QED BY <1>5

-----------------------------------------------------------------------------
(* Tables.                                                                 *)

\* Cutting a table's text short leaves a table of the same quality.
LEMMA StoredGood ==
  ASSUME NEW s \in Seq(Entries)
  PROVE  /\ Ordered(s) => Ordered(Stored(s))
         /\ Intact(s) => Intact(Stored(s))
         /\ Distinct(s) => Distinct(Stored(s))
<1> DEFINE t == Stored(s)
<1>1. /\ t \in Seq(Entries) /\ Len(t) \in Nat /\ Len(s) \in Nat /\ Len(t) <= Len(s)
      /\ \A k \in 1..Len(t) : /\ k \in 1..Len(s)
                              /\ t[k].name = s[k].name /\ t[k].lba = s[k].lba
                              /\ t[k].tag = s[k].tag /\ t[k].count <= s[k].count
  BY StoredFacts
<1> HIDE DEF t
<1>2. \A k \in 1..Len(t) : t[k] \in Entries /\ s[k] \in Entries
  BY <1>1
<1>3. \A k \in 1..Len(t) : /\ t[k].lba \in Nat /\ t[k].count \in Nat
                           /\ s[k].lba \in Nat /\ s[k].count \in Nat
  BY <1>2 DEF Entries
<1>4. Ordered(s) => Ordered(t)
  <2> SUFFICES ASSUME Ordered(s), NEW j \in 1..Len(t)
               PROVE  /\ t[j].lba > 0 /\ t[j].lba + t[j].count - 1 <= LastLba
                      /\ \A k \in j + 1..Len(t) : t[j].lba + t[j].count <= t[k].lba
    BY DEF Ordered
  <2>1. /\ j \in 1..Len(s) /\ s[j].lba > 0 /\ s[j].lba + s[j].count - 1 <= LastLba
        /\ t[j].lba = s[j].lba /\ t[j].count <= s[j].count
    BY <1>1 DEF Ordered
  <2>2. ASSUME NEW k \in j + 1..Len(t) PROVE t[j].lba + t[j].count <= t[k].lba
    <3>1. k \in 1..Len(t) /\ k \in j + 1..Len(s)
      BY <1>1
    <3>2. s[j].lba + s[j].count <= s[k].lba /\ t[k].lba = s[k].lba
      BY <1>1, <2>1, <3>1 DEF Ordered
    <3>3. /\ t[j].lba \in Nat /\ t[j].count \in Nat /\ s[j].lba \in Nat /\ s[j].count \in Nat
          /\ t[k].lba \in Nat
      BY <1>3, <3>1
    <3> QED BY <2>1, <3>2, <3>3
  <2> QED BY <1>3, <2>1, <2>2, DiskAssumption
<1>5. Intact(s) => Intact(t)
  <2> SUFFICES ASSUME Intact(s), NEW j \in 1..Len(t), NEW k \in 0..t[j].count - 1
               PROVE  disk[t[j].lba + k].tag = t[j].tag /\ disk[t[j].lba + k].idx = k
    BY DEF Intact
  <2>1. j \in 1..Len(s) /\ k \in 0..s[j].count - 1
    BY <1>1, <1>3
  <2> QED BY <1>1, <2>1 DEF Intact
<1>6. Distinct(s) => Distinct(t)
  BY <1>1 DEF Distinct
<1> QED BY <1>4, <1>5, <1>6 DEF t

\* The next block lies behind every extent, and at most one past the disk.
LEMMA NextLbaFacts ==
  ASSUME NEW s \in Seq(Entries), Ordered(s)
  PROVE  /\ NextLba(s) \in Nat /\ NextLba(s) > 0 /\ NextLba(s) - 1 <= LastLba
         /\ \A j \in 1..Len(s) : s[j].lba + s[j].count <= NextLba(s)
<1>1. CASE s = <<>>
  BY <1>1, DiskAssumption DEF NextLba
<1>2. CASE s # <<>>
  <2>1. Len(s) \in Nat /\ Len(s) \in 1..Len(s)
    BY <1>2
  <2>2. \A j \in 1..Len(s) : s[j] \in Entries
    OBVIOUS
  <2>3. \A j \in 1..Len(s) : s[j].lba \in Nat /\ s[j].count \in Nat
    BY <2>2 DEF Entries
  <2>4. NextLba(s) = s[Len(s)].lba + s[Len(s)].count
    BY <1>2 DEF NextLba
  <2>5. s[Len(s)].lba > 0 /\ s[Len(s)].lba + s[Len(s)].count - 1 <= LastLba
    BY <2>1 DEF Ordered
  <2>6. ASSUME NEW j \in 1..Len(s) PROVE s[j].lba + s[j].count <= NextLba(s)
    <3>1. CASE j = Len(s)
      BY <2>1, <2>3, <2>4, <3>1
    <3>2. CASE j # Len(s)
      <4>1. Len(s) \in j + 1..Len(s)
        BY <2>1, <3>2
      <4>2. s[j].lba + s[j].count <= s[Len(s)].lba
        BY <4>1 DEF Ordered
      <4> QED BY <2>1, <2>3, <2>4, <4>2
    <3> QED BY <3>1, <3>2
  <2> QED BY <2>1, <2>3, <2>4, <2>5, <2>6, DiskAssumption
<1> QED BY <1>1, <1>2

\* An entry for the blocks just written ends the table well.
LEMMA AppendGood ==
  ASSUME NEW s \in Seq(Entries), NEW e \in Entries, Ordered(s), Intact(s), Distinct(s),
         e.lba = NextLba(s), e.lba + e.count - 1 <= LastLba, Matches(s, e.name) = {},
         \A k \in 0..e.count - 1 : disk[e.lba + k].tag = e.tag /\ disk[e.lba + k].idx = k
  PROVE  /\ Append(s, e) \in Seq(Entries)
         /\ Ordered(Append(s, e)) /\ Intact(Append(s, e)) /\ Distinct(Append(s, e))
         /\ \A j \in 1..Len(s) : Has(Append(s, e), s[j])
<1> DEFINE t == Append(s, e)
<1>1. /\ t \in Seq(Entries) /\ Len(s) \in Nat /\ Len(t) = Len(s) + 1 /\ t[Len(s) + 1] = e
      /\ \A j \in 1..Len(s) : t[j] = s[j]
  OBVIOUS
<1>2. \A j \in 1..Len(s) : s[j] \in Entries
  OBVIOUS
<1> HIDE DEF t
<1>3. /\ e.lba \in Nat /\ e.count \in Nat
      /\ \A j \in 1..Len(s) : s[j].lba \in Nat /\ s[j].count \in Nat
  BY <1>2 DEF Entries
<1>4. \A j \in 1..Len(t) : j \in 1..Len(s) \/ j = Len(s) + 1
  BY <1>1
<1>5. Ordered(t)
  <2> SUFFICES ASSUME NEW j \in 1..Len(t)
               PROVE  /\ t[j].lba > 0 /\ t[j].lba + t[j].count - 1 <= LastLba
                      /\ \A k \in j + 1..Len(t) : t[j].lba + t[j].count <= t[k].lba
    BY DEF Ordered
  <2>1. CASE j \in 1..Len(s)
    <3>1. t[j] = s[j] /\ s[j].lba > 0 /\ s[j].lba + s[j].count - 1 <= LastLba
      BY <1>1, <2>1 DEF Ordered
    <3>2. ASSUME NEW k \in j + 1..Len(t) PROVE s[j].lba + s[j].count <= t[k].lba
      <4>1. CASE k = Len(s) + 1
        BY <1>1, <2>1, <4>1, NextLbaFacts
      <4>2. CASE k # Len(s) + 1
        <5>1. k \in 1..Len(s) /\ k \in j + 1..Len(s)
          BY <1>1, <2>1, <4>2
        <5> QED BY <1>1, <2>1, <5>1 DEF Ordered
      <4> QED BY <4>1, <4>2
    <3> QED BY <3>1, <3>2
  <2>2. CASE j = Len(s) + 1
    <3>1. j + 1..Len(t) = {}
      BY <1>1, <2>2
    <3> QED BY <1>1, <2>2, <3>1, NextLbaFacts
  <2> QED BY <1>4, <2>1, <2>2
<1>6. Intact(t)
  BY <1>1, <1>4 DEF Intact
<1>7. Distinct(t)
  <2>1. \A j \in 1..Len(s) : s[j].name # e.name
    BY DEF Matches
  <2> QED BY <1>1, <1>4, <2>1 DEF Distinct
<1>8. \A j \in 1..Len(s) : Has(t, s[j])
  <2>1. \A j \in 1..Len(s) : j \in 1..Len(t)
    BY <1>1
  <2> QED BY <1>1, <2>1 DEF Has
<1> QED BY <1>1, <1>5, <1>6, <1>7, <1>8 DEF t

\* Which entry is where after one is removed.
LEMMA WithoutFacts ==
  ASSUME NEW s \in Seq(Entries), NEW k \in 1..Len(s)
  PROVE  /\ Without(s, k) \in Seq(Entries) /\ Len(Without(s, k)) = Len(s) - 1
         /\ \A j \in 1..Len(s) - 1 : Without(s, k)[j] = IF j < k THEN s[j] ELSE s[j + 1]
<1> DEFINE a == SubSeq(s, 1, k - 1)
           b == SubSeq(s, k + 1, Len(s))
<1>1. a \in Seq(Entries) /\ Len(a) = k - 1 /\ \A j \in 1..k - 1 : a[j] = s[j]
  OBVIOUS
<1>2. /\ b \in Seq(Entries) /\ Len(b) = Len(s) - k
      /\ \A j \in 1..Len(s) - k : b[j] = s[j + k]
  OBVIOUS
<1>3. Without(s, k) = a \o b
  BY DEF Without
<1> HIDE DEF a, b
<1>4. ASSUME NEW j \in 1..Len(s) - 1
      PROVE  (a \o b)[j] = IF j < k THEN s[j] ELSE s[j + 1]
  <2>1. CASE j < k
    BY <1>1, <1>2, <2>1
  <2>2. CASE ~(j < k)
    <3>1. j - (k - 1) \in 1..Len(s) - k /\ (j - (k - 1)) + k = j + 1
      BY <2>2
    <3>2. (a \o b)[j] = b[j - (k - 1)]
      BY <1>1, <1>2, <2>2
    <3> QED BY <1>2, <2>2, <3>1, <3>2
  <2> QED BY <2>1, <2>2
<1>5. a \o b \in Seq(Entries) /\ Len(a \o b) = Len(s) - 1
  <2>1. a \o b \in Seq(Entries) /\ Len(a \o b) = Len(a) + Len(b)
    <3>1. a \in Seq(Entries) /\ b \in Seq(Entries)
      BY <1>1, <1>2
    <3>2. ASSUME NEW u \in Seq(Entries), NEW v \in Seq(Entries)
          PROVE  u \o v \in Seq(Entries) /\ Len(u \o v) = Len(u) + Len(v)
      OBVIOUS
    <3> QED BY <3>1, <3>2
  <2>2. k \in Nat /\ Len(s) \in Nat
    OBVIOUS
  <2> QED BY <1>1, <1>2, <2>1, <2>2
<1> QED BY <1>3, <1>4, <1>5

\* Removing an entry leaves a good table, with every other entry in it.
LEMMA WithoutGood ==
  ASSUME NEW s \in Seq(Entries), NEW k \in 1..Len(s), Ordered(s), Intact(s), Distinct(s)
  PROVE  /\ Without(s, k) \in Seq(Entries)
         /\ Ordered(Without(s, k)) /\ Intact(Without(s, k)) /\ Distinct(Without(s, k))
         /\ \A j \in 1..Len(s) : j # k => Has(Without(s, k), s[j])
<1> DEFINE t == Without(s, k)
           Old(j) == IF j < k THEN j ELSE j + 1
<1>1. /\ t \in Seq(Entries) /\ Len(s) \in Nat /\ Len(t) = Len(s) - 1
      /\ \A j \in 1..Len(t) : t[j] = s[Old(j)]
  <2>1. Len(s) \in Nat
    OBVIOUS
  <2> QED BY <2>1, WithoutFacts
<1>2. /\ \A j \in 1..Len(t) : Old(j) \in 1..Len(s)
      /\ \A j \in 1..Len(t) : \A l \in j + 1..Len(t) :
            l \in 1..Len(t) /\ Old(l) \in Old(j) + 1..Len(s)
      /\ \A j, l \in 1..Len(t) : Old(j) = Old(l) => j = l
  BY <1>1
<1>3. \A j \in 1..Len(s) : j # k => \E l \in 1..Len(t) : Old(l) = j
  <2> SUFFICES ASSUME NEW j \in 1..Len(s), j # k PROVE \E l \in 1..Len(t) : Old(l) = j
    OBVIOUS
  <2>1. CASE j < k
    <3>1. j \in 1..Len(t) /\ Old(j) = j
      BY <1>1, <2>1
    <3> QED BY <3>1
  <2>2. CASE j > k
    <3>1. j - 1 \in 1..Len(t) /\ Old(j - 1) = j
      BY <1>1, <2>2
    <3> QED BY <3>1
  <2> QED BY <2>1, <2>2
<1> HIDE DEF t, Old
<1>4. Ordered(t)
  BY <1>1, <1>2 DEF Ordered
<1>5. Intact(t)
  <2> SUFFICES ASSUME NEW j \in 1..Len(t), NEW l \in 0..t[j].count - 1
               PROVE  disk[t[j].lba + l].tag = t[j].tag /\ disk[t[j].lba + l].idx = l
    BY DEF Intact
  <2>1. t[j] = s[Old(j)] /\ Old(j) \in 1..Len(s)
    BY <1>1, <1>2
  <2>2. l \in 0..s[Old(j)].count - 1
    BY <2>1
  <2> QED BY <2>1, <2>2 DEF Intact
<1>6. Distinct(t)
  BY <1>1, <1>2 DEF Distinct
<1>7. \A j \in 1..Len(s) : j # k => Has(t, s[j])
  BY <1>1, <1>3 DEF Has
<1> QED BY <1>1, <1>4, <1>5, <1>6, <1>7 DEF t

\* So does giving an entry a name that no entry has.
LEMMA RenameGood ==
  ASSUME NEW s \in Seq(Entries), NEW k \in 1..Len(s), NEW to \in Names,
         Ordered(s), Intact(s), Distinct(s), Matches(s, to) = {}
  PROVE  LET t == [s EXCEPT ![k].name = to]
         IN  /\ t \in Seq(Entries) /\ Ordered(t) /\ Intact(t) /\ Distinct(t)
             /\ \A j \in 1..Len(s) : j # k => Has(t, s[j])
<1> DEFINE t == [s EXCEPT ![k].name = to]
<1>1. \A j \in 1..Len(s) : s[j] \in Entries
  OBVIOUS
<1>2. [s[k] EXCEPT !.name = to] \in Entries
  BY <1>1 DEF Entries
<1>3. /\ t \in Seq(Entries) /\ Len(t) = Len(s)
      /\ \A j \in 1..Len(s) : j # k => t[j] = s[j]
      /\ t[k] = [s[k] EXCEPT !.name = to]
  BY <1>2
<1>4. /\ t[k].name = to
      /\ \A j \in 1..Len(s) : t[j].lba = s[j].lba /\ t[j].count = s[j].count /\ t[j].tag = s[j].tag
  <2>1. /\ t[k].name = to /\ t[k].lba = s[k].lba
        /\ t[k].count = s[k].count /\ t[k].tag = s[k].tag
    BY <1>1, <1>3 DEF Entries
  <2> HIDE DEF t
  <2> QED BY <1>3, <2>1
<1> HIDE DEF t
<1>5. Ordered(t)
  BY <1>3, <1>4 DEF Ordered
<1>6. Intact(t)
  BY <1>3, <1>4 DEF Intact
<1>7. Distinct(t)
  <2>1. \A j \in 1..Len(s) : s[j].name # to
    BY DEF Matches
  <2> SUFFICES ASSUME NEW j \in 1..Len(s), NEW l \in 1..Len(s), t[j].name = t[l].name
               PROVE  j = l
    BY <1>3 DEF Distinct
  <2>2. CASE j = k \/ l = k
    BY <1>3, <1>4, <2>1, <2>2
  <2>3. CASE j # k /\ l # k
    BY <1>3, <2>3 DEF Distinct
  <2> QED BY <2>2, <2>3
<1>8. \A j \in 1..Len(s) : j # k => Has(t, s[j])
  BY <1>3 DEF Has
<1> QED BY <1>3, <1>5, <1>6, <1>7, <1>8 DEF t

-----------------------------------------------------------------------------
(* The inductive invariant, action by action.                              *)

\* The empty table is a good one.
LEMMA InitInv == Init => FsInv
<1> SUFFICES ASSUME Init PROVE FsInv
  OBVIOUS
<1>1. mft = <<>> /\ Len(mft) = 0 /\ 1..Len(mft) = {}
  BY DEF Init
<1>2. TypeOK
  <2>1. Unwritten \in BlockData
    BY DiskAssumption DEF Unwritten, BlockData, Tags
  <2> QED BY <2>1, DiskAssumption DEF Init, TypeOK
<1>3. ExtentsDisjoint /\ CommittedIntact /\ UniqueNames
  BY <1>1 DEF ExtentsDisjoint, CommittedIntact, UniqueNames, Ordered, Intact, Distinct
<1>4. DataInv /\ TableInv /\ ReadIsGated
  BY DEF Init, DataInv, TableInv, ReadIsGated, NoResult
<1> QED BY <1>2, <1>3, <1>4 DEF FsInv

\* An operation that returns with the table and the disk as they were.
LEMMA ReturnInv ==
  ASSUME FsInv, NEW r, Return(r), UNCHANGED <<mft, disk, saves>>, ReadIsGated'
  PROVE  FsInv'
<1>1. /\ pc' = "idle" /\ entries' = <<>> /\ i' = 0
      /\ mft' = mft /\ disk' = disk /\ saves' = saves
  BY DEF Return
<1>2. TypeOK'
  BY <1>1 DEF FsInv, TypeOK
<1>3. ExtentsDisjoint' /\ UniqueNames'
  BY <1>1 DEF FsInv, ExtentsDisjoint, UniqueNames, Ordered, Distinct
<1>4. CommittedIntact'
  BY <1>1 DEF FsInv, CommittedIntact, Intact
<1>5. DataInv' /\ TableInv'
  BY <1>1 DEF FsInv, DataInv, TableInv
<1> QED BY <1>2, <1>3, <1>4, <1>5 DEF FsInv

\* A failure leaves nothing for the reader.
LEMMA FailureGated ==
  ASSUME NEW kind, Return(Failure(kind)) \/ Return(NoResult)
  PROVE  ReadIsGated'
BY DEF Return, Failure, NoResult, ReadIsGated

\* save_file starts with the table's own entries, behind the last extent.
LEMMA SaveFileInv ==
  ASSUME FsInv, NEW n \in Names, NEW count \in 0..MaxBlocks, SaveFile(n, count)
  PROVE  FsInv'
<1>1. CASE Return(Failure("save")) /\ UNCHANGED saves
  <2>1. UNCHANGED <<mft, disk, saves>>
    BY <1>1 DEF SaveFile
  <2> QED BY <1>1, <2>1, FailureGated, ReturnInv
<1>2. CASE /\ Matches(mft, n) = {}
           /\ op' = [kind |-> "save", name |-> n, count |-> count]
           /\ entries' = mft /\ i' = 0 /\ pc' = "data"
           /\ saves' = saves + 1 /\ UNCHANGED result
  <2>1. mft' = mft /\ disk' = disk /\ saves < MaxSaves
    BY DEF SaveFile
  <2>2. TypeOK'
    BY <1>2, <2>1, DiskAssumption DEF FsInv, TypeOK
  <2>3. ExtentsDisjoint' /\ UniqueNames'
    BY <2>1 DEF FsInv, ExtentsDisjoint, UniqueNames, Ordered, Distinct
  <2>4. CommittedIntact'
    BY <2>1 DEF FsInv, CommittedIntact, Intact
  <2>5. NextLba(mft) \in Nat /\ NextLba(mft) - 1 <= LastLba
    BY NextLbaFacts DEF FsInv, TypeOK, ExtentsDisjoint
  <2>6. DataInv'
    <3>1. op'.name = n /\ op'.count = count /\ 0..i' - 1 = {}
      BY <1>2
    <3>2. NextLba(mft)' = NextLba(mft) /\ Matches(mft, op.name)' = {}
      BY <1>2, <2>1, <3>1 DEF NextLba, Matches
    <3>3. NextLba(mft) + 0 - 1 <= LastLba /\ 0 <= count
      BY <2>5
    <3> QED BY <1>2, <2>1, <3>1, <3>2, <3>3 DEF DataInv
  <2>7. TableInv' /\ ReadIsGated'
    BY <1>2, <2>1 DEF FsInv, TableInv, ReadIsGated
  <2> QED BY <2>2, <2>3, <2>4, <2>6, <2>7 DEF FsInv
<1> QED BY <1>1, <1>2 DEF SaveFile

\* A block behind the extents of the table changes no file.
LEMMA ChunkWritten ==
  ASSUME FsInv, pc = "data", i < op.count, ChunkLba <= LastLba,
         NEW policy \in Policies \cup {NoPolicy},
         disk' = [disk EXCEPT ![ChunkLba] = Chunk(policy)], UNCHANGED <<mft, saves>>
  PROVE  /\ disk' \in [Lbas -> BlockData]
         /\ CommittedIntact'
         /\ ChunkLba \in Lbas /\ i \in Nat /\ NextLba(mft) \in Nat
         /\ disk'[ChunkLba].tag = saves /\ disk'[ChunkLba].idx = i
         /\ \A l \in Lbas : l # ChunkLba => disk'[l] = disk[l]
<1>1. /\ mft \in Seq(Entries) /\ entries = mft /\ Ordered(mft) /\ Intact(mft)
      /\ disk \in [Lbas -> BlockData] /\ i \in Nat /\ saves \in 0..MaxSaves
  BY DEF FsInv, TypeOK, DataInv, ExtentsDisjoint, CommittedIntact
<1>2. /\ NextLba(mft) \in Nat /\ NextLba(mft) > 0
      /\ \A j \in 1..Len(mft) : mft[j].lba + mft[j].count <= NextLba(mft)
  BY <1>1, NextLbaFacts
<1>3. ChunkLba = NextLba(mft) + i
  BY <1>1 DEF ChunkLba
<1>4. ChunkLba \in Lbas
  BY <1>1, <1>2, <1>3, DiskAssumption DEF Lbas
<1>5. Chunk(policy) \in BlockData /\ Chunk(policy).tag = saves /\ Chunk(policy).idx = i
  BY <1>1 DEF Chunk, BlockData, Tags
<1>6. /\ disk' \in [Lbas -> BlockData] /\ disk'[ChunkLba] = Chunk(policy)
      /\ \A l \in Lbas : l # ChunkLba => disk'[l] = disk[l]
  <2> HIDE DEF Chunk, ChunkLba
  <2> QED BY <1>1, <1>4, <1>5
<1>7. CommittedIntact'
  <2> SUFFICES ASSUME NEW j \in 1..Len(mft), NEW k \in 0..mft[j].count - 1
               PROVE  disk'[mft[j].lba + k].tag = mft[j].tag /\ disk'[mft[j].lba + k].idx = k
    BY DEF CommittedIntact, Intact
  <2>1. mft[j] \in Entries
    BY <1>1
  <2>2. mft[j].lba \in Nat /\ mft[j].count \in Nat
    BY <2>1 DEF Entries
  <2>3. /\ mft[j].lba > 0 /\ mft[j].lba + mft[j].count - 1 <= LastLba
        /\ mft[j].lba + mft[j].count <= NextLba(mft)
    BY <1>1, <1>2 DEF Ordered
  <2>4. mft[j].lba + k \in Lbas /\ mft[j].lba + k # ChunkLba
    <3>1. i \in Nat /\ NextLba(mft) \in Nat /\ LastLba \in Nat
      BY <1>1, <1>2, DiskAssumption
    <3>2. mft[j].lba + k >= 1 /\ mft[j].lba + k <= LastLba /\ mft[j].lba + k \in Nat
      BY <2>2, <2>3, <3>1
    <3>3. mft[j].lba + k < NextLba(mft) + i
      BY <2>2, <2>3, <3>1
    <3> QED BY <1>3, <3>1, <3>2, <3>3 DEF Lbas
  <2>5. disk'[mft[j].lba + k] = disk[mft[j].lba + k]
    BY <1>6, <2>4
  <2> QED BY <1>1, <2>5 DEF Intact
<1> QED BY <1>1, <1>2, <1>4, <1>5, <1>6, <1>7

\* A round of save_file's loop: the block written, or the save given up.
LEMMA WriteDataInv ==
  ASSUME FsInv, NEW policy \in Policies \cup {NoPolicy}, WriteData(policy)
  PROVE  FsInv'
<1>0. pc = "data" /\ i < op.count /\ mft' = mft /\ saves' = saves
  BY DEF WriteData
<1>1. ExtentsDisjoint' /\ UniqueNames'
  BY <1>0 DEF FsInv, ExtentsDisjoint, UniqueNames, Ordered, Distinct
<1>2. CASE /\ ChunkLba <= LastLba
           /\ disk' = [disk EXCEPT ![ChunkLba] = Chunk(policy)]
           /\ i' = i + 1
           /\ UNCHANGED <<pc, op, entries, result>>
  <2>1. /\ disk' \in [Lbas -> BlockData]
        /\ CommittedIntact'
        /\ ChunkLba \in Lbas /\ i \in Nat /\ NextLba(mft) \in Nat
        /\ disk'[ChunkLba].tag = saves /\ disk'[ChunkLba].idx = i
        /\ \A l \in Lbas : l # ChunkLba => disk'[l] = disk[l]
    BY <1>0, <1>2, ChunkWritten
  <2>2. TypeOK'
    BY <1>0, <1>2, <2>1 DEF FsInv, TypeOK
  <2>3. /\ entries = mft /\ Matches(mft, op.name) = {} /\ op.count \in Nat
        /\ \A k \in 0..i - 1 :
              disk[NextLba(mft) + k].tag = saves /\ disk[NextLba(mft) + k].idx = k
    BY <1>0 DEF FsInv, DataInv, TypeOK
  <2>4. ChunkLba = NextLba(mft) + i
    BY <2>3 DEF ChunkLba
  <2>5. NextLba(mft)' = NextLba(mft) /\ Matches(mft, op.name)' = {}
    BY <1>0, <1>2, <2>3 DEF NextLba, Matches
  <2>6. ASSUME NEW k \in 0..i' - 1
        PROVE  disk'[NextLba(mft) + k].tag = saves /\ disk'[NextLba(mft) + k].idx = k
    <3>1. CASE k = i
      BY <2>1, <2>4, <3>1
    <3>2. CASE k # i
      <4>1. k \in 0..i - 1
        BY <1>2, <2>1, <3>2
      <4>2. NextLba(mft) + k \in Lbas /\ NextLba(mft) + k # ChunkLba
        <5>1. NextLba(mft) > 0
          BY NextLbaFacts DEF FsInv, TypeOK, ExtentsDisjoint
        <5> QED BY <1>2, <2>1, <2>4, <4>1, <5>1, DiskAssumption DEF Lbas
      <4> QED BY <2>1, <2>3, <4>1, <4>2
    <3> QED BY <3>1, <3>2
  <2>7. i' <= op.count /\ NextLba(mft) + i' - 1 <= LastLba
    BY <1>0, <1>2, <2>1, <2>3, <2>4, DiskAssumption
  <2>8. DataInv'
    BY <1>0, <1>2, <2>3, <2>5, <2>6, <2>7 DEF DataInv
  <2>9. TableInv' /\ ReadIsGated'
    BY <1>0, <1>2 DEF FsInv, TableInv, ReadIsGated
  <2> QED BY <1>1, <2>1, <2>2, <2>8, <2>9 DEF FsInv
<1>3. CASE /\ Return(Failure("save"))
           /\ \/ disk' = disk
              \/ ChunkLba <= LastLba /\ disk' = [disk EXCEPT ![ChunkLba] = Chunk(policy)]
  <2>1. ReadIsGated'
    BY <1>3, FailureGated
  <2>2. CASE disk' = disk
    BY <1>0, <1>3, <2>1, <2>2, ReturnInv
  <2>3. CASE ChunkLba <= LastLba /\ disk' = [disk EXCEPT ![ChunkLba] = Chunk(policy)]
    <3>1. disk' \in [Lbas -> BlockData] /\ CommittedIntact'
      BY <1>0, <2>3, ChunkWritten
    <3>2. pc' = "idle" /\ entries' = <<>> /\ i' = 0
      BY <1>3 DEF Return
    <3>3. TypeOK'
      BY <1>0, <3>1, <3>2 DEF FsInv, TypeOK
    <3>4. DataInv' /\ TableInv'
      BY <3>2 DEF DataInv, TableInv
    <3> QED BY <1>1, <2>1, <3>1, <3>3, <3>4 DEF FsInv
  <2> QED BY <1>3, <2>2, <2>3
<1> QED BY <1>2, <1>3 DEF WriteData

\* The new entry describes just the blocks that were written.
LEMMA PushEntryInv ==
  ASSUME FsInv, PushEntry
  PROVE  FsInv'
<1> DEFINE e == [name |-> op.name, lba |-> NextLba(entries), count |-> op.count, tag |-> saves]
<1>0. /\ pc = "data" /\ i = op.count /\ entries' = Append(entries, e) /\ pc' = "table"
      /\ UNCHANGED <<mft, disk, op, i, saves, result>>
  BY DEF PushEntry
<1>1. /\ mft \in Seq(Entries) /\ entries = mft /\ Ordered(mft) /\ Intact(mft) /\ Distinct(mft)
      /\ i \in Nat /\ saves \in Tags /\ op.kind = "save" /\ op.name \in Names
      /\ Matches(mft, op.name) = {} /\ NextLba(mft) + i - 1 <= LastLba
      /\ \A k \in 0..i - 1 :
            disk[NextLba(mft) + k].tag = saves /\ disk[NextLba(mft) + k].idx = k
  BY <1>0 DEF FsInv, TypeOK, DataInv, ExtentsDisjoint, CommittedIntact, UniqueNames, Tags
<1>2. /\ e \in Entries /\ e.name = op.name /\ e.lba = NextLba(mft) /\ e.count = i
      /\ e.tag = saves
  <2>1. NextLba(mft) \in Nat
    BY <1>1, NextLbaFacts
  <2> QED BY <1>0, <1>1, <2>1 DEF Entries
<1> HIDE DEF e
<1>3. /\ e.lba + e.count - 1 <= LastLba /\ Matches(mft, e.name) = {}
      /\ \A k \in 0..e.count - 1 : disk[e.lba + k].tag = e.tag /\ disk[e.lba + k].idx = k
  BY <1>1, <1>2
<1>4. /\ Append(mft, e) \in Seq(Entries)
      /\ Ordered(Append(mft, e)) /\ Intact(Append(mft, e)) /\ Distinct(Append(mft, e))
      /\ \A j \in 1..Len(mft) : Has(Append(mft, e), mft[j])
  BY <1>1, <1>2, <1>3, AppendGood
<1>5. entries' = Append(mft, e)
  BY <1>0, <1>1
<1>6. TypeOK'
  BY <1>0, <1>4, <1>5 DEF FsInv, TypeOK
<1>7. ExtentsDisjoint' /\ UniqueNames' /\ CommittedIntact'
  BY <1>0, <1>1 DEF ExtentsDisjoint, UniqueNames, CommittedIntact, Intact
<1>8. TableInv'
  <2>1. Intact(entries)'
    BY <1>0, <1>4, <1>5 DEF Intact
  <2>2. \A j \in 1..Len(mft) : Has(entries', mft[j])
    BY <1>4, <1>5
  <2>3. Ordered(entries') /\ Distinct(entries')
    BY <1>4, <1>5
  <2> QED BY <1>0, <1>1, <2>1, <2>2, <2>3 DEF TableInv
<1>9. DataInv' /\ ReadIsGated'
  BY <1>0 DEF FsInv, DataInv, ReadIsGated
<1> QED BY <1>6, <1>7, <1>8, <1>9 DEF FsInv

\* The table on the disk becomes the copy, or what of it fits.
LEMMA WriteMftInv ==
  ASSUME FsInv, WriteMft
  PROVE  FsInv'
<1>0. pc = "table" /\ disk' = disk /\ saves' = saves
  BY DEF WriteMft
<1>1. /\ entries \in Seq(Entries) /\ op.kind \in {"save", "delete", "rename"}
      /\ Ordered(entries) /\ Intact(entries) /\ Distinct(entries)
  BY <1>0 DEF FsInv, TypeOK, TableInv
<1>2. PICK r : Return(r)
  BY DEF WriteMft
<1>3. ReadIsGated'
  <2>1. CASE Return([kind |-> op.kind, ok |-> TRUE, name |-> op.name])
    BY <1>1, <2>1 DEF Return, ReadIsGated
  <2>2. CASE Return(Failure(op.kind))
    BY <2>2, FailureGated
  <2> QED BY <2>1, <2>2 DEF WriteMft
<1>4. CASE mft' = mft
  BY <1>0, <1>2, <1>3, <1>4, ReturnInv
<1>5. CASE mft' = Stored(entries)
  <2>1. Stored(entries) \in Seq(Entries)
    BY <1>1, StoredFacts
  <2>2. Ordered(Stored(entries)) /\ Intact(Stored(entries)) /\ Distinct(Stored(entries))
    BY <1>1, StoredGood
  <2>3. pc' = "idle" /\ entries' = <<>> /\ i' = 0
    BY <1>2 DEF Return
  <2>4. TypeOK'
    BY <1>0, <1>5, <2>1, <2>3 DEF FsInv, TypeOK
  <2>5. ExtentsDisjoint' /\ UniqueNames' /\ CommittedIntact'
    BY <1>0, <1>5, <2>2 DEF ExtentsDisjoint, UniqueNames, CommittedIntact, Intact
  <2>6. DataInv' /\ TableInv'
    BY <1>0, <2>3 DEF FsInv, DataInv, TableInv
  <2> QED BY <1>3, <2>4, <2>5, <2>6 DEF FsInv
<1> QED BY <1>4, <1>5 DEF WriteMft

\* An operation that goes on to write the table with a good copy of it.
LEMMA CopyInv ==
  ASSUME FsInv, pc' = "table", UNCHANGED <<mft, disk, i, saves, result>>,
         op'.kind \in {"delete", "rename"}, entries' \in Seq(Entries),
         Ordered(entries'), Intact(entries)', Distinct(entries'),
         \A j \in 1..Len(mft) : Has(entries', mft[j]) \/ MayChange(mft[j])'
  PROVE  FsInv'
<1>1. TypeOK'
  BY DEF FsInv, TypeOK
<1>2. ExtentsDisjoint' /\ UniqueNames' /\ CommittedIntact'
  BY DEF FsInv, ExtentsDisjoint, UniqueNames, CommittedIntact, Intact
<1>3. TableInv'
  BY DEF TableInv
<1>4. DataInv' /\ ReadIsGated'
  BY DEF FsInv, DataInv, ReadIsGated
<1> QED BY <1>1, <1>2, <1>3, <1>4 DEF FsInv

\* delete_file takes one entry out of its copy.
LEMMA DeleteFileInv ==
  ASSUME FsInv, NEW n \in Names, NEW ctx \in Contexts, DeleteFile(n, ctx)
  PROVE  FsInv'
<1>0. UNCHANGED <<mft, disk, saves>>
  BY DEF DeleteFile
<1>1. CASE Return(Failure("delete"))
  BY <1>0, <1>1, FailureGated, ReturnInv
<1>2. CASE ~Return(Failure("delete"))
  <2>1. PICK k \in Matches(mft, n) :
            /\ VerifyMdoAccess(mft[k].lba, ctx)
            /\ entries' = Without(mft, k)
            /\ op' = [kind |-> "delete", name |-> n, ctx |-> ctx]
            /\ pc' = "table" /\ UNCHANGED <<i, result>>
    BY <1>2 DEF DeleteFile
  <2>2. k \in 1..Len(mft) /\ mft[k].name = n
    BY DEF Matches
  <2>3. mft \in Seq(Entries) /\ Ordered(mft) /\ Intact(mft) /\ Distinct(mft)
    BY DEF FsInv, TypeOK, ExtentsDisjoint, CommittedIntact, UniqueNames
  <2>4. /\ entries' \in Seq(Entries)
        /\ Ordered(entries') /\ Intact(Without(mft, k)) /\ Distinct(entries')
        /\ \A j \in 1..Len(mft) : j # k => Has(entries', mft[j])
    BY <2>1, <2>2, <2>3, WithoutGood
  <2>5. Intact(entries)'
    BY <1>0, <2>1, <2>4 DEF Intact
  <2>6. MayChange(mft[k])'
    BY <1>0, <2>1, <2>2 DEF MayChange, VerifyMdoAccess
  <2>7. op'.kind = "delete"
    BY <2>1
  <2>8. ASSUME NEW j \in 1..Len(mft) PROVE Has(entries', mft[j]) \/ MayChange(mft[j])'
    <3>1. CASE j = k
      BY <2>6, <3>1
    <3>2. CASE j # k
      BY <2>4, <3>2
    <3> QED BY <3>1, <3>2
  <2> QED BY <1>0, <2>1, <2>4, <2>5, <2>7, <2>8, CopyInv
<1> QED BY <1>1, <1>2

\* rename_file gives one entry of its copy a name that is free.
LEMMA RenameFileInv ==
  ASSUME FsInv, NEW n \in Names, NEW to \in Names, NEW ctx \in Contexts,
         RenameFile(n, to, ctx)
  PROVE  FsInv'
<1>0. UNCHANGED <<mft, disk, saves>>
  BY DEF RenameFile
<1>1. CASE Return(Failure("rename"))
  BY <1>0, <1>1, FailureGated, ReturnInv
<1>2. CASE ~Return(Failure("rename"))
  <2>1. PICK k \in Matches(mft, n) :
            /\ TargetFree(to)
            /\ VerifyMdoAccess(mft[k].lba, ctx)
            /\ entries' = [mft EXCEPT ![k].name = to]
            /\ op' = [kind |-> "rename", name |-> n, ctx |-> ctx]
            /\ pc' = "table" /\ UNCHANGED <<i, result>>
    BY <1>2 DEF RenameFile
  <2>2. k \in 1..Len(mft) /\ mft[k].name = n /\ Matches(mft, to) = {}
    BY <2>1 DEF Matches, TargetFree
  <2>3. mft \in Seq(Entries) /\ Ordered(mft) /\ Intact(mft) /\ Distinct(mft)
    BY DEF FsInv, TypeOK, ExtentsDisjoint, CommittedIntact, UniqueNames
  <2> DEFINE t == [mft EXCEPT ![k].name = to]
  <2>4. /\ t \in Seq(Entries) /\ Ordered(t) /\ Intact(t) /\ Distinct(t)
        /\ \A j \in 1..Len(mft) : j # k => Has(t, mft[j])
    BY <2>2, <2>3, RenameGood
  <2>5. entries' = t
    BY <2>1
  <2> HIDE DEF t
  <2>6. Intact(entries)'
    BY <1>0, <2>4, <2>5 DEF Intact
  <2>7. MayChange(mft[k])'
    BY <1>0, <2>1, <2>2 DEF MayChange, VerifyMdoAccess
  <2>8. op'.kind = "rename"
    BY <2>1
  <2>9. ASSUME NEW j \in 1..Len(mft) PROVE Has(entries', mft[j]) \/ MayChange(mft[j])'
    <3>1. CASE j = k
      BY <2>7, <3>1
    <3>2. CASE j # k
      BY <2>4, <2>5, <3>2
    <3> QED BY <3>1, <3>2
  <2> QED BY <1>0, <2>1, <2>4, <2>5, <2>6, <2>8, <2>9, CopyInv
<1> QED BY <1>1, <1>2

\* What read_file returns are the blocks of one entry, under a header.
LEMMA ReadFileInv ==
  ASSUME FsInv, NEW n \in Names, NEW ctx \in Contexts, ReadFile(n, ctx)
  PROVE  FsInv'
<1>0. UNCHANGED <<mft, disk, saves>>
  BY DEF ReadFile
<1>1. CASE Return(Failure("read"))
  BY <1>0, <1>1, FailureGated, ReturnInv
<1>2. CASE ~Return(Failure("read"))
  <2>1. PICK k \in Folded(mft, n) :
            /\ VerifyMdoAccess(mft[k].lba, ctx)
            /\ Return([kind |-> "read", ok |-> TRUE, ctx |-> ctx,
                       entry |-> mft[k], data |-> Fetched(mft[k])])
    BY <1>2 DEF ReadFile
  <2>2. k \in 1..Len(mft) /\ mft \in Seq(Entries)
    BY DEF Folded, FsInv, TypeOK
  <2>3. mft[k] \in Entries
    BY <2>2
  <2> DEFINE l == mft[k].lba
             c == mft[k].count
             data == Fetched(mft[k])
  <2>4. l \in Nat /\ c \in Nat /\ l > 0 /\ l <= LastLba
    BY <2>1, <2>2, <2>3 DEF Entries, FsInv, ExtentsDisjoint, Ordered, VerifyMdoAccess
  <2>5. disk[l].policy # NoPolicy /\ ctx \in disk[l].policy
    BY <2>1 DEF VerifyMdoAccess
  <2>7. \A j \in 0..c - 1 : disk[l + j].tag = mft[k].tag /\ disk[l + j].idx = j
    BY <2>2 DEF FsInv, CommittedIntact, Intact
  <2>8. data = [j \in 1..(IF c = 0 THEN 1 ELSE c) |-> disk[l + j - 1]]
    BY DEF Fetched
  <2> HIDE DEF l, c, data
  <2>9. 1 \in DOMAIN data /\ data[1] = disk[l]
    <3>1. 1 \in 1..(IF c = 0 THEN 1 ELSE c) /\ l + 1 - 1 = l
      BY <2>4
    <3> QED BY <2>8, <3>1
  <2>10. ASSUME c > 0, NEW j \in DOMAIN data
         PROVE  data[j].tag = mft[k].tag /\ data[j].idx = j - 1
    <3>1. j \in 1..c /\ data[j] = disk[l + j - 1]
      BY <2>8, <2>10
    <3>2. j - 1 \in 0..c - 1 /\ l + j - 1 = l + (j - 1)
      BY <2>4, <3>1
    <3> QED BY <2>7, <3>1, <3>2
  <2>11. result'.data = data /\ result'.ctx = ctx /\ result'.entry = mft[k]
    BY <2>1 DEF Return, data
  <2>12. ReadIsGated'
    BY <2>5, <2>9, <2>10, <2>11 DEF ReadIsGated, c
  <2> QED BY <1>0, <2>1, <2>12, ReturnInv
<1> QED BY <1>1, <1>2

\* Nothing happens.
LEMMA StutterInv ==
  ASSUME FsInv, UNCHANGED vars
  PROVE  FsInv'
<1>1. TypeOK'
  BY DEF vars, FsInv, TypeOK
<1>2. ExtentsDisjoint' /\ UniqueNames'
  BY DEF vars, FsInv, ExtentsDisjoint, UniqueNames, Ordered, Distinct
<1>3. CommittedIntact'
  BY DEF vars, FsInv, CommittedIntact, Intact
<1>4. DataInv'
  BY DEF vars, FsInv, DataInv, NextLba, Matches
<1>5. TableInv'
  BY DEF vars, FsInv, TableInv, Ordered, Intact, Distinct, Has, MayChange
<1>6. ReadIsGated'
  BY DEF vars, FsInv, ReadIsGated
<1> QED BY <1>1, <1>2, <1>3, <1>4, <1>5, <1>6 DEF FsInv

-----------------------------------------------------------------------------
(* Theorems.                                                               *)

\* The inductive invariant: in every reachable state the table on the disk is
\* a good one, and so is the copy an operation is about to write.
THEOREM FsInvariant == Spec => []FsInv
<1>1. Init => FsInv
  BY InitInv
<1>2. FsInv /\ [Next]_vars => FsInv'
  <2> SUFFICES ASSUME FsInv, [Next]_vars PROVE FsInv'
    OBVIOUS
  <2>1. CASE \E n \in Names, count \in 0..MaxBlocks : SaveFile(n, count)
    BY <2>1, SaveFileInv
  <2>2. CASE \E policy \in Policies \cup {NoPolicy} : WriteData(policy)
    BY <2>2, WriteDataInv
  <2>3. CASE PushEntry
    BY <2>3, PushEntryInv
  <2>4. CASE WriteMft
    BY <2>4, WriteMftInv
  <2>5. CASE Crash
    <3>1. Return(NoResult) /\ UNCHANGED <<mft, disk, saves>>
      BY <2>5 DEF Crash
    <3> QED BY <3>1, FailureGated, ReturnInv
  <2>6. CASE \E n \in Names, ctx \in Contexts : DeleteFile(n, ctx) \/ ReadFile(n, ctx)
    BY <2>6, DeleteFileInv, ReadFileInv
  <2>7. CASE \E n, to \in Names, ctx \in Contexts : RenameFile(n, to, ctx)
    BY <2>7, RenameFileInv
  <2>8. CASE UNCHANGED vars
    BY <2>8, StutterInv
  <2> QED BY <2>1, <2>2, <2>3, <2>4, <2>5, <2>6, <2>7, <2>8 DEF Next
<1> QED BY <1>1, <1>2, PTL DEF Spec

\* The files, the table and the operation under way keep their types.
THEOREM FsTypes == Spec => []TypeOK
<1>1. FsInv => TypeOK
  BY DEF FsInv
<1> QED BY <1>1, FsInvariant, PTL

\* No two files of the table share a block, for disks of every size and tables
\* of every length, whatever fails and wherever power is lost.
THEOREM FilesDisjoint == Spec => []ExtentsDisjoint
<1>1. FsInv => ExtentsDisjoint
  BY DEF FsInv
<1> QED BY <1>1, FsInvariant, PTL

\* Every block the table counts to a file is the one its save_file wrote there.
THEOREM FilesIntact == Spec => []CommittedIntact
<1>1. FsInv => CommittedIntact
  BY DEF FsInv
<1> QED BY <1>1, FsInvariant, PTL

\* A name is in the table at most once.
THEOREM NamesUnique == Spec => []UniqueNames
<1>1. FsInv => UniqueNames
  BY DEF FsInv
<1> QED BY <1>1, FsInvariant, PTL

\* read_file returns what the save_file of the entry it found wrote, or one
\* block for an entry of no blocks, under a header that accepts the reader.
THEOREM ReadsAreGated == Spec => []ReadIsGated
<1>1. FsInv => ReadIsGated
  BY DEF FsInv
<1> QED BY <1>1, FsInvariant, PTL

\* While the text of the table fits its block, an entry goes only by an
\* operation on its own name that passes its gate.
THEOREM EntriesLeaveByRight == Spec => EntryLeavesByRight
<1>1. ASSUME FsInv, [Next]_vars, Fits(entries), NEW j \in 1..Len(mft)
      PROVE  Has(mft', mft[j]) \/ MayChange(mft[j])
  <2>1. CASE mft' = mft
    BY <2>1 DEF Has
  <2>2. CASE pc = "table" /\ mft' = Stored(entries)
    <3>1. Stored(entries) = entries
      BY <1>1, StoredWhole DEF FsInv, TypeOK
    <3> QED BY <1>1, <2>2, <3>1 DEF FsInv, TableInv
  <2>3. mft' = mft \/ (pc = "table" /\ mft' = Stored(entries))
    BY <1>1 DEF Next, SaveFile, WriteData, PushEntry, WriteMft, Crash, DeleteFile, ReadFile,
                RenameFile, vars
  <2> QED BY <2>1, <2>2, <2>3
<1>2. FsInv /\ [Next]_vars
      => [Fits(entries) =>
            \A j \in 1..Len(mft) : Has(mft', mft[j]) \/ MayChange(mft[j])]_vars
  BY <1>1
<1> QED BY <1>2, FsInvariant, PTL DEF Spec, EntryLeavesByRight
=============================================================================
