---------------------------- MODULE SetInduction ----------------------------
(***************************************************************************)
(* Induction for the proofs of the other modules.  The provers cannot use  *)
(* an induction rule whose parameter is a predicate; they can use one that *)
(* speaks of a set, and a predicate over the numbers is a set of numbers.  *)
(***************************************************************************)
EXTENDS Integers, WellFoundedInduction, TLAPS

\* A set of numbers that is not empty has a least one.
LEMMA Least ==
  ASSUME NEW S \in SUBSET Nat, S # {}
  PROVE  \E m \in S : \A n \in S : m <= n
<1> DEFINE R == OpToRel(<, Nat)
<1>1. \E x \in S : \A y \in S : ~(<<y, x>> \in R)
  <2> HIDE DEF R
  <2>1. IsWellFoundedOn(R, Nat)
    BY NatLessThanWellFounded DEF R
  <2> QED BY <2>1, WFMin
<1>2. \A x, y \in Nat : y < x => <<y, x>> \in R
  BY DEF OpToRel
<1> HIDE DEF R
<1>3. PICK x \in S : \A y \in S : ~(<<y, x>> \in R)
  BY <1>1
<1>4. ASSUME NEW y \in S PROVE x <= y
  <2>1. x \in Nat /\ y \in Nat /\ ~(y < x)
    BY <1>2, <1>3
  <2> QED BY <2>1
<1> QED BY <1>3, <1>4

\* A set of numbers that has 0 and the successor of each of its numbers has all.
LEMMA NatBySteps ==
  ASSUME NEW S, 0 \in S, \A n \in Nat : n \in S => n + 1 \in S
  PROVE  Nat \subseteq S
<1> DEFINE Bad == Nat \ S
<1>1. Bad \in SUBSET Nat /\ \A n \in Nat : n \in Bad <=> n \notin S
  OBVIOUS
<1> HIDE DEF Bad
<1> SUFFICES ASSUME Bad # {} PROVE FALSE
  BY <1>1
<1>2. PICK m \in Bad : \A n \in Bad : m <= n
  BY <1>1, Least
<1>3. m \in Nat /\ m \notin S
  BY <1>1, <1>2
<1>4. m # 0
  BY <1>3
<1>5. m - 1 \in Nat /\ ~(m <= m - 1) /\ (m - 1) + 1 = m
  BY <1>3, <1>4
<1>6. m - 1 \in S
  BY <1>1, <1>2, <1>5
<1> QED BY <1>3, <1>5, <1>6

\* The same up to a bound.
LEMMA UpToBySteps ==
  ASSUME NEW S, NEW b \in Nat, 0 \in S, \A n \in 0..b - 1 : n \in S => n + 1 \in S
  PROVE  0..b \subseteq S
<1> DEFINE T == {n \in Nat : n <= b => n \in S}
<1>1. \A n \in Nat : n \in T <=> (n <= b => n \in S)
  OBVIOUS
<1> HIDE DEF T
<1>2. 0 \in T
  BY <1>1
<1>3. ASSUME NEW n \in Nat, n \in T PROVE n + 1 \in T
  <2>1. CASE n + 1 <= b
    <3>1. n <= b /\ n \in 0..b - 1 /\ n + 1 \in Nat
      BY <2>1
    <3> QED BY <1>1, <1>3, <3>1
  <2>2. CASE ~(n + 1 <= b)
    BY <1>1, <2>2
  <2> QED BY <2>1, <2>2
<1>4. Nat \subseteq T
  BY <1>2, <1>3, NatBySteps
<1>5. ASSUME NEW n \in 0..b PROVE n \in S
  <2>1. n \in Nat /\ n <= b
    OBVIOUS
  <2> QED BY <1>1, <1>4, <2>1
<1> QED BY <1>5

\* The steps of a recursion over the numbers, and what they define.  The names
\* keep the provers from taking the formulas apart before they match them.
StepsOn(V) == [Nat -> [V -> V]]
Defines(V, c, G) == \E f \in [Nat -> V] :
                       f[0] = c /\ \A n \in Nat : f[n + 1] = G[n + 1][f[n]]

\* What a recursion over the numbers defines exists.
LEMMA Recursion ==
  ASSUME NEW V, NEW c \in V, NEW G \in StepsOn(V)
  PROVE  Defines(V, c, G)
<1> SUFFICES \E f \in [Nat -> V] :
                f[0] = c /\ \A n \in Nat : f[n + 1] = G[n + 1][f[n]]
  BY DEF Defines
<1>g. G \in [Nat -> [V -> V]]
  BY DEF StepsOn
<1> DEFINE Upto(n, g) == /\ g \in [0..n -> V] /\ g[0] = c
                         /\ \A j \in 0..n - 1 : g[j + 1] = G[j + 1][g[j]]
           Bad == {n \in Nat : ~\E g : Upto(n, g)}
<1>u. \A n, g : Upto(n, g) <=> /\ g \in [0..n -> V] /\ g[0] = c
                               /\ \A j \in 0..n - 1 : g[j + 1] = G[j + 1][g[j]]
  OBVIOUS
<1>b. Bad \in SUBSET Nat /\ \A n \in Nat : n \in Bad <=> ~\E g : Upto(n, g)
  OBVIOUS
<1> HIDE DEF Upto, Bad
<1>1. \A n \in Nat : \E g : Upto(n, g)
  <2> SUFFICES ASSUME Bad # {} PROVE FALSE
    BY <1>b
  <2>1. PICK m \in Bad : \A n \in Bad : m <= n
    BY <1>b, Least
  <2>2. m \in Nat /\ m # 0
    <3>1. Upto(0, [j \in 0..0 |-> c])
      <4>1. 0 \in 0..0 /\ 0..0 - 1 = {}
        OBVIOUS
      <4>2. [j \in 0..0 |-> c] \in [0..0 -> V] /\ [j \in 0..0 |-> c][0] = c
        BY <4>1
      <4> QED BY <1>u, <4>1, <4>2
    <3> QED BY <1>b, <2>1, <3>1
  <2>3. PICK g : Upto(m - 1, g)
    <3>1. m - 1 \in Nat /\ ~(m <= m - 1)
      BY <2>2
    <3>2. m - 1 \notin Bad
      BY <2>1, <3>1
    <3> QED BY <1>b, <3>1, <3>2
  <2>4. /\ g \in [0..m - 1 -> V] /\ g[0] = c
        /\ \A j \in 0..(m - 1) - 1 : g[j + 1] = G[j + 1][g[j]]
    BY <1>u, <2>3
  <2>5. G[m][g[m - 1]] \in V
    <3>1. g[m - 1] \in V
      BY <2>2, <2>4
    <3> QED BY <1>g, <2>2, <3>1
  <2> DEFINE h == [j \in 0..m |-> IF j < m THEN g[j] ELSE G[m][g[m - 1]]]
  <2>6. h \in [0..m -> V] /\ h[0] = c
    <3>1. ASSUME NEW j \in 0..m PROVE (IF j < m THEN g[j] ELSE G[m][g[m - 1]]) \in V
      <4>1. j < m => j \in 0..m - 1
        BY <2>2
      <4> QED BY <2>4, <2>5, <4>1
    <3>2. 0 \in 0..m /\ 0 < m
      BY <2>2
    <3> QED BY <2>4, <3>1, <3>2
  <2>7. ASSUME NEW j \in 0..m - 1 PROVE h[j + 1] = G[j + 1][h[j]]
    <3>1. j \in 0..m /\ j + 1 \in 0..m /\ h[j] = g[j]
      BY <2>2
    <3>2. CASE j = m - 1
      <4>1. h[j + 1] = G[m][g[m - 1]] /\ j + 1 = m
        BY <2>2, <3>1, <3>2
      <4> HIDE DEF h
      <4> QED BY <3>1, <3>2, <4>1
    <3>3. CASE j # m - 1
      <4>1. j \in 0..(m - 1) - 1 /\ h[j + 1] = g[j + 1]
        BY <2>2, <3>1, <3>3
      <4> HIDE DEF h
      <4> QED BY <2>4, <3>1, <4>1
    <3> QED BY <3>2, <3>3
  <2> HIDE DEF h
  <2>8. Upto(m, h)
    BY <1>u, <2>6, <2>7
  <2> QED BY <1>b, <2>1, <2>2, <2>8
<1>2. ASSUME NEW n \in Nat, NEW g, NEW h, Upto(n, g), Upto(n + 1, h)
      PROVE  g[n] = h[n]
  <2> DEFINE Off == {j \in 0..n : g[j] # h[j]}
  <2>1. Off \subseteq 0..n /\ 0..n \subseteq Nat /\ n \in 0..n
    OBVIOUS
  <2>0. Off \in SUBSET Nat /\ \A j \in 0..n : j \in Off <=> g[j] # h[j]
    BY <2>1
  <2> HIDE DEF Off
  <2> SUFFICES ASSUME Off # {} PROVE FALSE
    BY <2>0, <2>1
  <2>2. PICK m \in Off : \A j \in Off : m <= j
    BY <2>0, Least
  <2>3. m \in 0..n /\ m # 0
    BY <1>2, <1>u, <2>0, <2>1
  <2>4. m - 1 \in 0..n /\ m - 1 \in 0..n - 1 /\ m - 1 \in 0..(n + 1) - 1 /\ ~(m <= m - 1)
    BY <2>3
  <2>5. g[m - 1] = h[m - 1]
    BY <2>0, <2>2, <2>4
  <2>6. /\ g[(m - 1) + 1] = G[(m - 1) + 1][g[m - 1]]
        /\ h[(m - 1) + 1] = G[(m - 1) + 1][h[m - 1]]
    BY <1>2, <1>u, <2>4
  <2>7. (m - 1) + 1 = m
    BY <2>3
  <2>8. g[m] = h[m]
    BY <2>5, <2>6, <2>7
  <2> QED BY <2>0, <2>3, <2>8
<1> DEFINE best == [n \in Nat |-> CHOOSE g : Upto(n, g)]
           f == [n \in Nat |-> best[n][n]]
<1>3. \A n \in Nat : Upto(n, best[n])
  BY <1>1
<1>4. \A n \in Nat : f[n] = best[n][n]
  OBVIOUS
<1> HIDE DEF best
<1>5. \A n \in Nat : best[n][n] \in V
  <2> TAKE n \in Nat
  <2>1. best[n] \in [0..n -> V]
    BY <1>3, <1>u
  <2>2. n \in 0..n
    OBVIOUS
  <2> QED BY <2>1, <2>2
<1>6. f \in [Nat -> V]
  BY <1>5
<1> HIDE DEF f
<1>7. f[0] = c
  BY <1>3, <1>4, <1>u
<1>8. ASSUME NEW n \in Nat PROVE f[n + 1] = G[n + 1][f[n]]
  <2>1. Upto(n, best[n]) /\ Upto(n + 1, best[n + 1])
    BY <1>3
  <2>2. best[n][n] = best[n + 1][n]
    BY <1>2, <2>1
  <2>3. n \in 0..(n + 1) - 1 /\ n + 1 \in Nat
    OBVIOUS
  <2>4. best[n + 1][n + 1] = G[n + 1][best[n + 1][n]]
    BY <1>u, <2>1, <2>3
  <2> QED BY <1>4, <2>2, <2>3, <2>4
<1> QED BY <1>6, <1>7, <1>8

\* The same for a recursion that counts.
LEMMA NatRecursion ==
  ASSUME NEW c \in Nat, NEW G \in [Nat -> [Nat -> Nat]]
  PROVE  \E f \in [Nat -> Nat] :
            f[0] = c /\ \A n \in Nat : f[n + 1] = G[n + 1][f[n]]
<1>1. G \in StepsOn(Nat)
  BY DEF StepsOn
<1>2. Defines(Nat, c, G)
  BY <1>1, Recursion
<1> QED BY <1>2 DEF Defines
=============================================================================
