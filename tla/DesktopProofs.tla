--------------------------- MODULE DesktopProofs ----------------------------
(***************************************************************************)
(* Theorems about Desktop, for every screen, depth, queue, number of       *)
(* windows and of mouse reports.                                           *)
(***************************************************************************)
EXTENDS Desktop, SetInduction, SequenceTheorems, TLAPS

Window == [id : 1..MaxWindows, ahead : 0..Frames, z : 0..Depth,
           target : {0, Depth}, mode : {"instantiated", "maximized", "dead"}]

\* The windows have different numbers below n.
Numbered(ws, n) ==
    /\ \A i \in 1..Len(ws) : ws[i].id < n
    /\ \A i, k \in 1..Len(ws) : ws[i].id = ws[k].id => i = k

\* Every window but the last is on its way to the depth.
OthersSink(ws) == \A i \in 1..Len(ws) - 1 : ws[i].target = Depth

WindowsSound ==
    /\ windows \in Seq(Window) /\ instance_counter \in 1..MaxWindows + 1
    /\ Numbered(windows, instance_counter) /\ OthersSink(windows)
    /\ dragging \in BOOLEAN

LEMMA Bounds == /\ QueueSize \in Nat /\ MaxPos \in Nat /\ Depth \in Nat /\ Frames \in Nat
                /\ MaxReports \in Nat /\ MaxWindows \in Nat
BY DesktopBounds
-----------------------------------------------------------------------------
(* What retain leaves: a part of the windows, in their order.              *)

\* e tells for each window of r which one of ws it was.
Selects(e, r, ws) ==
    /\ e \in [1..Len(r) -> 1..Len(ws)]
    /\ \A j \in 1..Len(r) : r[j] = ws[e[j]]
    /\ \A j, k \in 1..Len(r) : j < k => e[j] < e[k]

LEMMA RetainSteps ==
    ASSUME NEW W, NEW ws \in Seq(W)
    PROVE  \E f \in [Nat -> Seq(W)] :
              /\ Retain(ws) = f[Len(ws)] /\ f[0] = <<>>
              /\ \A k \in 0..Len(ws) - 1 :
                    f[k + 1] = IF Gone(ws[k + 1]) THEN f[k] ELSE Append(f[k], ws[k + 1])
<1> DEFINE V == Seq(W)
           n == Len(ws)
           Drop(k) == k \notin 1..n \/ Gone(ws[k])
           G == [k \in Nat |-> [v \in V |-> IF Drop(k) THEN v ELSE Append(v, ws[k])]]
           IsKept(f) == f = [k \in 0..n |-> IF k = 0 THEN <<>>
                               ELSE IF Gone(ws[k]) THEN f[k - 1] ELSE Append(f[k - 1], ws[k])]
<1>1. n \in Nat /\ <<>> \in V
  OBVIOUS
<1>2. ASSUME NEW k \in Nat, NEW v \in V
      PROVE  (IF Drop(k) THEN v ELSE Append(v, ws[k])) \in V
  <2>1. CASE Drop(k)
    BY <2>1
  <2>2. CASE ~Drop(k)
    <3>1. k \in 1..n
      BY <2>2
    <3>2. ws[k] \in W
      BY <3>1
    <3> QED BY <2>2, <3>2
  <2> QED BY <2>1, <2>2
<1>3. G \in StepsOn(V)
  BY <1>2 DEF StepsOn
<1>4. \A k \in Nat, v \in V : G[k][v] = IF Drop(k) THEN v ELSE Append(v, ws[k])
  <2> HIDE DEF Drop, V
  <2> QED OBVIOUS
<1>5. \A k \in 1..n : Drop(k) <=> Gone(ws[k])
  OBVIOUS
<1>6. Retain(ws) = (CHOOSE f : IsKept(f))[n]
  BY Zenon DEF Retain
<1>7. Defines(V, <<>>, G)
  <2> HIDE DEF G, V
  <2> QED BY <1>1, <1>3, Recursion
<1>8. PICK f \in [Nat -> V] : f[0] = <<>> /\ \A k \in Nat : f[k + 1] = G[k + 1][f[k]]
  BY <1>7 DEF Defines
<1> HIDE DEF G, Drop
<1>9. ASSUME NEW k \in 0..n - 1
      PROVE  f[k + 1] = IF Gone(ws[k + 1]) THEN f[k] ELSE Append(f[k], ws[k + 1])
  <2>1. k \in Nat /\ k + 1 \in Nat /\ k + 1 \in 1..n /\ f[k] \in V
    BY <1>1
  <2>2. f[k + 1] = IF Drop(k + 1) THEN f[k] ELSE Append(f[k], ws[k + 1])
    BY <1>4, <1>8, <2>1
  <2> QED BY <1>5, <2>1, <2>2
<1> DEFINE kept == CHOOSE g : IsKept(g)
           mine == [k \in 0..n |-> f[k]]
<1>10. IsKept(mine)
  <2>1. ASSUME NEW k \in 0..n
        PROVE  mine[k] = IF k = 0 THEN <<>>
                         ELSE IF Gone(ws[k]) THEN mine[k - 1] ELSE Append(mine[k - 1], ws[k])
    <3>1. CASE k = 0
      BY <1>8, <3>1
    <3>2. CASE k # 0
      <4>1. k - 1 \in 0..n - 1 /\ (k - 1) + 1 = k /\ k - 1 \in 0..n
        BY <1>1, <3>2
      <4>2. f[k] = IF Gone(ws[k]) THEN f[k - 1] ELSE Append(f[k - 1], ws[k])
        BY <1>9, <4>1
      <4> QED BY <3>2, <4>1, <4>2
    <3> QED BY <3>1, <3>2
  <2> QED BY <2>1
<1>11. IsKept(kept)
  <2> HIDE DEF IsKept, mine
  <2> QED BY <1>10
<1> HIDE DEF kept, mine
<1>12. \A k \in 0..n : kept[k] = IF k = 0 THEN <<>>
                          ELSE IF Gone(ws[k]) THEN kept[k - 1] ELSE Append(kept[k - 1], ws[k])
  BY <1>11
<1> HIDE DEF IsKept
<1> DEFINE S == {k \in 0..n : kept[k] = f[k]}
<1>13. \A k \in 0..n : k \in S <=> kept[k] = f[k]
  OBVIOUS
<1> HIDE DEF S
<1>14. 0 \in S
  <2>1. 0 \in 0..n
    BY <1>1
  <2> QED BY <1>8, <1>12, <1>13, <2>1
<1>15. ASSUME NEW k \in 0..n - 1, k \in S PROVE k + 1 \in S
  <2>1. k \in 0..n /\ k + 1 \in 0..n /\ k + 1 # 0 /\ (k + 1) - 1 = k
    BY <1>1
  <2>2. kept[k + 1] = IF Gone(ws[k + 1]) THEN kept[k] ELSE Append(kept[k], ws[k + 1])
    BY <1>12, <2>1
  <2>3. kept[k] = f[k]
    BY <1>13, <1>15, <2>1
  <2> QED BY <1>9, <1>13, <2>1, <2>2, <2>3
<1>16. 0..n \subseteq S
  BY <1>1, <1>14, <1>15, UpToBySteps
<1>17. kept[n] = f[n]
  <2>1. n \in 0..n
    BY <1>1
  <2> QED BY <1>13, <1>16, <2>1
<1>18. Retain(ws) = f[n]
  BY <1>6, <1>17 DEF kept
<1> QED BY <1>8, <1>9, <1>18

LEMMA RetainSelects ==
    ASSUME NEW W, NEW ws \in Seq(W)
    PROVE  Retain(ws) \in Seq(W) /\ \E e : Selects(e, Retain(ws), ws)
<1> DEFINE n == Len(ws)
<1>1. PICK f \in [Nat -> Seq(W)] :
         /\ Retain(ws) = f[n] /\ f[0] = <<>>
         /\ \A k \in 0..n - 1 :
               f[k + 1] = IF Gone(ws[k + 1]) THEN f[k] ELSE Append(f[k], ws[k + 1])
  BY RetainSteps
<1>2. n \in Nat
  OBVIOUS
<1> DEFINE Reads(e, k) == /\ e \in [1..Len(f[k]) -> 1..k]
                          /\ \A j \in 1..Len(f[k]) : f[k][j] = ws[e[j]]
                          /\ \A i, j \in 1..Len(f[k]) : i < j => e[i] < e[j]
           S == {k \in 0..n : \E e : Reads(e, k)}
<1>3. \A k \in 0..n : k \in S <=> \E e : Reads(e, k)
  OBVIOUS
<1> HIDE DEF S
<1>4. 0 \in S
  <2>1. Len(f[0]) = 0 /\ 1..0 = {}
    BY <1>1
  <2>2. Reads([j \in 1..0 |-> 0], 0)
    BY <2>1
  <2>3. 0 \in 0..n
    BY <1>2
  <2> QED BY <1>3, <2>2, <2>3
<1>5. ASSUME NEW k \in 0..n - 1, k \in S PROVE k + 1 \in S
  <2>0. k \in Nat /\ k \in 0..n /\ k + 1 \in 0..n /\ k + 1 \in 1..n
    BY <1>2
  <2>1. k \in Nat /\ k \in 0..n /\ k + 1 \in 0..n /\ f[k] \in Seq(W) /\ ws[k + 1] \in W
    BY <2>0
  <2>2. PICK e : Reads(e, k)
    BY <1>3, <1>5, <2>1
  <2>3. CASE Gone(ws[k + 1])
    <3>1. f[k + 1] = f[k]
      BY <1>1, <2>3
    <3>2. Reads(e, k + 1)
      BY <2>1, <2>2, <3>1
    <3> QED BY <1>3, <2>1, <3>2
  <2>4. CASE ~Gone(ws[k + 1])
    <3> DEFINE m == Len(f[k])
               d == [j \in 1..m + 1 |-> IF j <= m THEN e[j] ELSE k + 1]
    <3>1. /\ f[k + 1] = Append(f[k], ws[k + 1]) /\ m \in Nat /\ Len(f[k + 1]) = m + 1
          /\ f[k + 1][m + 1] = ws[k + 1] /\ \A j \in 1..m : f[k + 1][j] = f[k][j]
      <4>1. f[k + 1] = Append(f[k], ws[k + 1])
        BY <1>1, <2>4
      <4>2. m \in Nat
        BY <2>1
      <4> QED BY <2>1, <4>1, <4>2
    <3>2. /\ e \in [1..m -> 1..k] /\ \A j \in 1..m : f[k][j] = ws[e[j]]
          /\ \A i, j \in 1..m : i < j => e[i] < e[j]
      BY <2>2
    <3>3. \A j \in 1..m + 1 : d[j] = IF j <= m THEN e[j] ELSE k + 1
      OBVIOUS
    <3> HIDE DEF m, n, Reads
    <3>0. m \in Nat /\ k \in Nat /\ m + 1 \in 1..m + 1
      BY <2>1, <3>1
    <3>4. d \in [1..m + 1 -> 1..k + 1]
      <4>1. ASSUME NEW j \in 1..m + 1 PROVE (IF j <= m THEN e[j] ELSE k + 1) \in 1..k + 1
        <5>1. j <= m => j \in 1..m
          BY <3>1
        <5>2. j <= m => e[j] \in 1..k
          BY <3>2, <5>1
        <5>3. CASE j <= m
          <6>1. e[j] \in 1..k /\ 1..k \subseteq 1..k + 1
            BY <3>0, <5>2, <5>3
          <6> QED BY <5>3, <6>1
        <5>4. CASE ~(j <= m)
          BY <3>0, <5>4
        <5> QED BY <5>3, <5>4
      <4> QED BY <4>1
    <3> HIDE DEF d
    <3>5. ASSUME NEW j \in 1..m + 1 PROVE f[k + 1][j] = ws[d[j]]
      <4>1. CASE j <= m
        <5>1. j \in 1..m
          BY <3>1, <4>1
        <5> QED BY <3>1, <3>2, <3>3, <4>1, <5>1
      <4>2. CASE j = m + 1
        <5>1. d[m + 1] = k + 1
          BY <3>0, <3>3
        <5> QED BY <3>1, <4>2, <5>1
      <4>3. j <= m \/ j = m + 1
        BY <3>0
      <4> QED BY <4>1, <4>2, <4>3
    <3>6. ASSUME NEW i \in 1..m + 1, NEW j \in 1..m + 1, i < j PROVE d[i] < d[j]
      <4>1. i \in 1..m /\ d[i] = e[i] /\ e[i] \in 1..k
        <5>1. i \in 1..m /\ i <= m
          BY <3>0, <3>6
        <5>2. d[i] = e[i]
          BY <3>3, <5>1
        <5> QED BY <3>2, <5>1, <5>2
      <4>2. CASE j <= m
        <5>1. j \in 1..m /\ d[j] = e[j]
          BY <3>0, <3>3, <4>2
        <5> QED BY <3>2, <3>6, <4>1, <5>1
      <4>3. CASE j = m + 1
        <5>1. d[j] = k + 1
          BY <3>0, <3>3, <4>3
        <5>2. \A x \in 1..k : x < k + 1
          BY <3>0
        <5> QED BY <4>1, <5>1, <5>2
      <4> QED BY <3>0, <4>2, <4>3
    <3>7. Reads(d, k + 1)
      BY <3>1, <3>4, <3>5, <3>6 DEF Reads
    <3> QED BY <1>3, <2>1, <3>7
  <2> QED BY <2>3, <2>4
<1>6. 0..n \subseteq S
  BY <1>2, <1>4, <1>5, UpToBySteps
<1>7. n \in 0..n
  BY <1>2
<1>8. PICK e : Reads(e, n)
  BY <1>3, <1>6, <1>7
<1>9. Selects(e, Retain(ws), ws)
  BY <1>1, <1>8 DEF Selects
<1>10. Retain(ws) \in Seq(W)
  BY <1>1, <1>2
<1> QED BY <1>9, <1>10
-----------------------------------------------------------------------------
(* One frame.                                                              *)

\* A step of the physics stays between where the window is and where it goes.
LEMMA StepBetween ==
    ASSUME NEW D \in Nat, NEW z \in 0..D, NEW t \in {0, D}
    PROVE  (IF Near(t - z) THEN t ELSE z + Quarter(t - z)) \in 0..D
<1>1. CASE t = 0
  <2>1. t - z = -z /\ -(t - z) = z
    BY <1>1
  <2>2. z \div 4 \in 0..z
    OBVIOUS
  <2>3. ~Near(t - z) => z > 0
    BY <2>1 DEF Near
  <2>4. z > 0 => Quarter(t - z) = -(z \div 4)
    BY <2>1 DEF Quarter
  <2> QED BY <1>1, <2>2, <2>3, <2>4
<1>2. CASE t = D
  <2>1. t - z \in Nat /\ (t - z) \div 4 \in 0..t - z
    BY <1>2
  <2>2. Quarter(t - z) = (t - z) \div 4
    BY <2>1 DEF Quarter
  <2> QED BY <1>2, <2>1, <2>2
<1> QED BY <1>1, <1>2

LEMMA Updated ==
    ASSUME NEW w \in Window, NEW t \in {0, Depth}
    PROVE  LET u == UpdatePhysics([w EXCEPT !.target = t])
           IN  u \in Window /\ u.id = w.id /\ u.target = t
<1> DEFINE v == [w EXCEPT !.target = t]
           z == IF Near(t - w.z) THEN t ELSE w.z + Quarter(t - w.z)
           a == IF Stable(v) THEN 0 ELSE v.ahead - 1
<1>1. Depth \in Nat /\ Frames \in Nat
  BY Bounds
<1>2. w.z \in 0..Depth /\ w.ahead \in 0..Frames /\ w.id \in 1..MaxWindows
  BY DEF Window
<1>3. v \in Window /\ v.target = t /\ v.z = w.z /\ v.ahead = w.ahead /\ v.id = w.id
  BY DEF Window
<1>4. z \in 0..Depth
  BY <1>1, <1>2, StepBetween
<1>5. a \in 0..Frames
  BY <1>1, <1>2, <1>3 DEF Stable
<1>6. UpdatePhysics(v) = [v EXCEPT !.z = z, !.ahead = a]
  BY <1>3 DEF UpdatePhysics
<1> HIDE DEF v, z, a
<1>7. [v EXCEPT !.z = z, !.ahead = a] \in Window
      /\ [v EXCEPT !.z = z, !.ahead = a].id = v.id
      /\ [v EXCEPT !.z = z, !.ahead = a].target = v.target
  BY <1>3, <1>4, <1>5 DEF Window
<1> QED BY <1>3, <1>6, <1>7 DEF v

\* A frame keeps the windows' numbers apart and sends all but the last down.
LEMMA TickSound ==
    ASSUME NEW ws \in Seq(Window), NEW n \in Int, Numbered(ws, n)
    PROVE  Tick(ws) \in Seq(Window) /\ Numbered(Tick(ws), n) /\ OthersSink(Tick(ws))
<1> DEFINE ms == [i \in 1..Len(ws) |-> UpdatePhysics([ws[i] EXCEPT !.target = Target(ws, i)])]
           r == Retain(ms)
<1>1. ASSUME NEW i \in 1..Len(ws)
      PROVE  ms[i] \in Window /\ ms[i].id = ws[i].id /\ ms[i].target = Target(ws, i)
  <2>1. Target(ws, i) \in {0, Depth} /\ ws[i] \in Window
    BY DEF Target
  <2> QED BY <2>1, Updated
<1>2. ms \in Seq(Window) /\ Len(ms) = Len(ws)
  <2>1. Len(ws) \in Nat
    OBVIOUS
  <2>2. \A i \in 1..Len(ws) : ms[i] \in Window
    BY <1>1
  <2> QED BY <2>1, <2>2
<1>3. Tick(ws) = r
  BY DEF Tick
<1> HIDE DEF ms
<1>4. r \in Seq(Window)
  BY <1>2, RetainSelects
<1>5. PICK e : Selects(e, r, ms)
  BY <1>2, RetainSelects
<1> HIDE DEF r
<1>6. /\ Len(r) \in Nat /\ Len(ws) \in Nat
      /\ \A j \in 1..Len(r) : e[j] \in 1..Len(ws) /\ r[j] = ms[e[j]]
      /\ \A j, k \in 1..Len(r) : j < k => e[j] < e[k]
  <2>1. Len(r) \in Nat /\ Len(ws) \in Nat
    BY <1>4
  <2>2. e \in [1..Len(r) -> 1..Len(ws)]
    BY <1>2, <1>5 DEF Selects
  <2>3. \A j \in 1..Len(r) : e[j] \in 1..Len(ws)
    BY <2>2
  <2>4. /\ \A j \in 1..Len(r) : r[j] = ms[e[j]]
        /\ \A j, k \in 1..Len(r) : j < k => e[j] < e[k]
    BY <1>5 DEF Selects
  <2> QED BY <2>1, <2>3, <2>4
<1>7. ASSUME NEW j \in 1..Len(r) PROVE r[j].id < n
  BY <1>1, <1>6 DEF Numbered
<1>8. ASSUME NEW j \in 1..Len(r), NEW k \in 1..Len(r), r[j].id = r[k].id PROVE j = k
  <2>1. e[j] = e[k]
    BY <1>1, <1>6, <1>8 DEF Numbered
  <2>2. ~(j < k) /\ ~(k < j)
    BY <1>6, <2>1
  <2> QED BY <1>6, <2>2
<1>9. ASSUME NEW j \in 1..Len(r) - 1 PROVE r[j].target = Depth
  <2>1. j \in 1..Len(r) /\ Len(r) \in 1..Len(r) /\ j < Len(r)
    BY <1>6
  <2>2. e[j] < e[Len(r)] /\ e[j] \in 1..Len(ws) /\ e[Len(r)] \in 1..Len(ws)
    BY <1>6, <2>1
  <2>3. e[j] # Len(ws)
    BY <2>2
  <2> QED BY <1>1, <1>6, <2>1, <2>2, <2>3 DEF Target
<1> QED BY <1>3, <1>4, <1>7, <1>8, <1>9 DEF Numbered, OthersSink

LEMMA Triggered ==
    ASSUME NEW w \in Window, NEW place
    PROVE  Trigger(w, place) \in Window /\ Trigger(w, place).id = w.id
<1>1. Frames \in 0..Frames
  BY Bounds
<1> QED BY <1>1 DEF Trigger, Window

\* Where the windows are after one of them was raised.
LEMMA Focused ==
    ASSUME NEW ws \in Seq(Window), NEW i \in 1..Len(ws), NEW w \in Window
    PROVE  LET f == Focus(ws, i, w)
           IN  /\ f \in Seq(Window) /\ Len(f) = Len(ws)
               /\ \A j \in 1..Len(ws) :
                     f[j] = IF j < i THEN ws[j] ELSE IF j < Len(ws) THEN ws[j + 1] ELSE w
<1> DEFINE n == Len(ws)
           a == SubSeq(ws, 1, i - 1)
           b == SubSeq(ws, i + 1, n)
<1>1. n \in Nat /\ i \in 1..n
  OBVIOUS
<1>2. a \in Seq(Window) /\ Len(a) = i - 1 /\ \A j \in 1..i - 1 : a[j] = ws[j]
  BY <1>1
<1>3. b \in Seq(Window) /\ Len(b) = n - i /\ \A j \in 1..n - i : b[j] = ws[i + j]
  BY <1>1
<1>4. Focus(ws, i, w) = a \o b \o <<w>>
  BY DEF Focus
<1> HIDE DEF a, b
<1> DEFINE c == a \o b
<1>5. /\ c \in Seq(Window) /\ Len(c) = n - 1
      /\ \A j \in 1..n - 1 : c[j] = IF j < i THEN a[j] ELSE b[j - (i - 1)]
  <2>1. Len(a) + Len(b) = n - 1 /\ Len(a) = i - 1
    BY <1>1, <1>2, <1>3
  <2>2. c \in Seq(Window) /\ Len(c) = Len(a) + Len(b)
    BY <1>2, <1>3, ConcatProperties
  <2>3. \A j \in 1..Len(a) + Len(b) : c[j] = IF j <= Len(a) THEN a[j] ELSE b[j - Len(a)]
    BY <1>2, <1>3
  <2>4. \A j \in 1..n - 1 : j <= i - 1 <=> j < i
    BY <1>1
  <2> QED BY <2>1, <2>2, <2>3, <2>4
<1>6. ASSUME NEW j \in 1..n - 1 PROVE c[j] = IF j < i THEN ws[j] ELSE ws[j + 1]
  <2>1. CASE j < i
    BY <1>1, <1>2, <1>5, <2>1
  <2>2. CASE ~(j < i)
    <3>1. j - (i - 1) \in 1..n - i /\ i + (j - (i - 1)) = j + 1
      BY <1>1, <2>2
    <3> QED BY <1>3, <1>5, <2>2, <3>1
  <2> QED BY <2>1, <2>2
<1> HIDE DEF c
<1>7. /\ c \o <<w>> \in Seq(Window) /\ Len(c \o <<w>>) = n
      /\ \A j \in 1..n : (c \o <<w>>)[j] = IF j < n THEN c[j] ELSE w
  BY <1>1, <1>5
<1>8. ASSUME NEW j \in 1..n
      PROVE  (c \o <<w>>)[j] = IF j < i THEN ws[j] ELSE IF j < n THEN ws[j + 1] ELSE w
  <2>1. CASE j < n
    <3>1. j \in 1..n - 1
      BY <1>1, <2>1
    <3> QED BY <1>6, <1>7, <2>1, <3>1
  <2>2. CASE ~(j < n)
    <3>1. ~(j < i)
      BY <1>1, <2>2
    <3> QED BY <1>7, <2>2, <3>1
  <2> QED BY <2>1, <2>2
<1> QED BY <1>4, <1>7, <1>8 DEF c

LEMMA FocusNumbered ==
    ASSUME NEW ws \in Seq(Window), NEW i \in 1..Len(ws), NEW w \in Window, w.id = ws[i].id,
           NEW n \in Int, Numbered(ws, n)
    PROVE  Numbered(Focus(ws, i, w), n)
<1> DEFINE f == Focus(ws, i, w)
           From(j) == IF j < i THEN j ELSE IF j < Len(ws) THEN j + 1 ELSE i
<1>1. /\ Len(ws) \in Nat /\ Len(f) = Len(ws)
      /\ \A j \in 1..Len(ws) :
            f[j] = IF j < i THEN ws[j] ELSE IF j < Len(ws) THEN ws[j + 1] ELSE w
  BY Focused
<1> HIDE DEF f
<1>2. ASSUME NEW j \in 1..Len(ws) PROVE From(j) \in 1..Len(ws) /\ f[j].id = ws[From(j)].id
  <2>1. CASE j < i
    BY <1>1, <2>1
  <2>2. CASE ~(j < i) /\ j < Len(ws)
    BY <1>1, <2>2
  <2>3. CASE ~(j < i) /\ ~(j < Len(ws))
    BY <1>1, <2>3
  <2> QED BY <2>1, <2>2, <2>3
<1>3. ASSUME NEW j \in 1..Len(ws), NEW k \in 1..Len(ws), From(j) = From(k) PROVE j = k
  BY <1>1, <1>3
<1> HIDE DEF From
<1>4. ASSUME NEW j \in 1..Len(f) PROVE f[j].id < n
  BY <1>1, <1>2 DEF Numbered
<1>5. ASSUME NEW j \in 1..Len(f), NEW k \in 1..Len(f), f[j].id = f[k].id PROVE j = k
  <2>1. /\ From(j) \in 1..Len(ws) /\ From(k) \in 1..Len(ws)
        /\ ws[From(j)].id = ws[From(k)].id
    BY <1>1, <1>2, <1>5
  <2>2. From(j) = From(k)
    BY <2>1 DEF Numbered
  <2> QED BY <1>1, <1>3, <2>2
<1>6. Numbered(f, n)
  BY <1>4, <1>5 DEF Numbered
<1> QED BY <1>6 DEF f

LEMMA SpawnSound ==
    ASSUME NEW ws \in Seq(Window), Numbered(ws, instance_counter),
           instance_counter \in 1..MaxWindows
    PROVE  /\ Append(ws, Spawned) \in Seq(Window)
           /\ Numbered(Append(ws, Spawned), instance_counter + 1)
<1>1. Spawned \in Window /\ Spawned.id = instance_counter
  BY Bounds DEF Spawned, Window
<1> DEFINE a == Append(ws, Spawned)
<1>2. /\ a \in Seq(Window) /\ Len(ws) \in Nat /\ Len(a) = Len(ws) + 1 /\ a[Len(ws) + 1] = Spawned
      /\ \A j \in 1..Len(ws) : a[j] = ws[j]
  BY <1>1
<1>3. ASSUME NEW j \in 1..Len(ws) PROVE ws[j].id \in 1..MaxWindows /\ ws[j].id < instance_counter
  <2>1. ws[j] \in Window
    OBVIOUS
  <2> QED BY <2>1 DEF Window, Numbered
<1> HIDE DEF a
<1>4. ASSUME NEW j \in 1..Len(a)
      PROVE  \/ j = Len(ws) + 1 /\ a[j].id = instance_counter
             \/ /\ j \in 1..Len(ws) /\ a[j].id = ws[j].id
                /\ a[j].id \in 1..MaxWindows /\ a[j].id < instance_counter
  <2>1. j = Len(ws) + 1 \/ j \in 1..Len(ws)
    BY <1>2
  <2> QED BY <1>1, <1>2, <1>3, <2>1
<1>5. ASSUME NEW j \in 1..Len(a) PROVE a[j].id < instance_counter + 1
  BY <1>4
<1>6. ASSUME NEW j \in 1..Len(a), NEW k \in 1..Len(a), a[j].id = a[k].id PROVE j = k
  BY <1>4, <1>6 DEF Numbered
<1> QED BY <1>2, <1>5, <1>6 DEF Numbered, a

\* Drawing keeps the windows in order, whatever the click hit.
LEMMA RenderSound ==
    ASSUME WindowsSound, NEW c, NEW b \in BOOLEAN, RenderDesktop(c, b)
    PROVE  WindowsSound' /\ shown' = <<c, b>>
<1>1. /\ windows \in Seq(Window) /\ instance_counter \in 1..MaxWindows + 1
      /\ Numbered(windows, instance_counter) /\ dragging \in BOOLEAN /\ instance_counter \in Int
  BY DEF WindowsSound
<1>2. shown' = <<c, b>>
  BY DEF RenderDesktop
<1>3. ASSUME windows' = Tick(windows), UNCHANGED instance_counter, dragging' \in BOOLEAN
      PROVE  WindowsSound'
  BY <1>1, <1>3, TickSound DEF WindowsSound
<1>4. ASSUME NEW i \in 1..Len(windows), NEW place,
             windows' = Tick(Focus(windows, i, Trigger(windows[i], place))),
             UNCHANGED instance_counter, dragging' \in BOOLEAN
      PROVE  WindowsSound'
  <2> DEFINE w == Trigger(windows[i], place)
             f == Focus(windows, i, w)
  <2>1. windows[i] \in Window
    BY <1>1
  <2>2. w \in Window /\ w.id = windows[i].id
    BY <2>1, Triggered
  <2> HIDE DEF w
  <2>3. f \in Seq(Window) /\ Numbered(f, instance_counter)
    BY <1>1, <2>2, Focused, FocusNumbered
  <2>4. windows' = Tick(f)
    BY <1>4 DEF w
  <2> HIDE DEF f
  <2> QED BY <1>1, <1>4, <2>3, <2>4, TickSound DEF WindowsSound
<1>5. ASSUME instance_counter <= MaxWindows, windows' = Tick(Append(windows, Spawned)),
             instance_counter' = instance_counter + 1, UNCHANGED dragging
      PROVE  WindowsSound'
  <2> DEFINE a == Append(windows, Spawned)
  <2>1. instance_counter \in 1..MaxWindows /\ instance_counter' \in 1..MaxWindows + 1
    BY <1>1, <1>5, Bounds
  <2>2. a \in Seq(Window) /\ Numbered(a, instance_counter')
    BY <1>1, <1>5, <2>1, SpawnSound
  <2>3. windows' = Tick(a)
    BY <1>5
  <2> HIDE DEF a
  <2> QED BY <1>1, <1>5, <2>1, <2>2, <2>3, TickSound DEF WindowsSound
<1>6. \/ windows' = Tick(windows) /\ UNCHANGED instance_counter /\ dragging' \in BOOLEAN
      \/ \E i \in 1..Len(windows) : \E place :
            /\ windows' = Tick(Focus(windows, i, Trigger(windows[i], place)))
            /\ UNCHANGED instance_counter /\ dragging' \in BOOLEAN
      \/ /\ instance_counter <= MaxWindows /\ windows' = Tick(Append(windows, Spawned))
         /\ instance_counter' = instance_counter + 1 /\ UNCHANGED dragging
  BY <1>1, Zenon DEF RenderDesktop
<1> QED BY <1>2, <1>3, <1>4, <1>5, <1>6
-----------------------------------------------------------------------------
(* The mouse's bytes.                                                      *)

Byte == 0..255

ParserSound ==
    /\ packet \in Seq(Byte) /\ queue \in Seq(Byte) /\ report \in Seq(Byte)
    /\ byte_idx \in 0..2 /\ Len(packet) = byte_idx /\ Len(queue) <= QueueSize
    /\ cursor \in (0..MaxPos) \X (0..MaxPos)
    /\ clicked \in BOOLEAN /\ was_left_click = clicked /\ left \in BOOLEAN

\* The bytes on their way: those of the packet, of the queue and of the report,
\* in the order in which the compositor uses them.
Total == Len(packet) + Len(queue) + Len(report)
At(i) == IF i <= Len(packet) THEN packet[i]
         ELSE IF i <= Len(packet) + Len(queue) THEN queue[i - Len(packet)]
         ELSE report[i - Len(packet) - Len(queue)]

\* The button as the compositor will know it after j of the reports.
Pressed(j) == IF j = 0 THEN was_left_click ELSE Bit(At(3 * j - 2), 1)

\* The report after j others: its mark, and what it has to tell.
Marked(j) == Bit(At(3 * j + 1), 8)
Fresh(j) == \/ Signed(At(3 * j + 2), Bit(At(3 * j + 1), 16)) # 0
            \/ Signed(At(3 * j + 3), Bit(At(3 * j + 1), 32)) # 0
            \/ Bit(At(3 * j + 1), 1) # Pressed(j)

\* n whole reports are on their way, the last of them with the mouse's news; when
\* none is and the last had news, the desktop is drawn as it is.
OnTheWay(n) ==
    /\ n \in Nat /\ Total = 3 * n
    /\ \A j \in 0..n - 1 : Marked(j)
    /\ left = Pressed(n)
    /\ n # 0 /\ news => Fresh(n - 1)
    /\ n = 0 /\ news => shown = <<cursor, clicked>>

StreamSound == lost \/ \E n : OnTheWay(n)

DesktopInv == WindowsSound /\ ParserSound /\ StreamSound

LEMMA InitDesktop == Init => DesktopInv
<1> SUFFICES ASSUME Init PROVE DesktopInv
  OBVIOUS
<1>0. \A S : <<>> \in Seq(S) /\ Len(<<>>) = 0
  OBVIOUS
<1>1. WindowsSound
  <2>1. windows \in Seq(Window) /\ Len(windows) = 0 /\ dragging \in BOOLEAN
    BY <1>0 DEF Init
  <2>2. instance_counter \in 1..MaxWindows + 1
    BY Bounds DEF Init
  <2> QED BY <2>1, <2>2 DEF WindowsSound, Numbered, OthersSink
<1>2. ParserSound
  <2>1. /\ packet \in Seq(Byte) /\ queue \in Seq(Byte) /\ report \in Seq(Byte)
        /\ byte_idx = 0 /\ Len(packet) = 0 /\ Len(queue) = 0
        /\ clicked \in BOOLEAN /\ was_left_click = clicked /\ left \in BOOLEAN
    BY <1>0 DEF Init
  <2>2. cursor \in (0..MaxPos) \X (0..MaxPos)
    BY Bounds DEF Init
  <2> QED BY <2>1, <2>2, Bounds DEF ParserSound
<1>3. OnTheWay(0)
  <2>1. Total = 0
    BY <1>0 DEF Init, Total
  <2>2. left = Pressed(0) /\ shown = <<cursor, clicked>>
    BY DEF Init, Pressed
  <2> QED BY <2>1, <2>2 DEF OnTheWay
<1> QED BY <1>1, <1>2, <1>3 DEF DesktopInv, StreamSound

LEMMA BitBoolean == ASSUME NEW b, NEW k PROVE Bit(b, k) \in BOOLEAN
BY DEF Bit

LEMMA ReportsStep ==
    ASSUME DesktopInv, MouseReports
    PROVE  DesktopInv'
<1>1. PICK h \in Headers, x \in Data, y \in Data :
         /\ report' = <<h, x, y>> /\ left' = Bit(h, 1)
         /\ news' = \/ Signed(x, Bit(h, 16)) # 0 \/ Signed(y, Bit(h, 32)) # 0
                    \/ Bit(h, 1) # left
  BY DEF MouseReports
<1>2. /\ UNCHANGED <<lost, queue, byte_idx, packet, cursor, clicked, was_left_click>>
      /\ UNCHANGED <<windows, instance_counter, dragging, shown>> /\ report = <<>>
  BY DEF MouseReports, parser, desk
<1>3. h \in Byte /\ x \in Byte /\ y \in Byte /\ Bit(h, 8)
  BY BytesAreBytes, HeadersMarked DEF Byte
<1>4. WindowsSound'
  BY <1>2 DEF DesktopInv, WindowsSound
<1>5. ParserSound /\ ParserSound'
  BY <1>1, <1>2, <1>3, BitBoolean DEF DesktopInv, ParserSound
<1>6. CASE lost
  BY <1>2, <1>4, <1>5, <1>6 DEF DesktopInv, StreamSound
<1>7. CASE ~lost
  <2>1. PICK n : OnTheWay(n)
    BY <1>7 DEF DesktopInv, StreamSound
  <2>2. n \in Nat /\ Total = 3 * n /\ left = Pressed(n)
    BY <2>1 DEF OnTheWay
  <2>3. Len(packet) \in Nat /\ Len(queue) \in Nat /\ Len(report) = 0 /\ Len(report') = 3
    BY <1>1, <1>2, <1>5 DEF ParserSound
  <2>4. Total' = 3 * n + 3 /\ Len(packet) + Len(queue) = 3 * n
    BY <1>2, <2>2, <2>3 DEF Total
  <2>5. \A i \in 1..3 * n : At(i)' = At(i)
    BY <1>2, <2>3, <2>4 DEF At
  <2>6. At(3 * n + 1)' = h /\ At(3 * n + 2)' = x /\ At(3 * n + 3)' = y
    BY <1>1, <1>2, <2>2, <2>3, <2>4 DEF At
  <2>7. ASSUME NEW j \in 0..n PROVE Pressed(j)' = Pressed(j)
    BY <1>2, <2>2, <2>5 DEF Pressed
  <2>8. ASSUME NEW j \in 0..n - 1 PROVE Marked(j)'
    <3>1. Marked(j) /\ 3 * j + 1 \in 1..3 * n
      BY <2>1, <2>2 DEF OnTheWay
    <3> QED BY <2>5, <3>1 DEF Marked
  <2>9. Marked(n)' /\ (news' => Fresh(n)')
    <3>1. Pressed(n)' = left
      BY <2>2, <2>7
    <3> QED BY <1>1, <1>3, <2>6, <3>1 DEF Marked, Fresh
  <2>10. left' = Pressed(n + 1)'
    <3>1. 3 * (n + 1) - 2 = 3 * n + 1 /\ n + 1 # 0
      BY <2>2
    <3> QED BY <1>1, <2>6, <3>1 DEF Pressed
  <2>11. OnTheWay(n + 1)'
    <3>1. n + 1 \in Nat /\ Total' = 3 * (n + 1) /\ n + 1 # 0 /\ (n + 1) - 1 = n
      BY <2>2, <2>4
    <3>2. \A j \in 0..(n + 1) - 1 : Marked(j)'
      <4>1. \A j \in 0..(n + 1) - 1 : j = n \/ j \in 0..n - 1
        BY <2>2
      <4> QED BY <2>8, <2>9, <4>1
    <3> QED BY <2>9, <2>10, <3>1, <3>2 DEF OnTheWay
  <2> QED BY <1>4, <1>5, <2>11 DEF DesktopInv, StreamSound
<1> QED BY <1>6, <1>7

\* A step that leaves the bytes where they are in the stream.
LEMMA SameStream ==
    ASSUME NEW n, OnTheWay(n), UNCHANGED <<left, news, was_left_click>>, Total' = Total,
           \A i \in 1..Total : At(i)' = At(i),
           n = 0 /\ news => shown' = <<cursor, clicked>>'
    PROVE  OnTheWay(n)'
<1>1. n \in Nat /\ Total = 3 * n /\ left = Pressed(n)
  BY DEF OnTheWay
<1>2. ASSUME NEW j \in 0..n PROVE Pressed(j)' = Pressed(j)
  <2>1. j # 0 => 3 * j - 2 \in 1..3 * n
    BY <1>1
  <2> QED BY <1>1, <2>1 DEF Pressed
<1>3. ASSUME NEW j \in 0..n - 1 PROVE Marked(j)' = Marked(j) /\ Fresh(j)' = Fresh(j)
  <2>1. Pressed(j)' = Pressed(j)
    BY <1>1, <1>2
  <2>2. 3 * j + 1 \in 1..3 * n /\ 3 * j + 2 \in 1..3 * n /\ 3 * j + 3 \in 1..3 * n
    BY <1>1
  <2>3. /\ At(3 * j + 1)' = At(3 * j + 1) /\ At(3 * j + 2)' = At(3 * j + 2)
        /\ At(3 * j + 3)' = At(3 * j + 3)
    BY <1>1, <2>2
  <2> QED BY <2>1, <2>3 DEF Marked, Fresh
<1>4. Pressed(n)' = Pressed(n) /\ (n # 0 => n - 1 \in 0..n - 1)
  BY <1>1, <1>2
<1> QED BY <1>1, <1>3, <1>4 DEF OnTheWay

LEMMA InterruptStep ==
    ASSUME DesktopInv, MouseInterrupt
    PROVE  DesktopInv'
<1>1. /\ UNCHANGED <<left, news, byte_idx, packet, cursor, clicked, was_left_click>>
      /\ UNCHANGED <<windows, instance_counter, dragging, shown>>
      /\ report # <<>> /\ report' = Tail(report)
  BY DEF MouseInterrupt, parser, desk
<1>2. WindowsSound'
  BY <1>1 DEF DesktopInv, WindowsSound
<1>3. ParserSound /\ report \in Seq(Byte) /\ queue \in Seq(Byte) /\ packet \in Seq(Byte)
  BY DEF DesktopInv, ParserSound
<1>4. /\ Len(report) \in Nat /\ Len(report) > 0 /\ report' \in Seq(Byte) /\ Head(report) \in Byte
      /\ Len(report') = Len(report) - 1 /\ Head(report) = report[1]
      /\ \A i \in 1..Len(report) - 1 : report'[i] = report[i + 1]
  BY <1>1, <1>3
<1>5. CASE ~(Len(queue) < QueueSize)
  <2>1. lost' /\ queue' = queue
    BY <1>5 DEF MouseInterrupt
  <2>2. ParserSound'
    BY <1>1, <1>3, <1>4, <2>1 DEF ParserSound
  <2> QED BY <1>2, <2>1, <2>2 DEF DesktopInv, StreamSound
<1>6. CASE Len(queue) < QueueSize
  <2>1. lost' = lost /\ queue' = Append(queue, Head(report))
    BY <1>6 DEF MouseInterrupt
  <2>2. /\ queue' \in Seq(Byte) /\ Len(queue) \in Nat /\ Len(queue') = Len(queue) + 1
        /\ queue'[Len(queue) + 1] = report[1] /\ \A i \in 1..Len(queue) : queue'[i] = queue[i]
    BY <1>3, <1>4, <2>1
  <2>3. ParserSound'
    BY <1>1, <1>3, <1>4, <1>6, <2>2, Bounds DEF ParserSound
  <2>4. ASSUME NEW n, OnTheWay(n) PROVE OnTheWay(n)'
    <3>0. Len(packet) \in Nat /\ Len(packet') = Len(packet)
      BY <1>1, <1>3
    <3>1. Total' = Total /\ n # 0
      BY <1>4, <2>2, <2>4, <3>0 DEF Total, OnTheWay
    <3>2. ASSUME NEW i \in 1..Total PROVE At(i)' = At(i)
      <4> DEFINE p == Len(packet)
                 q == Len(queue)
      <4>1. p \in Nat /\ q \in Nat /\ i \in 1..p + q + Len(report)
        BY <2>2, <3>0 DEF Total
      <4>2. CASE i <= p
        BY <1>1, <3>0, <4>2 DEF At
      <4>3. CASE i > p /\ i <= p + q
        <5>1. i - p \in 1..q /\ ~(i <= p) /\ i <= p + q + 1
          BY <4>1, <4>3
        <5> QED BY <2>2, <3>0, <4>3, <5>1 DEF At
      <4>4. CASE i = p + q + 1
        <5>1. ~(i <= p) /\ ~(i <= p + q) /\ i - p = q + 1 /\ i - p - q = 1
          BY <4>1, <4>4
        <5> QED BY <2>2, <3>0, <4>4, <5>1 DEF At
      <4>5. CASE i > p + q + 1
        <5>1. /\ ~(i <= p) /\ ~(i <= p + q) /\ ~(i <= p + (q + 1))
              /\ i - p - (q + 1) \in 1..Len(report) - 1 /\ (i - p - (q + 1)) + 1 = i - p - q
          BY <1>4, <4>1, <4>5
        <5> QED BY <1>4, <2>2, <3>0, <5>1 DEF At
      <4> QED BY <4>1, <4>2, <4>3, <4>4, <4>5
    <3> QED BY <1>1, <2>4, <3>1, <3>2, SameStream
  <2> QED BY <1>2, <2>1, <2>3, <2>4 DEF DesktopInv, StreamSound
<1> QED BY <1>5, <1>6

\* A frame drawn by another task, with the cursor and the button as they are.
LEMMA DrawStep ==
    ASSUME DesktopInv, RenderDesktop(cursor, clicked), UNCHANGED <<mouse, queue, parser>>
    PROVE  DesktopInv'
<1>1. clicked \in BOOLEAN /\ ParserSound
  BY DEF DesktopInv, ParserSound
<1>2. WindowsSound' /\ shown' = <<cursor, clicked>>
  BY <1>1, RenderSound DEF DesktopInv
<1>3. ParserSound'
  BY <1>1 DEF ParserSound, mouse, parser
<1>4. ASSUME NEW n, OnTheWay(n) PROVE OnTheWay(n)'
  <2>1. Total' = Total /\ \A i : At(i)' = At(i)
    BY DEF Total, At, mouse, parser
  <2> QED BY <1>2, <1>4, <2>1, SameStream DEF mouse, parser
<1> QED BY <1>2, <1>3, <1>4 DEF DesktopInv, StreamSound, mouse
-----------------------------------------------------------------------------
(* The compositor.                                                         *)

LEMMA ClampRange == ASSUME NEW v \in Int PROVE Clamp(v) \in 0..MaxPos
BY Bounds DEF Clamp

LEMMA SignedInt == ASSUME NEW b \in Byte, NEW neg \in BOOLEAN PROVE Signed(b, neg) \in Int
BY DEF Signed, Byte

\* The first byte of the queue is the next one the compositor has no place for.
LEMMA QueueHead ==
    ASSUME ParserSound, queue # <<>>
    PROVE  /\ Head(queue) = At(byte_idx + 1) /\ Head(queue) \in Byte /\ Total \in Nat /\ Total > 0
           /\ Tail(queue) \in Seq(Byte) /\ Len(Tail(queue)) = Len(queue) - 1 /\ Len(queue) \in Nat
           /\ Len(queue) > 0
           /\ \A i \in 1..Len(queue) - 1 : Tail(queue)[i] = queue[i + 1]
<1>1. queue \in Seq(Byte) /\ report \in Seq(Byte) /\ Len(packet) = byte_idx /\ byte_idx \in 0..2
  BY DEF ParserSound
<1>2. /\ Len(queue) \in Nat /\ Len(queue) > 0 /\ Tail(queue) \in Seq(Byte)
      /\ Len(Tail(queue)) = Len(queue) - 1 /\ Head(queue) = queue[1] /\ queue[1] \in Byte
      /\ \A i \in 1..Len(queue) - 1 : Tail(queue)[i] = queue[i + 1]
  BY <1>1
<1>3. At(byte_idx + 1) = queue[1]
  BY <1>1, <1>2 DEF At
<1>4. Total \in Nat /\ Total > 0
  BY <1>1, <1>2 DEF Total
<1> QED BY <1>2, <1>3, <1>4

\* A byte of the packet that is not its last.
LEMMA ByteStep ==
    ASSUME DesktopInv, queue # <<>>, queue' = Tail(queue), byte_idx < 2,
           byte_idx' = byte_idx + 1, packet' = Append(packet, Head(queue)),
           UNCHANGED <<mouse, cursor, clicked, was_left_click, desk>>
    PROVE  DesktopInv'
<1>1. /\ ParserSound /\ packet \in Seq(Byte) /\ Len(packet) = byte_idx /\ byte_idx \in 0..2
      /\ report \in Seq(Byte)
  BY DEF DesktopInv, ParserSound
<1>2. WindowsSound'
  BY DEF DesktopInv, WindowsSound, desk
<1>3. /\ packet' \in Seq(Byte) /\ Len(packet') = byte_idx + 1 /\ packet'[byte_idx + 1] = queue[1]
      /\ \A i \in 1..byte_idx : packet'[i] = packet[i]
  BY <1>1, QueueHead
<1>4. ParserSound'
  BY <1>1, <1>3, QueueHead, Bounds DEF ParserSound, mouse
<1>5. ASSUME NEW n, OnTheWay(n) PROVE OnTheWay(n)'
  <2>0. /\ Len(queue') = Len(queue) - 1 /\ Len(queue) \in Nat /\ Len(queue) > 0
        /\ \A i \in 1..Len(queue) - 1 : queue'[i] = queue[i + 1]
    BY <1>1, QueueHead
  <2>1. Total' = Total /\ n # 0
    <3>1. report' = report /\ Len(report) \in Nat
      BY <1>1 DEF mouse
    <3>2. Total' = Total
      <4>1. Total' = (byte_idx + 1) + (Len(queue) - 1) + Len(report)
        BY <1>3, <2>0, <3>1 DEF Total
      <4>2. Total = byte_idx + Len(queue) + Len(report)
        BY <1>1 DEF Total
      <4> QED BY <1>1, <2>0, <3>1, <4>1, <4>2
    <3>3. Total > 0 /\ Total = 3 * n
      BY <1>1, <1>5, QueueHead DEF OnTheWay
    <3> QED BY <3>2, <3>3
  <2>2. ASSUME NEW i \in 1..Total PROVE At(i)' = At(i)
    <3>1. i \in Nat /\ i > 0 /\ Len(report) \in Nat
      BY <1>1, QueueHead
    <3>2. CASE i <= byte_idx
      BY <1>1, <1>3, <3>1, <3>2 DEF At
    <3>3. CASE i = byte_idx + 1
      <4>1. At(i)' = packet'[i]
        BY <1>1, <1>3, <3>3 DEF At
      <4>2. At(i) = queue[1]
        BY <1>1, <2>0, <3>3 DEF At
      <4> QED BY <1>3, <3>3, <4>1, <4>2
    <3>4. CASE i > byte_idx + 1 /\ i <= byte_idx + Len(queue)
      <4>1. i - (byte_idx + 1) \in 1..Len(queue) - 1 /\ (i - (byte_idx + 1)) + 1 = i - byte_idx
        BY <1>1, <2>0, <3>1, <3>4
      <4>2. At(i)' = queue'[i - (byte_idx + 1)]
        BY <1>1, <1>3, <2>0, <3>4 DEF At
      <4>3. At(i) = queue[i - byte_idx]
        BY <1>1, <2>0, <3>4 DEF At
      <4> QED BY <2>0, <4>1, <4>2, <4>3
    <3>5. CASE i > byte_idx + Len(queue)
      <4>1. i - (byte_idx + 1) - (Len(queue) - 1) = i - byte_idx - Len(queue)
        BY <1>1, <2>0, <3>1
      <4>2. At(i)' = report[i - (byte_idx + 1) - (Len(queue) - 1)]
        <5>1. report' = report /\ ~(i <= byte_idx + 1) /\ ~(i <= byte_idx + 1 + (Len(queue) - 1))
          BY <1>1, <2>0, <3>1, <3>5 DEF mouse
        <5> QED BY <1>3, <2>0, <5>1 DEF At
      <4>3. At(i) = report[i - byte_idx - Len(queue)]
        BY <1>1, <2>0, <3>1, <3>5 DEF At
      <4> QED BY <4>1, <4>2, <4>3
    <3> QED BY <1>1, <2>0, <3>1, <3>2, <3>3, <3>4, <3>5
  <2> QED BY <1>5, <2>1, <2>2, SameStream DEF mouse
<1> QED BY <1>2, <1>4, <1>5 DEF DesktopInv, StreamSound, mouse

\* The third byte: a packet is used, and the reports behind it move up.
LEMMA PacketStep ==
    ASSUME DesktopInv, queue # <<>>, queue' = Tail(queue), byte_idx = 2,
           byte_idx' = 0, packet' = <<>>, UNCHANGED mouse,
           UsePacket(packet[1], packet[2], Head(queue))
    PROVE  DesktopInv'
<1> DEFINE flags == packet[1]
           click == Bit(flags, 1)
           x == Signed(packet[2], Bit(flags, 16))
           y == Signed(Head(queue), Bit(flags, 32))
<1>1. /\ ParserSound /\ packet \in Seq(Byte) /\ Len(packet) = 2 /\ report \in Seq(Byte)
      /\ clicked \in BOOLEAN /\ was_left_click = clicked
      /\ cursor \in (0..MaxPos) \X (0..MaxPos)
  BY DEF DesktopInv, ParserSound
<1>2. /\ packet[1] \in Byte /\ packet[2] \in Byte /\ Head(queue) \in Byte
      /\ At(1) = packet[1] /\ At(2) = packet[2] /\ At(3) = Head(queue)
  <2>1. packet[1] \in Byte /\ packet[2] \in Byte
    <3>0. packet \in Seq(Byte)
      BY <1>1
    <3>1. \A i \in 1..Len(packet) : packet[i] \in Byte
      BY <3>0, ElementOfSeq
    <3>2. 1 \in 1..Len(packet) /\ 2 \in 1..Len(packet)
      BY <1>1
    <3> QED BY <3>1, <3>2
  <2>2. At(1) = packet[1] /\ At(2) = packet[2]
    BY <1>1 DEF At
  <2>3. Head(queue) \in Byte /\ Head(queue) = At(3)
    BY <1>1, QueueHead
  <2> QED BY <2>1, <2>2, <2>3
<1>3. click \in BOOLEAN /\ x \in Int /\ y \in Int
  BY <1>2, BitBoolean, SignedInt
<1>4. \/ /\ Changed(x, y, click)
         /\ cursor' = <<Clamp(cursor[1] + x), Clamp(cursor[2] - y)>>
         /\ clicked' = click /\ was_left_click' = click
         /\ queue' # <<>> => UNCHANGED desk
         /\ queue' = <<>> => RenderDesktop(cursor', click)
      \/ ~Changed(x, y, click) /\ UNCHANGED <<cursor, clicked, was_left_click, desk>>
  BY DEF UsePacket
<1> HIDE DEF flags, click, x, y
<1>5. WindowsSound'
  <2>1. ASSUME UNCHANGED desk PROVE WindowsSound'
    BY <2>1 DEF DesktopInv, WindowsSound, desk
  <2>2. ASSUME NEW c, RenderDesktop(c, click) PROVE WindowsSound'
    BY <1>3, <2>2, RenderSound DEF DesktopInv
  <2> QED BY <1>4, <2>1, <2>2
<1>6. cursor' \in (0..MaxPos) \X (0..MaxPos) /\ clicked' \in BOOLEAN /\ was_left_click' = clicked'
  <2>1. cursor[1] + x \in Int /\ cursor[2] - y \in Int
    BY <1>1, <1>3
  <2>2. Clamp(cursor[1] + x) \in 0..MaxPos /\ Clamp(cursor[2] - y) \in 0..MaxPos
    BY <2>1, ClampRange
  <2> QED BY <1>1, <1>3, <1>4, <2>2
<1>7. /\ queue' \in Seq(Byte) /\ Len(queue) \in Nat /\ Len(queue) > 0 /\ Len(queue') = Len(queue) - 1
      /\ \A i \in 1..Len(queue) - 1 : queue'[i] = queue[i + 1]
  BY <1>1, QueueHead
<1>8. /\ packet' \in Seq(Byte) /\ Len(packet') = 0 /\ report' = report /\ left' = left
      /\ Len(report) \in Nat
  BY <1>1 DEF mouse
<1>9. ParserSound'
  <2>1. Len(queue') <= QueueSize
    BY <1>1, <1>7, Bounds DEF ParserSound
  <2> QED BY <1>1, <1>6, <1>7, <1>8, <2>1 DEF ParserSound
<1>10. ASSUME NEW n, OnTheWay(n) PROVE OnTheWay(n - 1)'
  <2>1. n \in Nat /\ Total = 3 * n /\ left = Pressed(n)
    BY <1>10 DEF OnTheWay
  <2>2. Total' = 3 * (n - 1) /\ n - 1 \in Nat /\ n # 0
    <3>1. Total' = 0 + (Len(queue) - 1) + Len(report)
      BY <1>7, <1>8 DEF Total
    <3>2. Total = 2 + Len(queue) + Len(report)
      BY <1>1 DEF Total
    <3> QED BY <1>7, <1>8, <2>1, <3>1, <3>2
  <2>3. ASSUME NEW i \in Nat, i > 0 PROVE At(i)' = At(i + 3)
    <3>1. CASE i <= Len(queue) - 1
      <4>1. At(i)' = queue'[i]
        BY <1>7, <1>8, <2>3, <3>1 DEF At
      <4>2. At(i + 3) = queue[i + 1]
        BY <1>1, <1>7, <2>3, <3>1 DEF At
      <4>3. i \in 1..Len(queue) - 1
        BY <1>7, <2>3, <3>1
      <4> QED BY <1>7, <4>1, <4>2, <4>3
    <3>2. CASE ~(i <= Len(queue) - 1)
      <4>1. At(i)' = report[i - (Len(queue) - 1)]
        BY <1>7, <1>8, <2>3, <3>2 DEF At
      <4>2. At(i + 3) = report[i + 3 - 2 - Len(queue)]
        BY <1>1, <1>7, <2>3, <3>2 DEF At
      <4>3. i - (Len(queue) - 1) = i + 3 - 2 - Len(queue)
        BY <1>7, <2>3
      <4> QED BY <4>1, <4>2, <4>3
    <3> QED BY <3>1, <3>2
  <2>4. Fresh(0) => Changed(x, y, click)
    BY <1>2 DEF Fresh, Changed, Pressed, x, y, click, flags
  <2>5. was_left_click' = click
    BY <1>4 DEF Changed
  <2>6. ASSUME NEW j \in 0..n - 1 PROVE Pressed(j)' = Pressed(j + 1)
    <3>1. CASE j = 0
      <4>1. Pressed(0)' = was_left_click'
        BY DEF Pressed
      <4>2. was_left_click' = Bit(At(1), 1)
        BY <1>2, <2>5 DEF click, flags
      <4>3. Pressed(1) = Bit(At(1), 1)
        BY DEF Pressed
      <4> QED BY <3>1, <4>1, <4>2, <4>3
    <3>2. CASE j # 0
      <4>1. 3 * j - 2 \in Nat /\ 3 * j - 2 > 0 /\ (3 * j - 2) + 3 = 3 * (j + 1) - 2 /\ j + 1 # 0
        BY <2>1, <3>2
      <4>2. At(3 * j - 2)' = At(3 * (j + 1) - 2)
        BY <2>3, <4>1
      <4> QED BY <3>2, <4>1, <4>2 DEF Pressed
    <3> QED BY <3>1, <3>2
  <2>7. ASSUME NEW j \in 0..(n - 1) - 1
        PROVE  Marked(j)' = Marked(j + 1) /\ Fresh(j)' = Fresh(j + 1) /\ Marked(j + 1)
    <3>1. j + 1 \in 0..n - 1 /\ j \in 0..n - 1 /\ j \in Nat
      BY <2>1
    <3>2. Marked(j + 1)
      BY <1>10, <3>1 DEF OnTheWay
    <3>3. /\ At(3 * j + 1)' = At(3 * (j + 1) + 1) /\ At(3 * j + 2)' = At(3 * (j + 1) + 2)
          /\ At(3 * j + 3)' = At(3 * (j + 1) + 3)
      <4>1. /\ 3 * j + 1 \in Nat /\ 3 * j + 2 \in Nat /\ 3 * j + 3 \in Nat
            /\ 3 * j + 1 > 0 /\ 3 * j + 2 > 0 /\ 3 * j + 3 > 0
            /\ (3 * j + 1) + 3 = 3 * (j + 1) + 1 /\ (3 * j + 2) + 3 = 3 * (j + 1) + 2
            /\ (3 * j + 3) + 3 = 3 * (j + 1) + 3
        BY <3>1
      <4> QED BY <2>3, <4>1
    <3>4. Pressed(j)' = Pressed(j + 1)
      BY <2>6, <3>1
    <3> QED BY <3>2, <3>3, <3>4 DEF Marked, Fresh
  <2>8. left' = Pressed(n - 1)'
    <3>1. n - 1 \in 0..n - 1 /\ (n - 1) + 1 = n
      BY <2>1, <2>2
    <3> QED BY <1>8, <2>1, <2>6, <3>1
  <2>9. n - 1 = 0 /\ news' => shown' = <<cursor', clicked'>>
    <3> SUFFICES ASSUME n - 1 = 0, news' PROVE shown' = <<cursor', clicked'>>
      OBVIOUS
    <3>0. Fresh(0)
      BY <1>10, <2>2 DEF OnTheWay, mouse
    <3>1. Len(queue') = 0
      BY <1>7, <1>8, <2>2 DEF Total
    <3>2. queue' = <<>>
      BY <1>7, <3>1
    <3>3. RenderDesktop(cursor', click) /\ clicked' = click
      BY <1>4, <2>4, <3>0, <3>2
    <3> QED BY <3>3 DEF RenderDesktop
  <2>10. n - 1 # 0 /\ news' => Fresh((n - 1) - 1)'
    <3> SUFFICES ASSUME n - 1 # 0, news' PROVE Fresh((n - 1) - 1)'
      OBVIOUS
    <3>1. (n - 1) - 1 \in 0..(n - 1) - 1 /\ ((n - 1) - 1) + 1 = n - 1
      BY <2>1, <2>2
    <3>2. Fresh(n - 1)
      BY <1>10, <2>2 DEF OnTheWay, mouse
    <3> QED BY <2>7, <3>1, <3>2
  <2> QED BY <2>2, <2>7, <2>8, <2>9, <2>10 DEF OnTheWay
<1> QED BY <1>5, <1>9, <1>10 DEF DesktopInv, StreamSound, mouse

LEMMA CompositorStep ==
    ASSUME DesktopInv, Compositor
    PROVE  DesktopInv'
<1>1. queue # <<>> /\ queue' = Tail(queue) /\ UNCHANGED mouse /\ ParserSound /\ byte_idx \in 0..2
  BY DEF Compositor, DesktopInv, ParserSound
<1>2. CASE byte_idx = 0 /\ ~Bit(Head(queue), 8)
  <2>1. UNCHANGED <<parser, desk>>
    BY <1>2 DEF Compositor
  <2>2. ASSUME NEW n, OnTheWay(n) PROVE FALSE
    <3>1. Head(queue) = At(1) /\ Total > 0
      BY <1>1, <1>2, QueueHead
    <3>2. n \in Nat /\ n # 0
      BY <2>2, <3>1 DEF OnTheWay
    <3>3. Marked(0)
      BY <2>2, <3>2 DEF OnTheWay
    <3> QED BY <1>2, <3>1, <3>3 DEF Marked
  <2>3. lost
    BY <2>2 DEF DesktopInv, StreamSound
  <2>4. WindowsSound'
    BY <2>1 DEF DesktopInv, WindowsSound, desk
  <2>5. ParserSound'
    BY <1>1, <2>1, QueueHead, Bounds DEF ParserSound, parser, mouse
  <2> QED BY <1>1, <2>3, <2>4, <2>5 DEF DesktopInv, StreamSound, mouse
<1>3. CASE ~(byte_idx = 0 /\ ~Bit(Head(queue), 8)) /\ byte_idx # 2
  <2>1. /\ byte_idx' = NextByte /\ packet' = Append(packet, Head(queue))
        /\ UNCHANGED <<cursor, clicked, was_left_click, desk>>
    BY <1>3 DEF Compositor
  <2>2. byte_idx < 2 /\ NextByte = byte_idx + 1
    BY <1>1, <1>3 DEF NextByte
  <2> QED BY <1>1, <2>1, <2>2, ByteStep
<1>4. CASE byte_idx = 2
  <2>1. /\ byte_idx' = NextByte /\ packet' = <<>> /\ UsePacket(packet[1], packet[2], Head(queue))
    BY <1>4 DEF Compositor
  <2>2. NextByte = 0
    BY <1>4 DEF NextByte
  <2> QED BY <1>1, <1>4, <2>1, <2>2, PacketStep
<1> QED BY <1>2, <1>3, <1>4

LEMMA NextDesktop == DesktopInv /\ [Next]_vars => DesktopInv'
<1> SUFFICES ASSUME DesktopInv, [Next]_vars PROVE DesktopInv'
  OBVIOUS
<1>1. CASE MouseReports
  BY <1>1, ReportsStep
<1>2. CASE MouseInterrupt
  BY <1>2, InterruptStep
<1>3. CASE Compositor
  BY <1>3, CompositorStep
<1>4. CASE PhysicsTick \/ Type
  BY <1>4, DrawStep DEF PhysicsTick, Type
<1>5. CASE UNCHANGED vars
  <2>1. UNCHANGED <<mouse, queue, parser, desk>>
    BY <1>5 DEF vars
  <2>2. WindowsSound' /\ ParserSound'
    BY <2>1 DEF DesktopInv, WindowsSound, ParserSound, mouse, parser, desk
  <2>3. ASSUME NEW n, OnTheWay(n) PROVE OnTheWay(n)'
    <3>1. Total' = Total /\ \A i : At(i)' = At(i)
      BY <2>1 DEF Total, At, mouse, parser
    <3>2. n = 0 /\ news => shown' = <<cursor, clicked>>'
      BY <2>1, <2>3 DEF OnTheWay, parser, desk
    <3> QED BY <2>1, <2>3, <3>1, <3>2, SameStream DEF mouse, parser
  <2> QED BY <2>1, <2>2, <2>3 DEF DesktopInv, StreamSound, mouse
<1> QED BY <1>1, <1>2, <1>3, <1>4, <1>5 DEF Next

\* The desktop's type invariant: the parser never has more bytes of a packet than
\* it counts, the cursor stays on the screen, and no two windows have one number,
\* whatever clicks, frames and reports come in which order.
THEOREM DesktopTypes == Spec => []TypeOK
<1>1. Init => DesktopInv
  BY InitDesktop
<1>2. DesktopInv /\ [Next]_vars => DesktopInv'
  BY NextDesktop
<1>3. DesktopInv => TypeOK
  <2> SUFFICES ASSUME DesktopInv PROVE TypeOK
    OBVIOUS
  <2>1. ParserSound /\ WindowsSound
    BY DEF DesktopInv
  <2>2. ASSUME NEW i \in 1..Len(windows)
        PROVE  /\ windows[i] \in Window /\ windows[i].id < instance_counter
               /\ \A k \in 1..i - 1 : windows[k].id # windows[i].id
    <3>1. windows \in Seq(Window) /\ Len(windows) \in Nat
      BY <2>1 DEF WindowsSound
    <3>2. \A k \in 1..i - 1 : k \in 1..Len(windows) /\ k # i
      BY <3>1
    <3> QED BY <2>1, <3>1, <3>2 DEF WindowsSound, Numbered
  <2> QED BY <2>1, <2>2 DEF TypeOK, ParserSound, WindowsSound, Window
<1> QED BY <1>1, <1>2, <1>3, PTL DEF Spec

\* When nothing moves, only the last window is in front, for every number of
\* windows and every depth: raising, opening and closing windows in any order,
\* and handling one click many times, leaves no other window there.
THEOREM DesktopOneInFront == Spec => []OnlyTopInFront
<1>1. Init => DesktopInv
  BY InitDesktop
<1>2. DesktopInv /\ [Next]_vars => DesktopInv'
  BY NextDesktop
<1>3. DesktopInv => OnlyTopInFront
  <2> SUFFICES ASSUME DesktopInv, \A i \in 1..Len(windows) : ~Moving(windows[i]),
                      NEW i \in 1..Len(windows) - 1
               PROVE  windows[i].z = Depth
    BY DEF OnlyTopInFront
  <2>1. Len(windows) \in Nat /\ windows[i].target = Depth
    BY DEF DesktopInv, WindowsSound, OthersSink
  <2>2. i \in 1..Len(windows)
    BY <2>1
  <2> QED BY <2>1, <2>2 DEF Moving
<1> QED BY <1>1, <1>2, <1>3, PTL DEF Spec

\* As long as no byte of the mouse is lost, a desktop with no bytes on their way
\* knows the mouse's left button, and if the last report moved the mouse or changed
\* that button it is drawn so, however many draws were skipped before, for every
\* queue size.  After a last report of another button it may show an old picture.
THEOREM DesktopCursor == Spec => []CursorShown
<1>1. Init => DesktopInv
  BY InitDesktop
<1>2. DesktopInv /\ [Next]_vars => DesktopInv'
  BY NextDesktop
<1>3. DesktopInv => CursorShown
  <2> SUFFICES ASSUME DesktopInv, queue = <<>>, byte_idx = 0, report = <<>>, ~lost
               PROVE  clicked = left /\ (news => shown = <<cursor, clicked>>)
    BY DEF CursorShown, MouseRead
  <2>1. PICK n : OnTheWay(n)
    BY DEF DesktopInv, StreamSound
  <2>2. Len(packet) = 0 /\ Len(queue) = 0 /\ Len(report) = 0
    BY DEF DesktopInv, ParserSound
  <2>3. Total = 0
    BY <2>2 DEF Total
  <2>4. n = 0 /\ left = was_left_click
    BY <2>1, <2>3 DEF OnTheWay, Pressed
  <2> QED BY <2>1, <2>4 DEF OnTheWay, DesktopInv, ParserSound
<1> QED BY <1>1, <1>2, <1>3, PTL DEF Spec
=============================================================================
