--------------------------- MODULE MatchingProofs -----------------------------
(***************************************************************************)
(* Theorems about Matching, for all texts and whatever Unicode makes of    *)
(* characters: the edit distance, the similarity, canonicalisation; and    *)
(* about Clerical, for everything a clerk may do to a record.              *)
(***************************************************************************)
EXTENDS Clerical, Counting

-----------------------------------------------------------------------------
(* The edit distance.                                                      *)

\* The two letters compared differ.
Cost(a, b, i, j) == IF a[i] # b[j] THEN 1 ELSE 0

\* The table of which _edit_distance keeps two rows: t[i][j] is the least of
\* what its three neighbours come to.
IsTable(t, a, b) ==
  /\ t \in [0..Len(a) -> [0..Len(b) -> Nat]]
  /\ \A j \in 0..Len(b) : t[0][j] = j
  /\ \A i \in 0..Len(a) : t[i][0] = i
  /\ \A i \in 1..Len(a), j \in 1..Len(b) :
       /\ t[i][j] <= t[i - 1][j] + 1
       /\ t[i][j] <= t[i][j - 1] + 1
       /\ t[i][j] <= t[i - 1][j - 1] + Cost(a, b, i, j)
       /\ t[i][j] \in {t[i - 1][j] + 1, t[i][j - 1] + 1,
                       t[i - 1][j - 1] + Cost(a, b, i, j)}

(***************************************************************************)
(* The least of three numbers is one of them, and none is smaller.         *)
(***************************************************************************)
LEMMA LeastOfThree ==
  ASSUME NEW x \in Nat, NEW y \in Nat, NEW z \in Nat
  PROVE  /\ Min({x, y, z}) \in {x, y, z}
         /\ Min({x, y, z}) <= x /\ Min({x, y, z}) <= y /\ Min({x, y, z}) <= z
<1>1. \E n \in {x, y, z} : \A m \in {x, y, z} : n <= m
  BY {x, y, z} \in SUBSET Nat, LeastNatural
<1> QED BY <1>1 DEF Min

(***************************************************************************)
(* next_row is the row that follows in the table.                          *)
(***************************************************************************)
LEMMA NextRowIs ==
  ASSUME NEW S, NEW a \in Seq(S), NEW b \in Seq(S),
         NEW previous \in [0..Len(b) -> Nat], NEW i \in Nat
  PROVE  LET r == next_row(a, b, previous, i)
         IN  /\ r \in [0..Len(b) -> Nat]
             /\ r[0] = i
             /\ \A j \in 1..Len(b) :
                  /\ r[j] <= previous[j] + 1
                  /\ r[j] <= r[j - 1] + 1
                  /\ r[j] <= previous[j - 1] + Cost(a, b, i, j)
                  /\ r[j] \in {previous[j] + 1, r[j - 1] + 1,
                               previous[j - 1] + Cost(a, b, i, j)}
<1> DEFINE n == Len(b)
           step == [j \in 1..n |-> [x \in Nat |->
                      Min({previous[j] + 1, x + 1, previous[j - 1] + Cost(a, b, i, j)})]]
           Is(g) == g = [j \in 0..n |->
                      IF j = 0 THEN i
                      ELSE Min({previous[j] + 1, g[j - 1] + 1,
                                previous[j - 1] + IF a[i] # b[j] THEN 1 ELSE 0})]
<1>1. n \in Nat
  OBVIOUS
<1>2. \A j \in 1..n : /\ previous[j] + 1 \in Nat
                      /\ previous[j - 1] + Cost(a, b, i, j) \in Nat
  <2> SUFFICES ASSUME NEW j \in 1..n
               PROVE  previous[j] + 1 \in Nat /\ previous[j - 1] + Cost(a, b, i, j) \in Nat
    OBVIOUS
  <2>1. j \in 0..n /\ j - 1 \in 0..n
    BY <1>1
  <2>2. Cost(a, b, i, j) \in Nat
    BY DEF Cost
  <2> QED BY <2>1, <2>2
<1>3. step \in [1..n -> [Nat -> Nat]]
  <2> SUFFICES ASSUME NEW j \in 1..n, NEW x \in Nat
               PROVE  Min({previous[j] + 1, x + 1, previous[j - 1] + Cost(a, b, i, j)}) \in Nat
    OBVIOUS
  <2> DEFINE p == previous[j] + 1
             q == previous[j - 1] + Cost(a, b, i, j)
  <2>1. p \in Nat /\ q \in Nat /\ x + 1 \in Nat
    BY <1>2
  <2> HIDE DEF p, q
  <2>2. Min({p, x + 1, q}) \in Nat
    BY <2>1, LeastOfThree
  <2> QED BY <2>2 DEF p, q
<1>4. PICK g \in [0..n -> Nat] : g[0] = i /\ \A j \in 1..n : g[j] = step[j][g[j - 1]]
  <2>1. step \in Steps(n, Nat)
    BY <1>3 DEF Steps
  <2> HIDE DEF n, step
  <2>2. \E g : IsRecursion(g, n, Nat, i, step)
    BY <1>1, <2>1, RecursionExists, Zenon
  <2> QED BY <2>2 DEF IsRecursion
<1>5. \A j \in 1..n : g[j] = Min({previous[j] + 1, g[j - 1] + 1,
                                  previous[j - 1] + Cost(a, b, i, j)})
  <2> SUFFICES ASSUME NEW j \in 1..n
               PROVE  g[j] = Min({previous[j] + 1, g[j - 1] + 1,
                                  previous[j - 1] + Cost(a, b, i, j)})
    OBVIOUS
  <2>1. g[j - 1] \in Nat
    <3>1. j - 1 \in 0..n
      BY <1>1
    <3> HIDE DEF n, step
    <3> QED BY <3>1
  <2> QED BY <1>4, <2>1
<1>6. Is(g)
  <2> SUFFICES ASSUME NEW j \in 0..n
               PROVE  g[j] = IF j = 0 THEN i
                             ELSE Min({previous[j] + 1, g[j - 1] + 1,
                                       previous[j - 1] + IF a[i] # b[j] THEN 1 ELSE 0})
    OBVIOUS
  <2>1. CASE j = 0
    BY <1>4, <2>1
  <2>2. CASE j # 0
    <3>1. j \in 1..n
      BY <1>1, <2>2
    <3>2. g[j] = Min({previous[j] + 1, g[j - 1] + 1, previous[j - 1] + Cost(a, b, i, j)})
      BY <1>5, <3>1
    <3> HIDE DEF n, step
    <3> QED BY <2>2, <3>2 DEF Cost
  <2> QED BY <2>1, <2>2
<1> HIDE DEF step
<1>7. \A h : Is(h) => h = g
  <2> SUFFICES ASSUME NEW h, Is(h) PROVE h = g
    OBVIOUS
  <2> DEFINE Bad == {j \in Nat : j <= n /\ h[j] # g[j]}
  <2>1. Bad = {}
    <3> SUFFICES ASSUME Bad # {} PROVE FALSE
      OBVIOUS
    <3>1. PICK j \in Bad : \A k \in Bad : j <= k
      <4>1. Bad \in SUBSET Nat
        OBVIOUS
      <4> HIDE DEF Bad
      <4> QED BY <4>1, LeastNatural
    <3>2. j \in 0..n /\ h[j] # g[j]
      BY <1>1, <3>1
    <3>3. j # 0
      BY <1>4, <3>2
    <3>4. j \in 1..n /\ j - 1 \in Nat /\ j - 1 <= n /\ ~ (j <= j - 1)
      BY <1>1, <3>2, <3>3
    <3>5. h[j - 1] = g[j - 1]
      BY <3>1, <3>4
    <3> HIDE DEF Bad
    <3>6. h[j] = Min({previous[j] + 1, h[j - 1] + 1,
                      previous[j - 1] + IF a[i] # b[j] THEN 1 ELSE 0})
      BY <3>2, <3>3
    <3> QED BY <1>5, <3>2, <3>4, <3>5, <3>6 DEF Cost
  <2>2. \A j \in 0..n : h[j] = g[j]
    <3> SUFFICES ASSUME NEW j \in 0..n, h[j] # g[j] PROVE FALSE
      OBVIOUS
    <3>1. j \in Nat /\ j <= n
      BY <1>1
    <3>2. j \in Bad
      BY <3>1
    <3> QED BY <2>1, <3>2
  <2>3. h = [j \in 0..n |-> h[j]] /\ g = [j \in 0..n |-> g[j]]
    OBVIOUS
  <2> QED BY <2>2, <2>3
<1>8. next_row(a, b, previous, i) = g
  <2>1. next_row(a, b, previous, i) = [j \in 0..n |-> (CHOOSE h : Is(h))[j]]
    BY DEF next_row
  <2>2. (CHOOSE h : Is(h)) = g
    <3> HIDE DEF Is
    <3> QED BY <1>6, <1>7
  <2> QED BY <2>1, <2>2
<1>9. ASSUME NEW j \in 1..n
      PROVE  /\ g[j] <= previous[j] + 1
             /\ g[j] <= g[j - 1] + 1
             /\ g[j] <= previous[j - 1] + Cost(a, b, i, j)
             /\ g[j] \in {previous[j] + 1, g[j - 1] + 1,
                          previous[j - 1] + Cost(a, b, i, j)}
  <2> DEFINE p == previous[j] + 1
             q == previous[j - 1] + Cost(a, b, i, j)
             x == g[j - 1] + 1
  <2>1. p \in Nat /\ q \in Nat /\ x \in Nat
    <3>1. j - 1 \in 0..n
      BY <1>1
    <3>2. g[j - 1] \in Nat
      BY <3>1
    <3> QED BY <1>2, <3>2
  <2>2. g[j] = Min({p, x, q})
    BY <1>5
  <2> HIDE DEF p, q, x
  <2>3. g[j] <= p /\ g[j] <= x /\ g[j] <= q /\ g[j] \in {p, x, q}
    BY <2>1, <2>2, LeastOfThree
  <2> QED BY <2>3 DEF p, q, x
<1> QED BY <1>4, <1>8, <1>9

(***************************************************************************)
(* _edit_distance returns the last entry of the table: two rows are as     *)
(* good as all of them, and its two early returns agree with it.           *)
(***************************************************************************)
LEMMA TableExists ==
  ASSUME NEW S, NEW a \in Seq(S), NEW b \in Seq(S)
  PROVE  \E t : IsTable(t, a, b) /\ last_row(a, b) = t[Len(a)]
<1> DEFINE m == Len(a)
           n == Len(b)
           Row == [0..n -> Nat]
           first == [j \in 0..n |-> j]
           step == [i \in 1..m |-> [p \in Row |-> next_row(a, b, p, i)]]
           Is(g) == g = [i \in 0..m |-> IF i = 0 THEN first ELSE next_row(a, b, g[i - 1], i)]
<1>1. m \in Nat /\ n \in Nat
  OBVIOUS
<1>2. first \in Row
  OBVIOUS
<1>3. \A p \in Row, i \in Nat : next_row(a, b, p, i) \in Row /\ next_row(a, b, p, i)[0] = i
  BY NextRowIs
<1>4. PICK t \in [0..m -> Row] : t[0] = first /\ \A i \in 1..m : t[i] = step[i][t[i - 1]]
  <2>1. step \in Steps(m, Row)
    BY <1>3 DEF Steps
  <2> HIDE DEF m, Row, first, step
  <2>2. \E t : IsRecursion(t, m, Row, first, step)
    BY <1>1, <1>2, <2>1, RecursionExists, Zenon
  <2> QED BY <2>2 DEF IsRecursion
<1>5. ASSUME NEW i \in 1..m
      PROVE  /\ t[i - 1] \in Row /\ i \in Nat /\ i - 1 \in 0..m
             /\ t[i] = next_row(a, b, t[i - 1], i)
  <2>1. i - 1 \in 0..m /\ i \in Nat
    BY <1>1
  <2>2. t[i - 1] \in Row
    BY <2>1
  <2> HIDE DEF Row
  <2> QED BY <1>4, <2>1, <2>2
<1>6. Is(t)
  <2> SUFFICES ASSUME NEW i \in 0..m
               PROVE  t[i] = IF i = 0 THEN first ELSE next_row(a, b, t[i - 1], i)
    BY Zenon
  <2>1. CASE i = 0
    BY <1>4, <2>1
  <2>2. CASE i # 0
    <3>1. i \in 1..m
      BY <1>1, <2>2
    <3> QED BY <1>5, <2>2, <3>1
  <2> QED BY <2>1, <2>2
<1> HIDE DEF step
<1>7. \A h : Is(h) => h = t
  <2> SUFFICES ASSUME NEW h, Is(h) PROVE h = t
    OBVIOUS
  <2> DEFINE Bad == {i \in Nat : i <= m /\ h[i] # t[i]}
  <2>1. Bad = {}
    <3> SUFFICES ASSUME Bad # {} PROVE FALSE
      OBVIOUS
    <3>1. PICK i \in Bad : \A k \in Bad : i <= k
      <4>1. Bad \in SUBSET Nat
        OBVIOUS
      <4> HIDE DEF Bad
      <4> QED BY <4>1, LeastNatural
    <3>2. i \in 0..m /\ h[i] # t[i]
      BY <1>1, <3>1
    <3>3. h[i] = IF i = 0 THEN first ELSE next_row(a, b, h[i - 1], i)
      <4> HIDE DEF first
      <4> QED BY <3>2
    <3>4. i # 0
      BY <1>4, <3>2, <3>3
    <3>5. i \in 1..m /\ i - 1 \in Nat /\ i - 1 <= m /\ ~ (i <= i - 1)
      BY <1>1, <3>2, <3>4
    <3>6. h[i - 1] = t[i - 1]
      BY <3>1, <3>5
    <3> HIDE DEF Bad, first
    <3> QED BY <1>5, <3>2, <3>3, <3>4, <3>5, <3>6
  <2>2. \A i \in 0..m : h[i] = t[i]
    <3> SUFFICES ASSUME NEW i \in 0..m, h[i] # t[i] PROVE FALSE
      OBVIOUS
    <3>1. i \in Nat /\ i <= m
      BY <1>1
    <3>2. i \in Bad
      BY <3>1
    <3> QED BY <2>1, <3>2
  <2>3. h = [i \in 0..m |-> h[i]] /\ t = [i \in 0..m |-> t[i]]
    OBVIOUS
  <2> QED BY <2>2, <2>3
<1>8. last_row(a, b) = t[m]
  <2>1. last_row(a, b) = (CHOOSE h : Is(h))[m]
    BY DEF last_row
  <2>2. (CHOOSE h : Is(h)) = t
    <3> HIDE DEF Is
    <3> QED BY <1>6, <1>7
  <2> QED BY <2>1, <2>2
<1>9. IsTable(t, a, b)
  <2>1. \A j \in 0..n : t[0][j] = j
    BY <1>4
  <2>2. \A i \in 0..m : t[i][0] = i
    <3> SUFFICES ASSUME NEW i \in 0..m PROVE t[i][0] = i
      OBVIOUS
    <3>1. CASE i = 0
      BY <1>1, <2>1, <3>1
    <3>2. CASE i # 0
      <4>1. i \in 1..m
        BY <1>1, <3>2
      <4>2. t[i - 1] \in Row /\ i \in Nat /\ t[i] = next_row(a, b, t[i - 1], i)
        BY <1>5, <4>1, Zenon
      <4> HIDE DEF Row, first
      <4>3. next_row(a, b, t[i - 1], i)[0] = i
        BY <1>3, <4>2, Zenon
      <4> QED BY <4>2, <4>3, Zenon
    <3> QED BY <3>1, <3>2
  <2>3. ASSUME NEW i \in 1..m, NEW j \in 1..n
        PROVE  /\ t[i][j] <= t[i - 1][j] + 1
               /\ t[i][j] <= t[i][j - 1] + 1
               /\ t[i][j] <= t[i - 1][j - 1] + Cost(a, b, i, j)
               /\ t[i][j] \in {t[i - 1][j] + 1, t[i][j - 1] + 1,
                               t[i - 1][j - 1] + Cost(a, b, i, j)}
    BY <1>5, NextRowIs
  <2> QED BY <2>1, <2>2, <2>3 DEF IsTable
<1> QED BY <1>8, <1>9

(***************************************************************************)
(* What holds of an entry if it holds of the entries before it in its row  *)
(* and column holds of all.                                                *)
(***************************************************************************)
LEMMA GridInduction ==
  ASSUME NEW P, NEW m \in Nat, NEW n \in Nat,
         \A i \in 0..m, j \in 0..n :
           /\ i > 0 => <<i - 1, j>> \in P
           /\ j > 0 => <<i, j - 1>> \in P
           /\ i > 0 /\ j > 0 => <<i - 1, j - 1>> \in P
           => <<i, j>> \in P
  PROVE  \A i \in 0..m, j \in 0..n : <<i, j>> \in P
<1> DEFINE Bad == {s \in Nat : \E i \in 0..m, j \in 0..n : i + j = s /\ <<i, j>> \notin P}
<1>1. SUFFICES ASSUME Bad # {} PROVE FALSE
  <2>1. ASSUME NEW i \in 0..m, NEW j \in 0..n, <<i, j>> \notin P
        PROVE  i + j \in Bad
    <3>1. i + j \in Nat
      OBVIOUS
    <3> QED BY <2>1, <3>1
  <2> HIDE DEF Bad
  <2> QED BY <2>1
<1>2. PICK s \in Bad : \A k \in Bad : s <= k
  <2>1. Bad \in SUBSET Nat
    OBVIOUS
  <2> HIDE DEF Bad
  <2> QED BY <1>1, <2>1, LeastNatural
<1>3. PICK i \in 0..m, j \in 0..n : i + j = s /\ <<i, j>> \notin P
  BY <1>2
<1>4. ASSUME NEW k \in 0..m, NEW l \in 0..n, k + l < s
      PROVE  <<k, l>> \in P
  <2>1. k + l \in Nat /\ s \in Nat
    BY <1>2
  <2>2. k + l \notin Bad
    <3> HIDE DEF Bad
    <3> QED BY <1>2, <1>4, <2>1
  <2> QED BY <2>1, <2>2
<1>5. i > 0 => i - 1 \in 0..m /\ (i - 1) + j < s
  BY <1>3
<1>6. j > 0 => j - 1 \in 0..n /\ i + (j - 1) < s
  BY <1>3
<1>7. i > 0 /\ j > 0 => (i - 1) + (j - 1) < s
  BY <1>3
<1> HIDE DEF Bad
<1> QED BY <1>3, <1>4, <1>5, <1>6, <1>7

(***************************************************************************)
(* An entry is at most one more than its neighbours, on the borders too.   *)
(***************************************************************************)
LEMMA TableFacts ==
  ASSUME NEW S, NEW a \in Seq(S), NEW b \in Seq(S), NEW t, IsTable(t, a, b)
  PROVE  /\ Len(a) \in Nat /\ Len(b) \in Nat
         /\ \A i \in 0..Len(a), j \in 0..Len(b) : t[i][j] \in Nat
         /\ \A i \in 1..Len(a), j \in 0..Len(b) : t[i][j] <= t[i - 1][j] + 1
         /\ \A i \in 0..Len(a), j \in 1..Len(b) : t[i][j] <= t[i][j - 1] + 1
<1> DEFINE m == Len(a)
           n == Len(b)
<1>1. m \in Nat /\ n \in Nat
  OBVIOUS
<1>2. /\ \A i \in 0..m, j \in 0..n : t[i][j] \in Nat
      /\ \A j \in 0..n : t[0][j] = j
      /\ \A i \in 0..m : t[i][0] = i
      /\ \A i \in 1..m, j \in 1..n :
           t[i][j] <= t[i - 1][j] + 1 /\ t[i][j] <= t[i][j - 1] + 1
  BY DEF IsTable
<1> HIDE DEF m, n
<1>3. ASSUME NEW i \in 1..m, NEW j \in 0..n
      PROVE  t[i][j] <= t[i - 1][j] + 1
  <2>1. CASE j = 0
    <3>1. i \in 0..m /\ i - 1 \in 0..m
      BY <1>1
    <3>2. t[i][j] = i /\ t[i - 1][j] = i - 1
      BY <1>2, <2>1, <3>1
    <3> QED BY <1>1, <3>2
  <2>2. CASE j # 0
    <3>1. j \in 1..n
      BY <1>1, <2>2
    <3> QED BY <1>2, <3>1
  <2> QED BY <2>1, <2>2
<1>4. ASSUME NEW i \in 0..m, NEW j \in 1..n
      PROVE  t[i][j] <= t[i][j - 1] + 1
  <2>1. CASE i = 0
    <3>1. j \in 0..n /\ j - 1 \in 0..n
      BY <1>1
    <3>2. t[i][j] = j /\ t[i][j - 1] = j - 1
      BY <1>2, <2>1, <3>1
    <3> QED BY <1>1, <3>2
  <2>2. CASE i # 0
    <3>1. i \in 1..m
      BY <1>1, <2>2
    <3> QED BY <1>2, <3>1
  <2> QED BY <2>1, <2>2
<1> QED BY <1>1, <1>2, <1>3, <1>4 DEF m, n

(***************************************************************************)
(* One letter less to explain, or to explain by, costs at most one more.   *)
(***************************************************************************)
LEMMA Adjacent ==
  ASSUME NEW S, NEW a \in Seq(S), NEW b \in Seq(S), NEW t, IsTable(t, a, b)
  PROVE  /\ \A i \in 0..Len(a), j \in 1..Len(b) : t[i][j - 1] <= t[i][j] + 1
         /\ \A i \in 1..Len(a), j \in 0..Len(b) : t[i - 1][j] <= t[i][j] + 1
<1> DEFINE m == Len(a)
           n == Len(b)
           Close(i, j) == /\ j > 0 => t[i][j - 1] <= t[i][j] + 1
                          /\ i > 0 => t[i - 1][j] <= t[i][j] + 1
           P == {p \in (0..m) \X (0..n) : Close(p[1], p[2])}
<1>1. /\ m \in Nat /\ n \in Nat
      /\ \A i \in 0..m, j \in 0..n : t[i][j] \in Nat
      /\ \A i \in 1..m, j \in 0..n : t[i][j] <= t[i - 1][j] + 1
      /\ \A i \in 0..m, j \in 1..n : t[i][j] <= t[i][j - 1] + 1
  BY TableFacts
<1>2. /\ \A j \in 0..n : t[0][j] = j
      /\ \A i \in 0..m : t[i][0] = i
      /\ \A i \in 1..m, j \in 1..n :
           t[i][j] \in {t[i - 1][j] + 1, t[i][j - 1] + 1, t[i - 1][j - 1] + Cost(a, b, i, j)}
  BY DEF IsTable
<1>3. \A i, j : Cost(a, b, i, j) \in {0, 1}
  BY DEF Cost
<1> HIDE DEF m, n
<1>4. ASSUME NEW i \in 0..m, NEW j \in 0..n,
             i > 0 => Close(i - 1, j), j > 0 => Close(i, j - 1)
      PROVE  Close(i, j)
  <2>1. CASE i = 0
    <3>1. j > 0 => j - 1 \in 0..n
      BY <1>1
    <3>2. j > 0 => t[i][j - 1] = j - 1 /\ t[i][j] = j
      BY <1>2, <2>1, <3>1
    <3> QED BY <1>1, <2>1, <3>2
  <2>2. CASE j = 0
    <3>1. i > 0 => i - 1 \in 0..m
      BY <1>1
    <3>2. i > 0 => t[i - 1][j] = i - 1 /\ t[i][j] = i
      BY <1>2, <2>2, <3>1
    <3> QED BY <1>1, <2>2, <3>2
  <2>3. CASE i # 0 /\ j # 0
    <3>1. i \in 1..m /\ j \in 1..n /\ i - 1 \in 0..m /\ j - 1 \in 0..n /\ i > 0 /\ j > 0
      BY <1>1, <2>3
    <3> DEFINE A == t[i - 1][j - 1]
               B == t[i - 1][j]
               C == t[i][j - 1]
               D == t[i][j]
               c == Cost(a, b, i, j)
    <3>2. A \in Nat /\ B \in Nat /\ C \in Nat /\ D \in Nat
      BY <1>1, <3>1
    <3>3. C <= A + 1 /\ B <= A + 1
      BY <1>1, <3>1
    <3>4. A <= B + 1 /\ A <= C + 1
      BY <1>4, <3>1
    <3>5. D = B + 1 \/ D = C + 1 \/ D = A + c
      BY <1>2, <3>1
    <3>6. c = 0 \/ c = 1
      BY <1>3
    <3> HIDE DEF A, B, C, D, c
    <3>7. C <= D + 1 /\ B <= D + 1
      BY <3>2, <3>3, <3>4, <3>5, <3>6
    <3> QED BY <3>7 DEF B, C, D
  <2> QED BY <2>1, <2>2, <2>3
<1> HIDE DEF Close
<1>5. ASSUME NEW i \in 0..m, NEW j \in 0..n,
             i > 0 => <<i - 1, j>> \in P, j > 0 => <<i, j - 1>> \in P
      PROVE  <<i, j>> \in P
  BY <1>4, <1>5
<1>6. \A i \in 0..m, j \in 0..n : <<i, j>> \in P
  <2> HIDE DEF P
  <2> QED BY <1>1, <1>5, GridInduction
<1>7. \A i \in 0..m, j \in 0..n : Close(i, j)
  BY <1>6
<1>8. \A k \in 1..m : k \in 0..m /\ k > 0
  BY <1>1
<1>9. \A k \in 1..n : k \in 0..n /\ k > 0
  BY <1>1
<1> QED BY <1>7, <1>8, <1>9 DEF Close, m, n

(***************************************************************************)
(* What is known of an entry inside a table.                               *)
(***************************************************************************)
LEMMA Inside ==
  ASSUME NEW S, NEW a \in Seq(S), NEW b \in Seq(S), NEW t, IsTable(t, a, b),
         NEW i \in 0..Len(a), NEW j \in 0..Len(b), i # 0, j # 0
  PROVE  /\ i \in 1..Len(a) /\ j \in 1..Len(b) /\ i > 0 /\ j > 0
         /\ i - 1 \in 0..Len(a) /\ j - 1 \in 0..Len(b)
         /\ t[i - 1][j - 1] \in Nat /\ t[i - 1][j] \in Nat
         /\ t[i][j - 1] \in Nat /\ t[i][j] \in Nat
         /\ Cost(a, b, i, j) \in {0, 1}
         /\ t[i][j] <= t[i - 1][j] + 1
         /\ t[i][j] <= t[i][j - 1] + 1
         /\ t[i][j] <= t[i - 1][j - 1] + Cost(a, b, i, j)
         /\ \/ t[i][j] = t[i - 1][j] + 1
            \/ t[i][j] = t[i][j - 1] + 1
            \/ t[i][j] = t[i - 1][j - 1] + Cost(a, b, i, j)
<1>1. Len(a) \in Nat /\ Len(b) \in Nat
  OBVIOUS
<1>2. /\ i \in 1..Len(a) /\ j \in 1..Len(b) /\ i > 0 /\ j > 0
      /\ i - 1 \in 0..Len(a) /\ j - 1 \in 0..Len(b)
  BY <1>1
<1>3. Cost(a, b, i, j) \in {0, 1}
  BY DEF Cost
<1>4. /\ t[i - 1][j - 1] \in Nat /\ t[i - 1][j] \in Nat
      /\ t[i][j - 1] \in Nat /\ t[i][j] \in Nat
  BY <1>2, TableFacts
<1> QED BY <1>2, <1>3, <1>4 DEF IsTable

(***************************************************************************)
(* The borders of a table.                                                 *)
(***************************************************************************)
LEMMA Borders ==
  ASSUME NEW S, NEW a \in Seq(S), NEW b \in Seq(S), NEW t, IsTable(t, a, b)
  PROVE  /\ \A j \in 0..Len(b) : t[0][j] = j
         /\ \A i \in 0..Len(a) : t[i][0] = i
BY DEF IsTable

\* Two texts have the same first k letters.
Agree(b, c, k) ==
  k \in Nat /\ k <= Len(b) /\ k <= Len(c) /\ \A j \in 1..k : b[j] = c[j]

(***************************************************************************)
(* Up to a column, a table depends on the letters up to it.                *)
(***************************************************************************)
LEMMA Prefix ==
  ASSUME NEW S, NEW a \in Seq(S), NEW b \in Seq(S), NEW c \in Seq(S),
         NEW t, IsTable(t, a, b), NEW u, IsTable(u, a, c),
         NEW k, Agree(b, c, k)
  PROVE  \A i \in 0..Len(a), j \in 0..k : t[i][j] = u[i][j]
<1> DEFINE m == Len(a)
           P == {p \in (0..m) \X (0..k) : t[p[1]][p[2]] = u[p[1]][p[2]]}
<1>0. k \in Nat /\ k <= Len(b) /\ k <= Len(c) /\ \A j \in 1..k : b[j] = c[j]
  BY DEF Agree
<1>1. m \in Nat /\ 0..k \subseteq 0..Len(b) /\ 0..k \subseteq 0..Len(c)
  <2>1. Len(a) \in Nat /\ Len(b) \in Nat /\ Len(c) \in Nat
    OBVIOUS
  <2> QED BY <1>0, <2>1
<1>2. ASSUME NEW i \in 0..m, NEW j \in 0..k,
             i > 0 => <<i - 1, j>> \in P, j > 0 => <<i, j - 1>> \in P,
             i > 0 /\ j > 0 => <<i - 1, j - 1>> \in P
      PROVE  <<i, j>> \in P
  <2>0. j \in 0..Len(b) /\ j \in 0..Len(c)
    BY <1>1
  <2>1. CASE i = 0
    BY <2>0, <2>1, Borders
  <2>2. CASE j = 0
    BY <2>0, <2>2, Borders
  <2>3. CASE i # 0 /\ j # 0
    <3>1. Cost(a, b, i, j) = Cost(a, c, i, j)
      <4>1. j \in 1..k
        BY <1>0, <2>3
      <4>2. b[j] = c[j]
        BY <1>0, <4>1
      <4> QED BY <4>2 DEF Cost
    <3>2. i > 0 /\ j > 0
      BY <1>0, <1>1, <2>3
    <3>3. /\ t[i - 1][j] = u[i - 1][j] /\ t[i][j - 1] = u[i][j - 1]
          /\ t[i - 1][j - 1] = u[i - 1][j - 1]
      BY <1>2, <3>2
    <3> DEFINE A == t[i - 1][j - 1]
               B == t[i - 1][j]
               C == t[i][j - 1]
               D == t[i][j]
               E == u[i][j]
               cost == Cost(a, b, i, j)
    <3>4. /\ A \in Nat /\ B \in Nat /\ C \in Nat /\ D \in Nat /\ cost \in {0, 1}
          /\ D <= B + 1 /\ D <= C + 1 /\ D <= A + cost
          /\ D = B + 1 \/ D = C + 1 \/ D = A + cost
      BY <2>0, <2>3, Inside
    <3>5. /\ E \in Nat /\ E <= B + 1 /\ E <= C + 1 /\ E <= A + cost
          /\ E = B + 1 \/ E = C + 1 \/ E = A + cost
      <4> HIDE DEF m, P
      <4> QED BY <2>0, <2>3, <3>1, <3>3, Inside DEF m
    <3> HIDE DEF A, B, C, D, E, cost
    <3>6. D = E
      BY <3>4, <3>5
    <3> QED BY <3>6 DEF D, E
  <2> QED BY <2>1, <2>2, <2>3
<1>3. \A i \in 0..m, j \in 0..k : <<i, j>> \in P
  <2> HIDE DEF P, m
  <2> QED BY <1>0, <1>1, <1>2, GridInduction
<1> QED BY <1>3

(***************************************************************************)
(* Beyond a column, a table depends on that column and the letters after   *)
(* it: if they are the same letters, entries stay as close as they were.   *)
(***************************************************************************)
LEMMA Shifted ==
  ASSUME NEW S, NEW a \in Seq(S), NEW b \in Seq(S), NEW c \in Seq(S),
         NEW t, IsTable(t, a, b), NEW u, IsTable(u, a, c),
         NEW p \in 0..Len(b), NEW q \in 0..Len(c), Len(b) - p = Len(c) - q,
         \A k \in 1..Len(b) - p : b[p + k] = c[q + k],
         \A i \in 0..Len(a) : u[i][q] <= t[i][p] + 1
  PROVE  u[Len(a)][Len(c)] <= t[Len(a)][Len(b)] + 1
<1> DEFINE m == Len(a)
           n == Len(b) - p
           Q == {r \in (0..m) \X (0..n) : u[r[1]][q + r[2]] <= t[r[1]][p + r[2]] + 1}
<1>1. m \in Nat /\ n \in Nat /\ Len(b) \in Nat /\ Len(c) \in Nat /\ p \in Nat /\ q \in Nat
  <2>1. Len(a) \in Nat /\ Len(b) \in Nat /\ Len(c) \in Nat
    OBVIOUS
  <2> QED BY <2>1
<1>2. ASSUME NEW i \in 0..m, NEW j \in 0..n,
             i > 0 => <<i - 1, j>> \in Q, j > 0 => <<i, j - 1>> \in Q,
             i > 0 /\ j > 0 => <<i - 1, j - 1>> \in Q
      PROVE  <<i, j>> \in Q
  <2>0. p + j \in 0..Len(b) /\ q + j \in 0..Len(c)
    BY <1>1
  <2>1. CASE j = 0
    <3>1. p + j = p /\ q + j = q
      BY <1>1, <2>1
    <3>2. u[i][q] <= t[i][p] + 1
      OBVIOUS
    <3> QED BY <3>1, <3>2
  <2>2. CASE j # 0
    <3>0. p + j # 0 /\ q + j # 0 /\ (p + j) - 1 = p + (j - 1) /\ (q + j) - 1 = q + (j - 1)
          /\ j > 0 /\ j \in 1..n
      BY <1>1, <2>2
    <3>1. u[i][q + (j - 1)] <= t[i][p + (j - 1)] + 1
      BY <1>2, <3>0
    <3>2. CASE i = 0
      <4>1. t[i][p + j] = p + j /\ u[i][q + j] = q + j
        BY <2>0, <3>2, Borders
      <4>2. p + (j - 1) \in 0..Len(b) /\ q + (j - 1) \in 0..Len(c)
        BY <1>1, <3>0
      <4>3. t[i][p + (j - 1)] = p + (j - 1) /\ u[i][q + (j - 1)] = q + (j - 1)
        BY <3>2, <4>2, Borders
      <4>4. q + (j - 1) <= p + (j - 1) + 1
        BY <3>1, <4>3
      <4>5. q + j <= p + j + 1
        BY <1>1, <3>0, <4>4
      <4> QED BY <4>1, <4>5
    <3>3. CASE i # 0
      <4>1. b[p + j] = c[q + j]
        BY <3>0
      <4>2. Cost(a, b, i, p + j) = Cost(a, c, i, q + j)
        BY <4>1 DEF Cost
      <4>3. i > 0
        BY <1>1, <3>3
      <4> DEFINE A == t[i - 1][p + (j - 1)]
                 B == t[i - 1][p + j]
                 C == t[i][p + (j - 1)]
                 D == t[i][p + j]
                 cost == Cost(a, b, i, p + j)
                 A2 == u[i - 1][q + (j - 1)]
                 B2 == u[i - 1][q + j]
                 C2 == u[i][q + (j - 1)]
                 D2 == u[i][q + j]
      <4>4. A2 <= A + 1 /\ B2 <= B + 1 /\ C2 <= C + 1
        BY <1>2, <3>0, <4>3
      <4>5. /\ A \in Nat /\ B \in Nat /\ C \in Nat /\ D \in Nat /\ cost \in {0, 1}
            /\ D = B + 1 \/ D = C + 1 \/ D = A + cost
        <5> HIDE DEF n, Q
        <5> QED BY <2>0, <3>0, <3>3, Inside
      <4>6. /\ A2 \in Nat /\ B2 \in Nat /\ C2 \in Nat /\ D2 \in Nat
            /\ D2 <= B2 + 1 /\ D2 <= C2 + 1 /\ D2 <= A2 + cost
        <5> HIDE DEF n, Q
        <5> QED BY <2>0, <3>0, <3>3, <4>2, Inside
      <4> HIDE DEF A, B, C, D, A2, B2, C2, D2, cost
      <4>7. D2 <= D + 1
        BY <4>4, <4>5, <4>6
      <4> QED BY <4>7 DEF D, D2
    <3> QED BY <3>2, <3>3
  <2> QED BY <2>1, <2>2
<1>3. \A i \in 0..m, j \in 0..n : <<i, j>> \in Q
  <2> HIDE DEF Q, m, n
  <2> QED BY <1>1, <1>2, GridInduction
<1>4. m \in 0..m /\ n \in 0..n /\ p + n = Len(b) /\ q + n = Len(c)
  BY <1>1
<1>5. u[m][q + n] <= t[m][p + n] + 1
  BY <1>3, <1>4
<1> QED BY <1>4, <1>5

\* A letter at place r of c, and b without it.
IsInsertion(b, c, r) ==
  /\ Len(c) = Len(b) + 1 /\ r \in 1..Len(c)
  /\ \A k \in 1..r - 1 : b[k] = c[k]
  /\ \A k \in r..Len(b) : b[k] = c[k + 1]

\* A letter for another at place r.
IsReplacement(b, c, r) ==
  /\ Len(c) = Len(b) /\ r \in 1..Len(b)
  /\ \A k \in 1..Len(b) : k # r => b[k] = c[k]

\* The texts of letters in S that are one error away: a letter too few, a wrong
\* letter, a letter too many.
OneError(b, S) ==
  {RemoveAt(b, r) : r \in 1..Len(b)}
    \cup {ReplaceAt(b, r, x) : r \in 1..Len(b), x \in S}
    \cup {InsertAt(b, r, x) : r \in 1..Len(b) + 1, x \in S}

(***************************************************************************)
(* One text after the other.                                               *)
(***************************************************************************)
LEMMA ConcatIs ==
  ASSUME NEW S, NEW x \in Seq(S), NEW y \in Seq(S)
  PROVE  x \o y \in Seq(S) /\ Len(x \o y) = Len(x) + Len(y)
OBVIOUS

(***************************************************************************)
(* A letter too few.                                                       *)
(***************************************************************************)
LEMMA RemovedIs ==
  ASSUME NEW S, NEW b \in Seq(S), NEW r \in 1..Len(b)
  PROVE  RemoveAt(b, r) \in Seq(S) /\ IsInsertion(RemoveAt(b, r), b, r)
<1> DEFINE x == SubSeq(b, 1, r - 1)
           y == SubSeq(b, r + 1, Len(b))
<1>1. Len(b) \in Nat /\ r \in Nat
  <2>1. Len(b) \in Nat
    OBVIOUS
  <2> QED BY <2>1
<1>2. /\ x \in Seq(S) /\ Len(x) = r - 1
      /\ \A k \in 1..r - 1 : x[k] = b[k]
  <2>1. \A k \in 1..r - 1 : k \in 1..Len(b)
    BY <1>1
  <2> QED BY <1>1, <2>1
<1>3. /\ y \in Seq(S) /\ Len(y) = Len(b) - r
      /\ \A k \in 1..Len(b) - r : y[k] = b[r + k]
  <2>1. \A k \in r + 1..Len(b) : k \in 1..Len(b)
    BY <1>1
  <2> QED BY <1>1, <2>1
<1>4. RemoveAt(b, r) = x \o y
  BY DEF RemoveAt
<1> HIDE DEF x, y
<1>5. x \o y \in Seq(S) /\ Len(x \o y) = Len(b) - 1
  <2>1. x \o y \in Seq(S) /\ Len(x \o y) = Len(x) + Len(y)
    BY <1>2, <1>3, ConcatIs
  <2> QED BY <1>1, <1>2, <1>3, <2>1
<1>6. ASSUME NEW k \in 1..r - 1 PROVE (x \o y)[k] = b[k]
  <2>1. k \in 1..Len(x) /\ k \in 1..Len(x) + Len(y)
    BY <1>1, <1>2, <1>3
  <2>2. (x \o y)[k] = x[k]
    BY <1>2, <1>3, <2>1
  <2> QED BY <1>2, <2>2
<1>7. ASSUME NEW k \in r..Len(b) - 1 PROVE (x \o y)[k] = b[k + 1]
  <2>1. k - (r - 1) \in 1..Len(b) - r /\ r + (k - (r - 1)) = k + 1
    BY <1>1
  <2>2. (x \o y)[k] = y[k - (r - 1)]
    BY <1>1, <1>2, <1>3
  <2> QED BY <1>3, <2>1, <2>2
<1>8. /\ Len(b) = Len(x \o y) + 1 /\ r \in 1..Len(b)
      /\ \A k \in 1..r - 1 : (x \o y)[k] = b[k]
      /\ \A k \in r..Len(x \o y) : (x \o y)[k] = b[k + 1]
  BY <1>1, <1>5, <1>6, <1>7
<1>9. IsInsertion(x \o y, b, r)
  BY <1>8 DEF IsInsertion
<1> QED BY <1>4, <1>5, <1>9

(***************************************************************************)
(* A letter too many.                                                      *)
(***************************************************************************)
LEMMA InsertedIs ==
  ASSUME NEW S, NEW b \in Seq(S), NEW r \in 1..Len(b) + 1, NEW e \in S
  PROVE  /\ InsertAt(b, r, e) \in Seq(S)
         /\ IsInsertion(b, InsertAt(b, r, e), r)
         /\ InsertAt(b, r, e)[r] = e
<1> DEFINE x == SubSeq(b, 1, r - 1)
           y == SubSeq(b, r, Len(b))
           z == x \o <<e>>
<1>1. Len(b) \in Nat /\ r \in Nat
  <2>1. Len(b) \in Nat
    OBVIOUS
  <2> QED BY <2>1
<1>2. /\ x \in Seq(S) /\ Len(x) = r - 1
      /\ \A k \in 1..r - 1 : x[k] = b[k]
  <2>1. \A k \in 1..r - 1 : k \in 1..Len(b)
    BY <1>1
  <2> QED BY <1>1, <2>1
<1>3. /\ y \in Seq(S) /\ Len(y) = Len(b) - r + 1
      /\ \A k \in 1..Len(b) - r + 1 : y[k] = b[r + k - 1]
  <2>1. \A k \in r..Len(b) : k \in 1..Len(b)
    BY <1>1
  <2> QED BY <1>1, <2>1
<1>4. InsertAt(b, r, e) = z \o y
  BY DEF InsertAt
<1> HIDE DEF x, y
<1>5. /\ z \in Seq(S) /\ Len(z) = r
      /\ \A k \in 1..r - 1 : z[k] = b[k]
      /\ z[r] = e
  BY <1>1, <1>2
<1> HIDE DEF z
<1>6. z \o y \in Seq(S) /\ Len(z \o y) = Len(b) + 1
  <2>1. z \o y \in Seq(S) /\ Len(z \o y) = Len(z) + Len(y)
    BY <1>3, <1>5, ConcatIs
  <2> QED BY <1>1, <1>3, <1>5, <2>1
<1>7. ASSUME NEW k \in 1..r PROVE (z \o y)[k] = z[k]
  <2>1. k \in 1..Len(z) /\ k \in 1..Len(z) + Len(y)
    BY <1>1, <1>3, <1>5
  <2> QED BY <1>3, <1>5, <2>1
<1>8. ASSUME NEW k \in r..Len(b) PROVE (z \o y)[k + 1] = b[k]
  <2>1. k + 1 - r \in 1..Len(b) - r + 1 /\ r + (k + 1 - r) - 1 = k
    BY <1>1
  <2>2. (z \o y)[k + 1] = y[k + 1 - r]
    BY <1>1, <1>3, <1>5
  <2> QED BY <1>3, <2>1, <2>2
<1>9. \A k \in 1..r - 1 : (z \o y)[k] = b[k]
  BY <1>1, <1>5, <1>7
<1>10. r \in 1..Len(z \o y) /\ (z \o y)[r] = e
  BY <1>1, <1>5, <1>6, <1>7
<1>11. IsInsertion(b, z \o y, r)
  BY <1>6, <1>8, <1>9, <1>10 DEF IsInsertion
<1> QED BY <1>4, <1>6, <1>10, <1>11

(***************************************************************************)
(* A wrong letter.                                                         *)
(***************************************************************************)
LEMMA ReplacedIs ==
  ASSUME NEW S, NEW b \in Seq(S), NEW r \in 1..Len(b), NEW e \in S
  PROVE  /\ ReplaceAt(b, r, e) \in Seq(S)
         /\ IsReplacement(b, ReplaceAt(b, r, e), r)
         /\ ReplaceAt(b, r, e)[r] = e
BY DEF ReplaceAt, IsReplacement

(***************************************************************************)
(* A text one error away has a letter more, a letter less or a different   *)
(* one somewhere.                                                          *)
(***************************************************************************)
LEMMA OneErrorIs ==
  ASSUME NEW S, NEW b \in Seq(S), NEW c \in OneError(b, S)
  PROVE  /\ c \in Seq(S)
         /\ \E r : IsInsertion(b, c, r) \/ IsInsertion(c, b, r) \/ IsReplacement(b, c, r)
<1>1. CASE \E r \in 1..Len(b) : c = RemoveAt(b, r)
  BY <1>1, RemovedIs
<1>2. CASE \E r \in 1..Len(b), x \in S : c = ReplaceAt(b, r, x)
  BY <1>2, ReplacedIs
<1>3. CASE \E r \in 1..Len(b) + 1, x \in S : c = InsertAt(b, r, x)
  BY <1>3, InsertedIs
<1> QED BY <1>1, <1>2, <1>3 DEF OneError

(***************************************************************************)
(* One letter more changes the last entry by at most one.                  *)
(***************************************************************************)
LEMMA InsertionClose ==
  ASSUME NEW S, NEW a \in Seq(S), NEW b \in Seq(S), NEW c \in Seq(S),
         NEW t, IsTable(t, a, b), NEW u, IsTable(u, a, c),
         NEW r, IsInsertion(b, c, r)
  PROVE  /\ u[Len(a)][Len(c)] <= t[Len(a)][Len(b)] + 1
         /\ t[Len(a)][Len(b)] <= u[Len(a)][Len(c)] + 1
<1>1. Len(a) \in Nat /\ Len(b) \in Nat /\ Len(c) \in Nat
  OBVIOUS
<1>2. /\ Len(c) = Len(b) + 1 /\ r \in 1..Len(c) /\ r \in Nat
      /\ r - 1 \in Nat /\ r - 1 <= Len(b) /\ r - 1 <= Len(c)
      /\ r - 1 \in 0..Len(b) /\ r - 1 \in 0..Len(c) /\ r \in 0..Len(c)
      /\ r - 1 \in 0..r - 1
      /\ Len(b) - (r - 1) = Len(c) - r
  BY <1>1 DEF IsInsertion
<1>3. \A i \in 0..Len(a) : t[i][r - 1] = u[i][r - 1]
  <2>1. Agree(b, c, r - 1)
    BY <1>2 DEF IsInsertion, Agree
  <2>2. \A i \in 0..Len(a), j \in 0..r - 1 : t[i][j] = u[i][j]
    BY <2>1, Prefix
  <2> QED BY <1>2, <2>2
<1>4. /\ \A k \in 1..Len(b) - (r - 1) : b[(r - 1) + k] = c[r + k]
      /\ \A k \in 1..Len(c) - r : c[r + k] = b[(r - 1) + k]
  <2>1. ASSUME NEW k \in 1..Len(b) - (r - 1)
        PROVE  b[(r - 1) + k] = c[r + k]
    <3>1. (r - 1) + k \in r..Len(b) /\ ((r - 1) + k) + 1 = r + k
      BY <1>1, <1>2
    <3> QED BY <3>1 DEF IsInsertion
  <2> QED BY <1>2, <2>1
<1>5. ASSUME NEW i \in 0..Len(a)
      PROVE  u[i][r] <= t[i][r - 1] + 1 /\ t[i][r - 1] <= u[i][r] + 1
  <2>1. u[i][r] <= u[i][r - 1] + 1
    BY <1>2, TableFacts
  <2>2. u[i][r - 1] <= u[i][r] + 1
    BY <1>2, Adjacent
  <2> QED BY <1>3, <2>1, <2>2
<1>6. u[Len(a)][Len(c)] <= t[Len(a)][Len(b)] + 1
  BY <1>2, <1>4, <1>5, Shifted
<1>7. t[Len(a)][Len(b)] <= u[Len(a)][Len(c)] + 1
  BY <1>2, <1>4, <1>5, Shifted
<1> QED BY <1>6, <1>7

(***************************************************************************)
(* One other letter changes the last entry by at most one.                 *)
(***************************************************************************)
LEMMA ReplacementClose ==
  ASSUME NEW S, NEW a \in Seq(S), NEW b \in Seq(S), NEW c \in Seq(S),
         NEW t, IsTable(t, a, b), NEW u, IsTable(u, a, c),
         NEW r, IsReplacement(b, c, r)
  PROVE  u[Len(a)][Len(c)] <= t[Len(a)][Len(b)] + 1
<1> DEFINE m == Len(a)
           P == {p \in (0..m) \X (0..0) : u[p[1]][r] <= t[p[1]][r] + 1}
<1>1. Len(a) \in Nat /\ Len(b) \in Nat /\ Len(c) \in Nat
  OBVIOUS
<1>2. /\ Len(c) = Len(b) /\ r \in 1..Len(c) /\ r \in 1..Len(b) /\ r \in Nat /\ r # 0
      /\ r - 1 \in Nat /\ r - 1 <= Len(b) /\ r - 1 <= Len(c)
      /\ r \in 0..Len(b) /\ r \in 0..Len(c)
      /\ r - 1 \in 0..r - 1
      /\ Len(b) - r = Len(c) - r
  BY <1>1 DEF IsReplacement
<1>3. \A i \in 0..m : t[i][r - 1] = u[i][r - 1]
  <2>1. Agree(b, c, r - 1)
    BY <1>1, <1>2 DEF IsReplacement, Agree
  <2>2. \A i \in 0..Len(a), j \in 0..r - 1 : t[i][j] = u[i][j]
    BY <2>1, Prefix
  <2> QED BY <1>2, <2>2
<1>4. \A k \in 1..Len(b) - r : b[r + k] = c[r + k]
  <2> SUFFICES ASSUME NEW k \in 1..Len(b) - r PROVE b[r + k] = c[r + k]
    OBVIOUS
  <2>1. r + k \in 1..Len(b) /\ r + k # r
    BY <1>1, <1>2
  <2> QED BY <2>1 DEF IsReplacement
<1>5. ASSUME NEW i \in 0..m, NEW j \in 0..0, i > 0 => <<i - 1, j>> \in P
      PROVE  <<i, j>> \in P
  <2>1. CASE i = 0
    <3>1. u[i][r] = r /\ t[i][r] = r
      BY <1>2, <2>1, Borders
    <3> QED BY <1>2, <3>1
  <2>2. CASE i # 0
    <3>1. i > 0 /\ i - 1 \in 0..m
      BY <1>1, <2>2
    <3> DEFINE A == t[i - 1][r - 1]
               B == t[i - 1][r]
               C == t[i][r - 1]
               D == t[i][r]
               E == u[i - 1][r]
               F == u[i][r]
    <3>2. E <= B + 1
      BY <1>5, <3>1
    <3>3. A = u[i - 1][r - 1] /\ C = u[i][r - 1]
      BY <1>3, <3>1
    <3>4. /\ A \in Nat /\ B \in Nat /\ C \in Nat /\ D \in Nat
          /\ \/ D = B + 1 \/ D = C + 1
             \/ D = A + 0 \/ D = A + 1
      <4> DEFINE cost == Cost(a, b, i, r)
      <4>1. /\ A \in Nat /\ B \in Nat /\ C \in Nat /\ D \in Nat /\ cost \in {0, 1}
            /\ D = B + 1 \/ D = C + 1 \/ D = A + cost
        <5> HIDE DEF m, P
        <5> QED BY <1>2, <2>2, Inside DEF m
      <4> HIDE DEF A, B, C, D, cost
      <4> QED BY <4>1
    <3>5. E \in Nat /\ F \in Nat /\ F <= E + 1 /\ F <= C + 1 /\ (F <= A + 0 \/ F <= A + 1)
      <4>1. /\ u[i - 1][r - 1] \in Nat /\ u[i][r - 1] \in Nat
            /\ E \in Nat /\ F \in Nat /\ F <= E + 1 /\ F <= u[i][r - 1] + 1
            /\ Cost(a, c, i, r) \in {0, 1} /\ F <= u[i - 1][r - 1] + Cost(a, c, i, r)
        <5> HIDE DEF m, P
        <5> QED BY <1>2, <2>2, Inside DEF m
      <4> HIDE DEF A, C
      <4> QED BY <3>3, <4>1
    <3> HIDE DEF A, B, C, D, E, F
    <3>6. F <= D + 1
      BY <3>2, <3>4, <3>5
    <3> QED BY <3>6 DEF F, D
  <2> QED BY <2>1, <2>2
<1>6. \A i \in 0..m, j \in 0..0 : <<i, j>> \in P
  <2>1. m \in Nat /\ 0 \in Nat
    BY <1>1
  <2> HIDE DEF m, P
  <2> QED BY <1>5, <2>1, GridInduction
<1>7. \A i \in 0..m : u[i][r] <= t[i][r] + 1
  <2>1. 0 \in 0..0
    OBVIOUS
  <2> QED BY <1>6, <2>1
<1> QED BY <1>2, <1>4, <1>7, Shifted

(***************************************************************************)
(* One error changes the last entry by at most one.                        *)
(***************************************************************************)
LEMMA ErrorClose ==
  ASSUME NEW S, NEW a \in Seq(S), NEW b \in Seq(S), NEW c \in OneError(b, S),
         NEW t, IsTable(t, a, b), NEW u, IsTable(u, a, c)
  PROVE  /\ u[Len(a)][Len(c)] <= t[Len(a)][Len(b)] + 1
         /\ t[Len(a)][Len(b)] <= u[Len(a)][Len(c)] + 1
<1>1. c \in Seq(S)
  BY OneErrorIs
<1>2. PICK r : IsInsertion(b, c, r) \/ IsInsertion(c, b, r) \/ IsReplacement(b, c, r)
  BY OneErrorIs
<1>3. CASE IsInsertion(b, c, r)
  BY <1>1, <1>3, InsertionClose
<1>4. CASE IsInsertion(c, b, r)
  BY <1>1, <1>4, InsertionClose
<1>5. CASE IsReplacement(b, c, r)
  <2>1. IsReplacement(c, b, r)
    BY <1>5 DEF IsReplacement
  <2> QED BY <1>1, <1>5, <2>1, ReplacementClose
<1> QED BY <1>2, <1>3, <1>4, <1>5

(***************************************************************************)
(* The tables of two texts agree, and equal texts cost nothing: all three  *)
(* ways in which _edit_distance returns give the last entry of the table.  *)
(***************************************************************************)
LEMMA DistanceIsEntry ==
  ASSUME NEW S, NEW a \in Seq(S), NEW b \in Seq(S), NEW t, IsTable(t, a, b)
  PROVE  edit_distance(a, b) = t[Len(a)][Len(b)] /\ edit_distance(a, b) \in Nat
<1>1. Len(a) \in Nat /\ Len(b) \in Nat /\ Len(a) \in 0..Len(a) /\ Len(b) \in 0..Len(b)
  <2>1. Len(a) \in Nat /\ Len(b) \in Nat
    OBVIOUS
  <2> QED BY <2>1
<1>2. t[Len(a)][Len(b)] \in Nat
  BY <1>1, TableFacts
<1>3. CASE a = b
  <2> DEFINE P == {p \in (0..Len(a)) \X (0..0) : t[p[1]][p[1]] = 0}
  <2>1. ASSUME NEW i \in 0..Len(a), NEW j \in 0..0, i > 0 => <<i - 1, j>> \in P
        PROVE  <<i, j>> \in P
    <3>1. CASE i = 0
      BY <1>1, <3>1, Borders
    <3>2. CASE i # 0
      <4>1. i > 0 /\ i - 1 \in 0..Len(a) /\ i \in 0..Len(b)
        BY <1>1, <1>3, <3>2
      <4>2. t[i - 1][i - 1] = 0
        BY <2>1, <4>1
      <4>3. Cost(a, b, i, i) = 0
        BY <1>3 DEF Cost
      <4>4. t[i][i] \in Nat /\ t[i][i] <= t[i - 1][i - 1] + Cost(a, b, i, i)
        BY <3>2, <4>1, Inside
      <4>5. t[i][i] = 0
        BY <4>2, <4>3, <4>4
      <4> QED BY <4>5
    <3> QED BY <3>1, <3>2
  <2>2. \A i \in 0..Len(a), j \in 0..0 : <<i, j>> \in P
    <3> HIDE DEF P
    <3> QED BY <1>1, <2>1, 0 \in Nat, GridInduction
  <2>3. t[Len(a)][Len(a)] = 0
    BY <1>1, <2>2, 0 \in 0..0
  <2> QED BY <1>3, <2>3 DEF edit_distance
<1>4. CASE a # b /\ (a = <<>> \/ b = <<>>)
  <2>1. edit_distance(a, b) = Len(a) + Len(b)
    BY <1>4 DEF edit_distance
  <2>2. CASE a = <<>>
    <3>1. t[0][Len(b)] = Len(b)
      BY <1>1, Borders
    <3>2. Len(a) = 0
      BY <2>2
    <3> QED BY <1>1, <2>1, <3>1, <3>2
  <2>3. CASE b = <<>>
    <3>1. t[Len(a)][0] = Len(a)
      BY <1>1, Borders
    <3>2. Len(b) = 0
      BY <2>3
    <3> QED BY <1>1, <2>1, <3>1, <3>2
  <2> QED BY <1>4, <2>2, <2>3
<1>5. CASE a # b /\ a # <<>> /\ b # <<>>
  <2>1. PICK u : IsTable(u, a, b) /\ last_row(a, b) = u[Len(a)]
    BY TableExists
  <2>2. Agree(b, b, Len(b))
    BY <1>1 DEF Agree
  <2>3. \A i \in 0..Len(a), j \in 0..Len(b) : t[i][j] = u[i][j]
    BY <2>1, <2>2, Prefix
  <2>4. edit_distance(a, b) = u[Len(a)][Len(b)]
    BY <1>5, <2>1 DEF edit_distance
  <2> QED BY <1>1, <1>2, <2>3, <2>4
<1> QED BY <1>2, <1>3, <1>4, <1>5

(***************************************************************************)
(* Texts of different letters are not at distance 0.                       *)
(***************************************************************************)
LEMMA ZeroIsEqual ==
  ASSUME NEW S, NEW a \in Seq(S), NEW b \in Seq(S)
  PROVE  edit_distance(a, b) = 0 <=> a = b
<1>1. PICK t : IsTable(t, a, b)
  BY TableExists
<1> DEFINE m == Len(a)
           n == Len(b)
           Same(i, j) == t[i][j] = 0 => i = j /\ \A k \in 1..i : a[k] = b[k]
           P == {p \in (0..m) \X (0..n) : Same(p[1], p[2])}
<1>2. m \in Nat /\ n \in Nat
  OBVIOUS
<1>3. ASSUME NEW i \in 0..m, NEW j \in 0..n, i > 0 /\ j > 0 => Same(i - 1, j - 1)
      PROVE  Same(i, j)
  <2>1. CASE i = 0
    BY <1>2, <2>1, <1>1, Borders
  <2>2. CASE j = 0 /\ i # 0
    <3>1. t[i][j] = i
      BY <1>1, <2>2, Borders
    <3> QED BY <2>2, <3>1
  <2>3. CASE i # 0 /\ j # 0
    <3> SUFFICES ASSUME t[i][j] = 0 PROVE i = j /\ \A k \in 1..i : a[k] = b[k]
      OBVIOUS
    <3> DEFINE A == t[i - 1][j - 1]
               B == t[i - 1][j]
               C == t[i][j - 1]
               cost == Cost(a, b, i, j)
    <3>1. /\ A \in Nat /\ B \in Nat /\ C \in Nat /\ cost \in {0, 1}
          /\ 0 = B + 1 \/ 0 = C + 1 \/ 0 = A + cost
      <4>1. i \in 0..Len(a) /\ i # 0 /\ j \in 0..Len(b) /\ j # 0
        BY <2>3
      <4> HIDE DEF P, Same, m, n
      <4> QED BY <1>1, <4>1, Inside, SMTT(30)
    <3>2. A = 0 /\ cost = 0
      <4> HIDE DEF A, B, C, cost
      <4> QED BY <3>1
    <3>3. a[i] = b[j]
      BY <3>2 DEF Cost
    <3>4. i > 0 /\ j > 0 /\ i \in Nat /\ j \in Nat
      BY <1>2, <2>3
    <3>5. i - 1 = j - 1 /\ \A k \in 1..i - 1 : a[k] = b[k]
      BY <1>3, <3>2, <3>4
    <3>6. i = j
      BY <3>4, <3>5
    <3>7. ASSUME NEW k \in 1..i PROVE a[k] = b[k]
      <4>1. k = i \/ k \in 1..i - 1
        BY <3>4
      <4> QED BY <3>3, <3>5, <3>6, <4>1
    <3> QED BY <3>6, <3>7
  <2> QED BY <2>1, <2>2, <2>3
<1> HIDE DEF Same
<1>4. \A i \in 0..m, j \in 0..n : <<i, j>> \in P
  <2>1. ASSUME NEW i \in 0..m, NEW j \in 0..n, i > 0 /\ j > 0 => <<i - 1, j - 1>> \in P
        PROVE  <<i, j>> \in P
    BY <1>3, <2>1
  <2> HIDE DEF P, m, n
  <2> QED BY <1>2, <2>1, GridInduction
<1>5. m \in 0..m /\ n \in 0..n
  BY <1>2
<1>6. Same(m, n)
  BY <1>4, <1>5
<1>7. edit_distance(a, b) = t[m][n]
  BY <1>1, DistanceIsEntry
<1>8. a = b => edit_distance(a, b) = 0
  BY DEF edit_distance
<1>9. ASSUME m = n, \A k \in 1..m : a[k] = b[k] PROVE a = b
  BY <1>9
<1> QED BY <1>6, <1>7, <1>8, <1>9 DEF Same

\* From text b one error leads to a text at a smaller entry: the letters after
\* place j stay, and the others are one less from the first i of a.
Nearer(S, a, b, t, i, j) ==
  \E c \in OneError(b, S), l \in Nat :
    /\ l <= Len(c) /\ Len(c) - l = Len(b) - j
    /\ \A k \in 1..Len(b) - j : c[l + k] = b[j + k]
    /\ \A u : IsTable(u, a, c) => u[i][l] + 1 <= t[i][j]

(***************************************************************************)
(* The letter of the row is missing after place j.                         *)
(***************************************************************************)
LEMMA NearerByInsertion ==
  ASSUME NEW S, NEW a \in Seq(S), NEW b \in Seq(S), NEW t, IsTable(t, a, b),
         NEW i \in 1..Len(a), NEW j \in 0..Len(b), t[i][j] = t[i - 1][j] + 1
  PROVE  Nearer(S, a, b, t, i, j)
<1> DEFINE l == j + 1
           c == InsertAt(b, l, a[i])
<1>1. /\ Len(a) \in Nat /\ Len(b) \in Nat /\ i \in Nat /\ i # 0 /\ i \in 0..Len(a)
      /\ i - 1 \in 0..Len(a)
      /\ j \in Nat /\ j <= Len(b) /\ j \in 0..j /\ a[i] \in S
      /\ l \in 1..Len(b) + 1 /\ l \in Nat /\ l # 0 /\ l - 1 = j
  <2>1. Len(a) \in Nat /\ Len(b) \in Nat
    OBVIOUS
  <2> QED BY <2>1
<1> HIDE DEF l
<1>2. c \in Seq(S) /\ IsInsertion(b, c, l) /\ c[l] = a[i]
  <2> DEFINE e == a[i]
  <2>1. e \in S /\ l \in 1..Len(b) + 1
    BY <1>1
  <2> HIDE DEF e
  <2>2. /\ InsertAt(b, l, e) \in Seq(S)
        /\ IsInsertion(b, InsertAt(b, l, e), l)
        /\ InsertAt(b, l, e)[l] = e
    BY <2>1, InsertedIs
  <2> QED BY <2>2 DEF e
<1>3. c \in OneError(b, S)
  BY <1>1 DEF OneError
<1> HIDE DEF c
<1>4. /\ Len(c) = Len(b) + 1
      /\ \A k \in 1..j : b[k] = c[k]
      /\ \A k \in l..Len(b) : b[k] = c[k + 1]
  BY <1>1, <1>2 DEF IsInsertion
<1>5. /\ l <= Len(c) /\ j <= Len(c) /\ l \in 0..Len(c)
      /\ Len(c) - l = Len(b) - j
  BY <1>1, <1>4 DEF l
<1>6. ASSUME NEW k \in 1..Len(b) - j PROVE c[l + k] = b[j + k]
  <2>1. j + k \in l..Len(b) /\ (j + k) + 1 = l + k
    BY <1>1 DEF l
  <2> QED BY <1>4, <2>1
<1>7. ASSUME NEW u, IsTable(u, a, c) PROVE u[i][l] + 1 <= t[i][j]
  <2>1. \A k \in 0..Len(a), x \in 0..j : t[k][x] = u[k][x]
    <3>1. Agree(b, c, j)
      BY <1>1, <1>4, <1>5 DEF Agree
    <3> QED BY <1>2, <1>7, <3>1, Prefix
  <2>2. t[i - 1][j] = u[i - 1][j]
    BY <1>1, <2>1
  <2>3. Cost(a, c, i, l) = 0
    BY <1>2 DEF Cost
  <2>4. /\ u[i - 1][l - 1] \in Nat /\ u[i][l] \in Nat
        /\ u[i][l] <= u[i - 1][l - 1] + Cost(a, c, i, l)
    BY <1>1, <1>2, <1>5, <1>7, Inside
  <2> QED BY <1>1, <2>2, <2>3, <2>4
<1> QED BY <1>1, <1>3, <1>5, <1>6, <1>7 DEF Nearer

(***************************************************************************)
(* The letter at place j is one too many.                                  *)
(***************************************************************************)
LEMMA NearerByRemoval ==
  ASSUME NEW S, NEW a \in Seq(S), NEW b \in Seq(S), NEW t, IsTable(t, a, b),
         NEW i \in 0..Len(a), NEW j \in 1..Len(b), t[i][j] = t[i][j - 1] + 1
  PROVE  Nearer(S, a, b, t, i, j)
<1>1. /\ Len(a) \in Nat /\ Len(b) \in Nat
      /\ j \in Nat /\ j - 1 \in Nat /\ j - 1 <= Len(b) /\ j - 1 \in 0..j - 1
      /\ j - 1 \in 0..Len(b)
  <2>1. Len(a) \in Nat /\ Len(b) \in Nat
    OBVIOUS
  <2> QED BY <2>1
<1> DEFINE c == RemoveAt(b, j)
           l == j - 1
<1>2. c \in Seq(S) /\ IsInsertion(c, b, j)
  BY RemovedIs
<1>3. c \in OneError(b, S)
  BY DEF OneError
<1> HIDE DEF c
<1>4. /\ Len(b) = Len(c) + 1 /\ Len(c) \in Nat
      /\ l <= Len(c) /\ l \in Nat /\ Len(c) - l = Len(b) - j
  BY <1>1, <1>2 DEF IsInsertion
<1>5. ASSUME NEW k \in 1..Len(b) - j PROVE c[l + k] = b[j + k]
  <2>1. l + k \in j..Len(c) /\ (l + k) + 1 = j + k
    BY <1>1, <1>4
  <2> QED BY <1>2, <2>1 DEF IsInsertion
<1>6. ASSUME NEW u, IsTable(u, a, c) PROVE u[i][l] + 1 <= t[i][j]
  <2>1. \A k \in 1..l : c[k] = b[k]
    BY <1>2 DEF IsInsertion
  <2>2. l <= Len(b) /\ l \in 0..l /\ t[i][l] + 1 = t[i][j] /\ t[i][l] \in Nat
    BY <1>1, TableFacts
  <2>3. l \in Nat /\ l <= Len(c)
    BY <1>4
  <2> HIDE DEF l
  <2>4. \A k \in 0..Len(a), x \in 0..l : t[k][x] = u[k][x]
    <3>1. Agree(b, c, l)
      BY <2>1, <2>2, <2>3 DEF Agree
    <3> QED BY <1>2, <1>6, <3>1, Prefix
  <2> QED BY <2>2, <2>4
<1> QED BY <1>3, <1>4, <1>5, <1>6 DEF Nearer

(***************************************************************************)
(* The letter at place j is wrong.                                         *)
(***************************************************************************)
LEMMA NearerByReplacement ==
  ASSUME NEW S, NEW a \in Seq(S), NEW b \in Seq(S), NEW t, IsTable(t, a, b),
         NEW i \in 1..Len(a), NEW j \in 1..Len(b), t[i][j] = t[i - 1][j - 1] + 1
  PROVE  Nearer(S, a, b, t, i, j)
<1>1. /\ Len(a) \in Nat /\ Len(b) \in Nat
      /\ i \in Nat /\ i # 0 /\ i \in 0..Len(a) /\ i - 1 \in 0..Len(a) /\ a[i] \in S
      /\ j \in Nat /\ j # 0 /\ j \in 0..Len(b) /\ j <= Len(b)
  <2>1. Len(a) \in Nat /\ Len(b) \in Nat
    OBVIOUS
  <2> QED BY <2>1
<1> DEFINE c == ReplaceAt(b, j, a[i])
           l == j - 1
<1>2. c \in Seq(S) /\ IsReplacement(b, c, j) /\ c[j] = a[i]
  <2> DEFINE x == a[i]
  <2>1. x \in S
    BY <1>1
  <2> HIDE DEF x
  <2>2. /\ ReplaceAt(b, j, x) \in Seq(S) /\ IsReplacement(b, ReplaceAt(b, j, x), j)
        /\ ReplaceAt(b, j, x)[j] = x
    BY <2>1, ReplacedIs
  <2> QED BY <2>2 DEF x
<1>3. c \in OneError(b, S)
  BY <1>1 DEF OneError
<1> HIDE DEF c
<1>4. Len(c) = Len(b)
  BY <1>2 DEF IsReplacement
<1>5. ASSUME NEW k \in 1..Len(b) - j PROVE c[j + k] = b[j + k]
  <2>1. j + k \in 1..Len(b) /\ j + k # j
    BY <1>1
  <2> QED BY <1>2, <2>1 DEF IsReplacement
<1>6. ASSUME NEW u, IsTable(u, a, c) PROVE u[i][j] + 1 <= t[i][j]
  <2>1. Agree(b, c, l) /\ l \in 0..l
    BY <1>1, <1>2, <1>4 DEF IsReplacement, Agree
  <2>2. \A k \in 0..Len(a), x \in 0..l : t[k][x] = u[k][x]
    <3> HIDE DEF l
    <3> QED BY <1>2, <1>6, <2>1, Prefix
  <2>3. t[i - 1][j - 1] = u[i - 1][j - 1]
    BY <1>1, <2>1, <2>2
  <2>4. Cost(a, c, i, j) = 0
    BY <1>2 DEF Cost
  <2>5. /\ u[i - 1][j - 1] \in Nat /\ u[i][j] \in Nat
        /\ u[i][j] <= u[i - 1][j - 1] + Cost(a, c, i, j)
    BY <1>1, <1>2, <1>4, <1>6, Inside
  <2> QED BY <2>3, <2>4, <2>5
<1> QED BY <1>1, <1>3, <1>4, <1>5, <1>6 DEF Nearer

(***************************************************************************)
(* Where the letters agree, the entry is as near as the one before.        *)
(***************************************************************************)
LEMMA NearerByAgreement ==
  ASSUME NEW S, NEW a \in Seq(S), NEW b \in Seq(S), NEW t, IsTable(t, a, b),
         NEW i \in 1..Len(a), NEW j \in 1..Len(b), t[i][j] = t[i - 1][j - 1],
         a[i] = b[j], Nearer(S, a, b, t, i - 1, j - 1)
  PROVE  Nearer(S, a, b, t, i, j)
<1>1. /\ Len(a) \in Nat /\ Len(b) \in Nat
      /\ i \in Nat /\ i # 0 /\ i \in 0..Len(a)
      /\ j \in Nat /\ 1 \in 1..Len(b) - (j - 1)
  <2>1. Len(a) \in Nat /\ Len(b) \in Nat
    OBVIOUS
  <2> QED BY <2>1
<1>2. PICK c \in OneError(b, S), l \in Nat :
        /\ l <= Len(c) /\ Len(c) - l = Len(b) - (j - 1)
        /\ \A k \in 1..Len(b) - (j - 1) : c[l + k] = b[(j - 1) + k]
        /\ \A u : IsTable(u, a, c) => u[i - 1][l] + 1 <= t[i - 1][j - 1]
  BY DEF Nearer
<1>3. c \in Seq(S) /\ Len(c) \in Nat
  <2>1. c \in Seq(S)
    BY OneErrorIs
  <2> QED BY <2>1
<1>4. c[l + 1] = b[j]
  <2>1. c[l + 1] = b[(j - 1) + 1]
    BY <1>1, <1>2
  <2> QED BY <1>1, <2>1
<1>5. /\ l + 1 \in Nat /\ l + 1 <= Len(c) /\ Len(c) - (l + 1) = Len(b) - j
      /\ l + 1 \in 0..Len(c) /\ l + 1 # 0 /\ (l + 1) - 1 = l
  BY <1>1, <1>2, <1>3
<1>6. ASSUME NEW k \in 1..Len(b) - j PROVE c[(l + 1) + k] = b[j + k]
  <2>1. /\ k + 1 \in 1..Len(b) - (j - 1)
        /\ l + (k + 1) = (l + 1) + k /\ (j - 1) + (k + 1) = j + k
    BY <1>1
  <2>2. c[l + (k + 1)] = b[(j - 1) + (k + 1)]
    BY <1>2, <2>1
  <2> QED BY <2>1, <2>2
<1>7. ASSUME NEW u, IsTable(u, a, c) PROVE u[i][l + 1] + 1 <= t[i][j]
  <2>1. Cost(a, c, i, l + 1) = 0
    BY <1>4 DEF Cost
  <2>2. u[i - 1][l] + 1 <= t[i - 1][j - 1]
    BY <1>2, <1>7
  <2> DEFINE x == l + 1
  <2>3. /\ u[i - 1][x - 1] \in Nat /\ u[i][x] \in Nat
        /\ u[i][x] <= u[i - 1][x - 1] + Cost(a, c, i, x)
    <3>1. x \in 0..Len(c) /\ x # 0
      BY <1>5
    <3> HIDE DEF x
    <3> QED BY <1>1, <1>3, <1>7, <3>1, Inside
  <2>4. u[i][x] <= u[i - 1][l]
    BY <1>5, <2>1, <2>3
  <2>5. u[i - 1][l] \in Nat /\ u[i][x] \in Nat /\ t[i - 1][j - 1] \in Nat
    <3>1. t[i - 1][j - 1] \in Nat
      BY <1>1, Inside
    <3> QED BY <1>5, <2>3, <3>1
  <2> DEFINE p == u[i - 1][l]
             q == t[i - 1][j - 1]
             z == u[i][x]
  <2>6. p \in Nat /\ q \in Nat /\ z \in Nat /\ z <= p /\ p + 1 <= q
    BY <2>2, <2>4, <2>5
  <2>7. t[i][j] = q
    OBVIOUS
  <2> HIDE DEF p, q, z
  <2> QED BY <2>6, <2>7 DEF z, x
<1> QED BY <1>2, <1>5, <1>6, <1>7 DEF Nearer

(***************************************************************************)
(* A distance d > 0 is one error and a distance d - 1; and no error adds   *)
(* more than one to a distance.                                            *)
(***************************************************************************)
LEMMA Closer ==
  ASSUME NEW S, NEW a \in Seq(S), NEW b \in Seq(S), edit_distance(a, b) > 0
  PROVE  \E c \in OneError(b, S) : edit_distance(a, c) = edit_distance(a, b) - 1
<1>1. PICK t : IsTable(t, a, b)
  BY TableExists
<1> DEFINE m == Len(a)
           n == Len(b)
           P == {p \in (0..m) \X (0..n) : t[p[1]][p[2]] > 0 => Nearer(S, a, b, t, p[1], p[2])}
<1>2. m \in Nat /\ n \in Nat /\ m \in 0..m /\ n \in 0..n
  <2>1. m \in Nat /\ n \in Nat
    OBVIOUS
  <2> QED BY <2>1
<1>3. ASSUME NEW i \in 0..m, NEW j \in 0..n,
             i > 0 /\ j > 0 => <<i - 1, j - 1>> \in P
      PROVE  <<i, j>> \in P
  <2> SUFFICES ASSUME t[i][j] > 0 PROVE Nearer(S, a, b, t, i, j)
    OBVIOUS
  <2>1. CASE i = 0
    <3>1. t[i][j] = j
      BY <1>1, <2>1, Borders
    <3>2. j \in 1..n /\ j - 1 \in 0..n
      BY <1>2, <3>1
    <3>3. t[i][j - 1] = j - 1
      BY <1>1, <2>1, <3>2, Borders
    <3>4. t[i][j] = t[i][j - 1] + 1
      BY <3>1, <3>2, <3>3
    <3> QED BY <1>1, <3>2, <3>4, NearerByRemoval
  <2>2. CASE j = 0 /\ i # 0
    <3>1. i \in 1..m /\ i - 1 \in 0..m
      BY <1>2, <2>2
    <3>2. t[i][j] = i /\ t[i - 1][j] = i - 1
      BY <1>1, <2>2, <3>1, Borders
    <3>3. t[i][j] = t[i - 1][j] + 1
      BY <3>1, <3>2
    <3> QED BY <1>1, <3>1, <3>3, NearerByInsertion
  <2>3. CASE i # 0 /\ j # 0
    <3>1. /\ i \in 1..m /\ j \in 1..n /\ i > 0 /\ j > 0
          /\ t[i - 1][j - 1] \in Nat /\ Cost(a, b, i, j) \in {0, 1}
          /\ \/ t[i][j] = t[i - 1][j] + 1
             \/ t[i][j] = t[i][j - 1] + 1
             \/ t[i][j] = t[i - 1][j - 1] + Cost(a, b, i, j)
      <4> HIDE DEF P
      <4> QED BY <1>1, <2>3, Inside
    <3>2. CASE t[i][j] = t[i - 1][j] + 1
      BY <1>1, <3>1, <3>2, NearerByInsertion
    <3>3. CASE t[i][j] = t[i][j - 1] + 1
      BY <1>1, <3>1, <3>3, NearerByRemoval
    <3>4. CASE t[i][j] = t[i - 1][j - 1] + Cost(a, b, i, j) /\ Cost(a, b, i, j) = 1
      <4>1. t[i][j] = t[i - 1][j - 1] + 1
        BY <3>4
      <4> QED BY <1>1, <3>1, <4>1, NearerByReplacement
    <3>5. CASE t[i][j] = t[i - 1][j - 1] + Cost(a, b, i, j) /\ Cost(a, b, i, j) = 0
      <4>1. t[i][j] = t[i - 1][j - 1]
        BY <3>1, <3>5
      <4>2. a[i] = b[j]
        BY <3>5 DEF Cost
      <4>3. Nearer(S, a, b, t, i - 1, j - 1)
        BY <1>3, <3>1, <4>1
      <4> QED BY <1>1, <3>1, <4>1, <4>2, <4>3, NearerByAgreement
    <3> QED BY <3>1, <3>2, <3>3, <3>4, <3>5
  <2> QED BY <2>1, <2>2, <2>3
<1>4. \A i \in 0..m, j \in 0..n : <<i, j>> \in P
  <2> HIDE DEF P, m, n
  <2> QED BY <1>2, <1>3, GridInduction
<1>5. edit_distance(a, b) = t[m][n] /\ edit_distance(a, b) \in Nat
  BY <1>1, DistanceIsEntry
<1>6. Nearer(S, a, b, t, m, n)
  <2>1. <<m, n>> \in P
    BY <1>2, <1>4
  <2> QED BY <1>5, <2>1
<1>7. PICK c \in OneError(b, S), l \in Nat :
        /\ l <= Len(c) /\ Len(c) - l = Len(b) - n
        /\ \A u : IsTable(u, a, c) => u[m][l] + 1 <= t[m][n]
  BY <1>6 DEF Nearer
<1>8. c \in Seq(S)
  BY OneErrorIs
<1>9. PICK u : IsTable(u, a, c)
  BY <1>8, TableExists
<1>10. l = Len(c)
  <2>1. Len(c) \in Nat
    BY <1>8
  <2> QED BY <1>2, <1>7, <2>1
<1>11. edit_distance(a, c) = u[m][Len(c)] /\ edit_distance(a, c) \in Nat
  BY <1>8, <1>9, DistanceIsEntry
<1>12. t[m][n] <= u[m][Len(c)] + 1
  BY <1>1, <1>8, <1>9, ErrorClose
<1>13. edit_distance(a, c) + 1 <= edit_distance(a, b)
  BY <1>5, <1>7, <1>9, <1>10, <1>11
<1>14. edit_distance(a, c) = edit_distance(a, b) - 1
  <2> HIDE DEF m, n
  <2> QED BY <1>5, <1>11, <1>12, <1>13
<1> QED BY <1>14

(***************************************************************************)
(* No error adds more than one to a distance.                              *)
(***************************************************************************)
LEMMA ErrorCostsOne ==
  ASSUME NEW S, NEW a \in Seq(S), NEW b \in Seq(S), NEW c \in OneError(b, S)
  PROVE  edit_distance(a, c) <= edit_distance(a, b) + 1
<1>1. c \in Seq(S)
  BY OneErrorIs
<1>2. PICK t : IsTable(t, a, b)
  BY TableExists
<1>3. PICK u : IsTable(u, a, c)
  BY <1>1, TableExists
<1>4. u[Len(a)][Len(c)] <= t[Len(a)][Len(b)] + 1
  BY <1>2, <1>3, ErrorClose
<1>5. edit_distance(a, b) = t[Len(a)][Len(b)]
  BY <1>2, DistanceIsEntry
<1>6. edit_distance(a, c) = u[Len(a)][Len(c)]
  BY <1>1, <1>3, DistanceIsEntry
<1> QED BY <1>4, <1>5, <1>6

(***************************************************************************)
(* A distance is a number, at most the length of the longer text.          *)
(***************************************************************************)
LEMMA DistanceBounded ==
  ASSUME NEW S, NEW a \in Seq(S), NEW b \in Seq(S)
  PROVE  /\ edit_distance(a, b) \in Nat
         /\ edit_distance(a, b) <= Len(a) \/ edit_distance(a, b) <= Len(b)
<1>1. PICK t : IsTable(t, a, b)
  BY TableExists
<1> DEFINE m == Len(a)
           n == Len(b)
           P == {p \in (0..m) \X (0..n) : t[p[1]][p[2]] <= p[1] \/ t[p[1]][p[2]] <= p[2]}
<1>2. m \in Nat /\ n \in Nat /\ m \in 0..m /\ n \in 0..n
  <2>1. m \in Nat /\ n \in Nat
    OBVIOUS
  <2> QED BY <2>1
<1>3. ASSUME NEW i \in 0..m, NEW j \in 0..n,
             i > 0 /\ j > 0 => <<i - 1, j - 1>> \in P
      PROVE  <<i, j>> \in P
  <2>1. CASE i = 0
    <3>1. t[i][j] = j
      BY <1>1, <2>1, Borders
    <3> QED BY <1>2, <3>1
  <2>2. CASE j = 0
    <3>1. t[i][j] = i
      BY <1>1, <2>2, Borders
    <3> QED BY <1>2, <3>1
  <2>3. CASE i # 0 /\ j # 0
    <3> DEFINE A == t[i - 1][j - 1]
               D == t[i][j]
               cost == Cost(a, b, i, j)
    <3>1. i > 0 /\ j > 0 /\ A \in Nat /\ D \in Nat /\ cost \in {0, 1} /\ D <= A + cost
      <4> HIDE DEF P
      <4> QED BY <1>1, <2>3, Inside
    <3>2. A <= i - 1 \/ A <= j - 1
      BY <1>3, <3>1
    <3>3. D <= i \/ D <= j
      <4>1. i \in Nat /\ j \in Nat
        BY <1>2
      <4> HIDE DEF A, D, cost
      <4> QED BY <3>1, <3>2, <4>1
    <3> QED BY <3>3
  <2> QED BY <2>1, <2>2, <2>3
<1>4. \A i \in 0..m, j \in 0..n : <<i, j>> \in P
  <2> HIDE DEF P, m, n
  <2> QED BY <1>2, <1>3, GridInduction
<1>5. t[m][n] <= m \/ t[m][n] <= n
  <2>1. <<m, n>> \in P
    BY <1>2, <1>4
  <2> QED BY <2>1
<1> QED BY <1>1, <1>5, DistanceIsEntry

\* h leads from text a to text b by n single errors.
Errors(h, n, a, b, S) ==
  /\ h \in [0..n -> Seq(S)]
  /\ h[0] = a /\ h[n] = b
  /\ \A k \in 1..n : h[k] \in OneError(h[k - 1], S)

(***************************************************************************)
(* n errors add at most n to a distance.                                   *)
(***************************************************************************)
LEMMA ErrorsCost ==
  ASSUME NEW S, NEW a \in Seq(S), NEW b \in Seq(S), NEW c \in Seq(S),
         NEW n \in Nat, NEW h, Errors(h, n, b, c, S)
  PROVE  edit_distance(a, c) <= edit_distance(a, b) + n
<1> DEFINE Bad == {k \in Nat : k <= n /\ ~ (edit_distance(a, h[k]) <= edit_distance(a, b) + k)}
<1>1. h \in [0..n -> Seq(S)] /\ h[0] = b /\ h[n] = c
  BY DEF Errors
<1>2. edit_distance(a, b) \in Nat
  BY DistanceBounded
<1>3. Bad = {}
  <2> SUFFICES ASSUME Bad # {} PROVE FALSE
    OBVIOUS
  <2>1. PICK k \in Bad : \A l \in Bad : k <= l
    <3>1. Bad \in SUBSET Nat
      OBVIOUS
    <3> HIDE DEF Bad
    <3> QED BY <3>1, LeastNatural
  <2>2. k \in Nat /\ k <= n /\ ~ (edit_distance(a, h[k]) <= edit_distance(a, b) + k)
    BY <2>1
  <2>3. k # 0
    BY <1>1, <1>2, <2>2
  <2>4. k \in 1..n /\ k - 1 \in Nat /\ k - 1 <= n /\ k - 1 \in 0..n /\ k \in 0..n
        /\ ~ (k <= k - 1)
    BY <2>2, <2>3
  <2>5. h[k - 1] \in Seq(S) /\ h[k] \in Seq(S) /\ h[k] \in OneError(h[k - 1], S)
    BY <1>1, <2>4 DEF Errors
  <2>6. edit_distance(a, h[k - 1]) <= edit_distance(a, b) + (k - 1)
    BY <2>1, <2>4
  <2>7. edit_distance(a, h[k]) <= edit_distance(a, h[k - 1]) + 1
    BY <2>5, ErrorCostsOne
  <2>8. edit_distance(a, h[k]) \in Nat /\ edit_distance(a, h[k - 1]) \in Nat
    BY <2>5, DistanceBounded
  <2> HIDE DEF Bad
  <2> QED BY <1>2, <2>2, <2>6, <2>7, <2>8
<1>4. edit_distance(a, h[n]) <= edit_distance(a, b) + n
  <2> SUFFICES ASSUME ~ (edit_distance(a, h[n]) <= edit_distance(a, b) + n) PROVE FALSE
    OBVIOUS
  <2>1. n \in Bad
    OBVIOUS
  <2> QED BY <1>3, <2>1
<1> QED BY <1>1, <1>4

(***************************************************************************)
(* As many errors as the distance lead from one text to the other.         *)
(***************************************************************************)
LEMMA ErrorsSuffice ==
  ASSUME NEW S, NEW a \in Seq(S), NEW b \in Seq(S)
  PROVE  \E h : Errors(h, edit_distance(a, b), b, a, S)
<1> DEFINE Reached(d) == \A c \in Seq(S) : edit_distance(a, c) = d => \E h : Errors(h, d, c, a, S)
           Bad == {d \in Nat : ~ Reached(d)}
<1>1. Bad = {}
  <2> SUFFICES ASSUME Bad # {} PROVE FALSE
    OBVIOUS
  <2>1. PICK d \in Bad : \A e \in Bad : d <= e
    <3>1. Bad \in SUBSET Nat
      OBVIOUS
    <3> HIDE DEF Bad
    <3> QED BY <3>1, LeastNatural
  <2>2. PICK c \in Seq(S) : edit_distance(a, c) = d /\ ~ \E h : Errors(h, d, c, a, S)
    BY <2>1
  <2>3. d # 0
    <3> SUFFICES ASSUME d = 0 PROVE FALSE
      OBVIOUS
    <3>1. c = a
      BY <2>2, ZeroIsEqual
    <3> DEFINE h == [k \in 0..0 |-> a]
    <3>2. Errors(h, 0, a, a, S)
      BY DEF Errors
    <3> HIDE DEF h
    <3> QED BY <2>2, <3>1, <3>2
  <2>4. d \in Nat /\ d > 0 /\ d - 1 \in Nat /\ ~ (d <= d - 1)
    BY <2>1, <2>3
  <2>5. PICK e \in OneError(c, S) : edit_distance(a, e) = d - 1
    BY <2>2, <2>4, Closer
  <2>6. e \in Seq(S)
    BY OneErrorIs
  <2>7. Reached(d - 1)
    <3> HIDE DEF Reached
    <3>1. d - 1 \notin Bad
      <4> HIDE DEF Bad
      <4> QED BY <2>1, <2>4
    <3> QED BY <2>4, <3>1
  <2>8. PICK g : Errors(g, d - 1, e, a, S)
    BY <2>5, <2>6, <2>7
  <2> DEFINE h == [k \in 0..d |-> IF k = 0 THEN c ELSE g[k - 1]]
  <2>9. Errors(h, d, c, a, S)
    <3>1. /\ g \in [0..d - 1 -> Seq(S)] /\ g[0] = e /\ g[d - 1] = a
          /\ \A k \in 1..d - 1 : g[k] \in OneError(g[k - 1], S)
      BY <2>8 DEF Errors
    <3>2. ASSUME NEW k \in 0..d, k # 0 PROVE k - 1 \in 0..d - 1 /\ h[k] = g[k - 1]
      BY <2>4, <3>2
    <3>3. ASSUME NEW k \in 0..d PROVE h[k] \in Seq(S)
      BY <3>1, <3>2
    <3>4. h \in [0..d -> Seq(S)]
      <4>1. h = [k \in 0..d |-> h[k]]
        OBVIOUS
      <4> HIDE DEF h
      <4> QED BY <3>3, <4>1
    <3>5. h[0] = c /\ h[d] = a
      BY <2>4, <3>1, <3>2
    <3>6. ASSUME NEW k \in 1..d PROVE h[k] \in OneError(h[k - 1], S)
      <4>1. k \in 0..d /\ k - 1 \in 0..d /\ k # 0 /\ k - 1 \in 0..d - 1
        BY <2>4
      <4>2. h[k] = g[k - 1]
        BY <3>2, <4>1
      <4>3. CASE k = 1
        <5>1. h[k] = e
          BY <3>1, <4>2, <4>3
        <5>2. h[k - 1] = c
          BY <2>4, <4>3
        <5> QED BY <5>1, <5>2
      <4>4. CASE k # 1
        <5>1. k - 1 \in 1..d - 1 /\ k - 1 # 0
          BY <2>4, <4>4
        <5>2. h[k - 1] = g[(k - 1) - 1]
          BY <4>1, <5>1
        <5> HIDE DEF h
        <5> QED BY <3>1, <4>2, <5>1, <5>2
      <4> QED BY <4>3, <4>4
    <3> HIDE DEF h
    <3> QED BY <3>4, <3>5, <3>6 DEF Errors
  <2> QED BY <2>2, <2>9
<1>2. edit_distance(a, b) \in Nat
  BY DistanceBounded
<1>3. Reached(edit_distance(a, b))
  BY <1>1, <1>2
<1> QED BY <1>3

(***************************************************************************)
(* Equal texts, and only they, are at distance 0; neither text comes       *)
(* first; and no detour is shorter.                                        *)
(***************************************************************************)
THEOREM EditDistanceIsMetric ==
  ASSUME NEW S, NEW a \in Seq(S), NEW b \in Seq(S), NEW c \in Seq(S)
  PROVE  /\ edit_distance(a, b) = 0 <=> a = b
         /\ edit_distance(a, b) = edit_distance(b, a)
         /\ edit_distance(a, c) <= edit_distance(a, b) + edit_distance(b, c)
<1>1. ASSUME NEW x \in Seq(S), NEW y \in Seq(S)
      PROVE  /\ edit_distance(x, y) \in Nat
             /\ edit_distance(y, x) <= edit_distance(x, y)
  <2>1. edit_distance(x, y) \in Nat /\ edit_distance(y, x) \in Nat
    BY DistanceBounded
  <2>2. edit_distance(y, y) = 0
    BY ZeroIsEqual
  <2>3. edit_distance(y, x) <= edit_distance(y, y) + edit_distance(x, y)
    BY <2>1, ErrorsSuffice, ErrorsCost
  <2> QED BY <2>1, <2>2, <2>3
<1>2. edit_distance(a, b) = edit_distance(b, a)
  BY <1>1
<1>3. edit_distance(a, c) <= edit_distance(a, b) + edit_distance(c, b)
  BY <1>1, ErrorsSuffice, ErrorsCost
<1>4. edit_distance(c, b) = edit_distance(b, c)
  BY <1>1
<1> QED BY <1>2, <1>3, <1>4, ZeroIsEqual

(***************************************************************************)
(* "No subtlety": what the two rows of _edit_distance come to is the least *)
(* number of single-letter errors that turn one text into the other.       *)
(***************************************************************************)
THEOREM EditDistanceIsLeast ==
  ASSUME NEW S, NEW a \in Seq(S), NEW b \in Seq(S)
  PROVE  /\ edit_distance(a, b) \in Nat
         /\ \E h : Errors(h, edit_distance(a, b), a, b, S)
         /\ \A n \in Nat : \A h : Errors(h, n, a, b, S) => edit_distance(a, b) <= n
<1>1. edit_distance(a, b) \in Nat
  BY DistanceBounded
<1>2. edit_distance(b, a) = edit_distance(a, b)
  BY EditDistanceIsMetric
<1>3. \E h : Errors(h, edit_distance(b, a), a, b, S)
  BY ErrorsSuffice
<1>4. ASSUME NEW n \in Nat, NEW h, Errors(h, n, a, b, S)
      PROVE  edit_distance(a, b) <= n
  <2>1. edit_distance(a, a) = 0
    BY ZeroIsEqual
  <2>2. edit_distance(a, b) <= edit_distance(a, a) + n
    BY <1>4, ErrorsCost
  <2> QED BY <1>1, <2>1, <2>2
<1> QED BY <1>1, <1>2, <1>3, <1>4

-----------------------------------------------------------------------------
(* Similarity.                                                             *)

(***************************************************************************)
(* The greatest of three numbers is one of them, and none is greater.      *)
(***************************************************************************)
LEMMA GreatestOfThree ==
  ASSUME NEW x \in Nat, NEW y \in Nat, NEW z \in Nat
  PROVE  /\ Max({x, y, z}) \in Nat
         /\ Max({x, y, z}) >= x /\ Max({x, y, z}) >= y /\ Max({x, y, z}) >= z
<1>1. \E n \in {x, y, z} : \A m \in {x, y, z} : n >= m
  OBVIOUS
<1> QED BY <1>1 DEF Max

(***************************************************************************)
(* field_similarity divides by a length that the distance does not exceed. *)
(***************************************************************************)
LEMMA LongestBounds ==
  ASSUME NEW S, NEW a \in Seq(S), NEW b \in Seq(S)
  PROVE  /\ Longest(a, b) \in Nat /\ Longest(a, b) >= 1
         /\ edit_distance(a, b) \in Nat /\ edit_distance(a, b) <= Longest(a, b)
<1>1. Len(a) \in Nat /\ Len(b) \in Nat
  OBVIOUS
<1>2. /\ Longest(a, b) \in Nat /\ Longest(a, b) >= 1
      /\ Longest(a, b) >= Len(a) /\ Longest(a, b) >= Len(b)
  BY <1>1, GreatestOfThree DEF Longest
<1>3. /\ edit_distance(a, b) \in Nat
      /\ edit_distance(a, b) <= Len(a) \/ edit_distance(a, b) <= Len(b)
  BY DistanceBounded
<1> QED BY <1>1, <1>2, <1>3

\* The four parts are texts of letters in S.
AreTexts(c, S) == \A f \in 1..4 : parts(c)[f] \in Seq(S)

\* Field f of two records, the length it is divided by, and the distance.
FieldLongest(a, b, f) == Longest(parts(a)[f], parts(b)[f])
FieldDistance(a, b, f) == edit_distance(parts(a)[f], parts(b)[f])

\* What the errors in field f take from the score.
Lost(a, b, f) ==
  LET n == [g \in 1..4 |-> IF g = f THEN FieldDistance(a, b, g) ELSE FieldLongest(a, b, g)]
  IN  n[1] * n[2] * n[3] * n[4]

(***************************************************************************)
(* Distributing the weights.                                               *)
(***************************************************************************)
LEMMA WeightsDistribute ==
  ASSUME NEW n1 \in Nat, NEW n2 \in Nat, NEW n3 \in Nat, NEW n4 \in Nat,
         NEW d1 \in Nat, NEW d2 \in Nat, NEW d3 \in Nat, NEW d4 \in Nat
  PROVE  (15 * (n1 - d1)) * n2 * n3 * n4 + n1 * (35 * (n2 - d2)) * n3 * n4
           + n1 * n2 * (20 * (n3 - d3)) * n4 + n1 * n2 * n3 * (30 * (n4 - d4))
         = 100 * (n1 * n2 * n3 * n4)
           - (15 * (d1 * n2 * n3 * n4) + 35 * (n1 * d2 * n3 * n4)
              + 20 * (n1 * n2 * d3 * n4) + 30 * (n1 * n2 * n3 * d4))
OBVIOUS

(***************************************************************************)
(* The score is a fraction of 100, short of it by what the errors take.    *)
(***************************************************************************)
LEMMA ScoreIs ==
  ASSUME NEW S, NEW a, NEW b, AreTexts(a, S), AreTexts(b, S)
  PROVE  /\ \A f \in 1..4 :
              /\ FieldLongest(a, b, f) \in Nat /\ FieldLongest(a, b, f) >= 1
              /\ FieldDistance(a, b, f) \in Nat
              /\ FieldDistance(a, b, f) <= FieldLongest(a, b, f)
         /\ similarity(a, b).den = FieldLongest(a, b, 1) * FieldLongest(a, b, 2)
                                     * FieldLongest(a, b, 3) * FieldLongest(a, b, 4)
         /\ similarity(a, b).num =
              100 * similarity(a, b).den
                - (15 * Lost(a, b, 1) + 35 * Lost(a, b, 2)
                   + 20 * Lost(a, b, 3) + 30 * Lost(a, b, 4))
<1> DEFINE n(f) == FieldLongest(a, b, f)
           d(f) == FieldDistance(a, b, f)
<1>1. ASSUME NEW f \in 1..4
      PROVE  n(f) \in Nat /\ n(f) >= 1 /\ d(f) \in Nat /\ d(f) <= n(f)
  <2>1. parts(a)[f] \in Seq(S) /\ parts(b)[f] \in Seq(S)
    BY DEF AreTexts
  <2> QED BY <2>1, LongestBounds DEF FieldLongest, FieldDistance
<1>2. /\ n(1) \in Nat /\ n(2) \in Nat /\ n(3) \in Nat /\ n(4) \in Nat
      /\ d(1) \in Nat /\ d(2) \in Nat /\ d(3) \in Nat /\ d(4) \in Nat
  BY <1>1
<1>3. similarity(a, b).den = n(1) * n(2) * n(3) * n(4)
  BY DEF similarity, FieldLongest
<1>4. /\ Lost(a, b, 1) = d(1) * n(2) * n(3) * n(4)
      /\ Lost(a, b, 2) = n(1) * d(2) * n(3) * n(4)
      /\ Lost(a, b, 3) = n(1) * n(2) * d(3) * n(4)
      /\ Lost(a, b, 4) = n(1) * n(2) * n(3) * d(4)
  BY DEF Lost
<1>5. similarity(a, b).num =
        (15 * (n(1) - d(1))) * n(2) * n(3) * n(4)
          + n(1) * (35 * (n(2) - d(2))) * n(3) * n(4)
          + n(1) * n(2) * (20 * (n(3) - d(3))) * n(4)
          + n(1) * n(2) * n(3) * (30 * (n(4) - d(4)))
  BY DEF similarity, FIELD_WEIGHTS, FieldLongest, FieldDistance
<1> HIDE DEF n, d
<1>6. similarity(a, b).num =
        100 * (n(1) * n(2) * n(3) * n(4))
          - (15 * (d(1) * n(2) * n(3) * n(4)) + 35 * (n(1) * d(2) * n(3) * n(4))
             + 20 * (n(1) * n(2) * d(3) * n(4)) + 30 * (n(1) * n(2) * n(3) * d(4)))
  BY <1>2, <1>5, WeightsDistribute
<1>7. similarity(a, b).num =
        100 * similarity(a, b).den
          - (15 * Lost(a, b, 1) + 35 * Lost(a, b, 2) + 20 * Lost(a, b, 3) + 30 * Lost(a, b, 4))
  BY <1>3, <1>4, <1>6
<1> QED BY <1>1, <1>3, <1>7 DEF n, d

(***************************************************************************)
(* A product of numbers is a number, and positive if they are.             *)
(***************************************************************************)
LEMMA ProductPositive ==
  ASSUME NEW x \in Nat, NEW y \in Nat
  PROVE  x * y \in Nat /\ (x >= 1 /\ y >= 1 => x * y >= 1)
OBVIOUS

(***************************************************************************)
(* One factor less, or more, makes a product less, or more.                *)
(***************************************************************************)
LEMMA ProductCompares ==
  ASSUME NEW v \in Nat, NEW w \in Nat, NEW d \in Nat, NEW n \in Nat,
         NEW p \in Nat, p >= 1
  PROVE  (w * (d * p) <= v * (n * p) <=> w * d <= v * n)
<1>1. w * (d * p) = (w * d) * p /\ v * (n * p) = (v * n) * p
  OBVIOUS
<1>2. w * d \in Nat /\ v * n \in Nat
  OBVIOUS
<1>3. \A x \in Nat, y \in Nat : x * p <= y * p <=> x <= y
  OBVIOUS
<1> QED BY <1>1, <1>2, <1>3

(***************************************************************************)
(* The errors of one field take from the score in proportion to what they  *)
(* are of the field's length.                                              *)
(***************************************************************************)
LEMMA LostFactors ==
  ASSUME NEW S, NEW a, NEW b, AreTexts(a, S), AreTexts(b, S), NEW f \in 1..4
  PROVE  \E p \in Nat :
           /\ p >= 1
           /\ similarity(a, b).den = FieldLongest(a, b, f) * p
           /\ Lost(a, b, f) = FieldDistance(a, b, f) * p
<1> DEFINE n(g) == FieldLongest(a, b, g)
           d(g) == FieldDistance(a, b, g)
           L(g) == Lost(a, b, g)
           den == similarity(a, b).den
<1>1. /\ n(1) \in Nat /\ n(2) \in Nat /\ n(3) \in Nat /\ n(4) \in Nat
      /\ d(1) \in Nat /\ d(2) \in Nat /\ d(3) \in Nat /\ d(4) \in Nat
  BY ScoreIs
<1>2. n(1) >= 1 /\ n(2) >= 1 /\ n(3) >= 1 /\ n(4) >= 1
  BY ScoreIs
<1>3. den = n(1) * n(2) * n(3) * n(4)
  BY ScoreIs
<1>4. /\ L(1) = d(1) * n(2) * n(3) * n(4)
      /\ L(2) = n(1) * d(2) * n(3) * n(4)
      /\ L(3) = n(1) * n(2) * d(3) * n(4)
      /\ L(4) = n(1) * n(2) * n(3) * d(4)
  BY DEF Lost
<1>5. ASSUME NEW x \in Nat, NEW y \in Nat, NEW z \in Nat, x >= 1, y >= 1, z >= 1
      PROVE  x * y * z \in Nat /\ x * y * z >= 1
  <2>1. x * y \in Nat /\ x * y >= 1
    BY <1>5, ProductPositive
  <2> QED BY <1>5, <2>1, ProductPositive
<1>6. ASSUME NEW u \in Nat, NEW x \in Nat, NEW y \in Nat, NEW z \in Nat
      PROVE  /\ u * x * y * z = u * (x * y * z)
             /\ x * u * y * z = u * (x * y * z)
             /\ x * y * u * z = u * (x * y * z)
             /\ x * y * z * u = u * (x * y * z)
  OBVIOUS
<1>7. f = 1 \/ f = 2 \/ f = 3 \/ f = 4
  OBVIOUS
<1> HIDE DEF n, d, L, den
<1>8. CASE f = 1
  <2>1. den = n(1) * (n(2) * n(3) * n(4)) /\ L(1) = d(1) * (n(2) * n(3) * n(4))
    BY <1>1, <1>3, <1>4, <1>6
  <2>2. n(2) * n(3) * n(4) \in Nat /\ n(2) * n(3) * n(4) >= 1
    BY <1>1, <1>2, <1>5
  <2> QED BY <1>8, <2>1, <2>2 DEF n, d, L, den
<1>9. CASE f = 2
  <2>1. den = n(2) * (n(1) * n(3) * n(4)) /\ L(2) = d(2) * (n(1) * n(3) * n(4))
    BY <1>1, <1>3, <1>4, <1>6
  <2>2. n(1) * n(3) * n(4) \in Nat /\ n(1) * n(3) * n(4) >= 1
    BY <1>1, <1>2, <1>5
  <2> QED BY <1>9, <2>1, <2>2 DEF n, d, L, den
<1>10. CASE f = 3
  <2>1. den = n(3) * (n(1) * n(2) * n(4)) /\ L(3) = d(3) * (n(1) * n(2) * n(4))
    BY <1>1, <1>3, <1>4, <1>6
  <2>2. n(1) * n(2) * n(4) \in Nat /\ n(1) * n(2) * n(4) >= 1
    BY <1>1, <1>2, <1>5
  <2> QED BY <1>10, <2>1, <2>2 DEF n, d, L, den
<1>11. CASE f = 4
  <2>1. den = n(4) * (n(1) * n(2) * n(3)) /\ L(4) = d(4) * (n(1) * n(2) * n(3))
    BY <1>1, <1>3, <1>4, <1>6
  <2>2. n(1) * n(2) * n(3) \in Nat /\ n(1) * n(2) * n(3) >= 1
    BY <1>1, <1>2, <1>5
  <2> QED BY <1>11, <2>1, <2>2 DEF n, d, L, den
<1> QED BY <1>7, <1>8, <1>9, <1>10, <1>11

(***************************************************************************)
(* No field takes more than there is, and one without errors takes         *)
(* nothing.                                                                *)
(***************************************************************************)
LEMMA LostBounded ==
  ASSUME NEW S, NEW a, NEW b, AreTexts(a, S), AreTexts(b, S), NEW f \in 1..4
  PROVE  /\ similarity(a, b).den \in Nat /\ similarity(a, b).den >= 1
         /\ Lost(a, b, f) \in Nat /\ Lost(a, b, f) <= similarity(a, b).den
         /\ Lost(a, b, f) = 0 <=> parts(a)[f] = parts(b)[f]
<1> DEFINE n == FieldLongest(a, b, f)
           d == FieldDistance(a, b, f)
           l == Lost(a, b, f)
           den == similarity(a, b).den
<1>1. n \in Nat /\ n >= 1 /\ d \in Nat /\ d <= n
  BY ScoreIs
<1>2. PICK p \in Nat : p >= 1 /\ den = n * p /\ l = d * p
  BY LostFactors
<1>3. d = 0 <=> parts(a)[f] = parts(b)[f]
  <2>1. parts(a)[f] \in Seq(S) /\ parts(b)[f] \in Seq(S)
    BY DEF AreTexts
  <2> QED BY <2>1, ZeroIsEqual DEF FieldDistance
<1> HIDE DEF n, d, l, den
<1>4. den \in Nat /\ den >= 1
  BY <1>1, <1>2, ProductPositive
<1>5. l \in Nat /\ (d >= 1 => l >= 1) /\ (d = 0 => l = 0)
  BY <1>1, <1>2, ProductPositive
<1>6. l <= den
  <2>1. 1 * (d * p) <= 1 * (n * p) <=> 1 * d <= 1 * n
    BY <1>1, <1>2, ProductCompares
  <2>2. d * p \in Nat /\ n * p \in Nat
    BY <1>1, ProductPositive
  <2>3. d * p <= n * p
    BY <1>1, <2>1, <2>2
  <2> QED BY <1>2, <2>3
<1>7. l = 0 <=> parts(a)[f] = parts(b)[f]
  BY <1>1, <1>3, <1>5
<1> QED BY <1>4, <1>5, <1>6, <1>7 DEF l, den

(***************************************************************************)
(* Similarity: the weighted score is a number between 0 and 1, it is 1 for *)
(* identities that agree in every field and for no others, and it does not *)
(* matter which of the two is the owner's.                                 *)
(***************************************************************************)
THEOREM SimilarityIsMeasure ==
  ASSUME NEW S, NEW a, NEW b, AreTexts(a, S), AreTexts(b, S)
  PROVE  /\ similarity(a, b).den \in Nat \ {0}
         /\ similarity(a, b).num \in 0..100 * similarity(a, b).den
         /\ similarity(a, b).num = 100 * similarity(a, b).den <=> parts(a) = parts(b)
         /\ similarity(b, a) = similarity(a, b)
<1> DEFINE den == similarity(a, b).den
           num == similarity(a, b).num
           l1 == Lost(a, b, 1)
           l2 == Lost(a, b, 2)
           l3 == Lost(a, b, 3)
           l4 == Lost(a, b, 4)
<1>1. den \in Nat /\ den >= 1
  <2>1. 1 \in 1..4
    OBVIOUS
  <2> QED BY <2>1, LostBounded
<1>2. /\ l1 \in Nat /\ l2 \in Nat /\ l3 \in Nat /\ l4 \in Nat
      /\ l1 <= den /\ l2 <= den /\ l3 <= den /\ l4 <= den
  BY LostBounded
<1>3. num = 100 * den - (15 * l1 + 35 * l2 + 20 * l3 + 30 * l4)
  BY ScoreIs
<1>4. parts(a) = parts(b) <=> \A f \in 1..4 : parts(a)[f] = parts(b)[f]
  BY DEF parts
<1>5. parts(a) = parts(b) <=> l1 = 0 /\ l2 = 0 /\ l3 = 0 /\ l4 = 0
  <2>1. \A f \in 1..4 : Lost(a, b, f) = 0 <=> parts(a)[f] = parts(b)[f]
    BY LostBounded
  <2>2. 1 \in 1..4 /\ 2 \in 1..4 /\ 3 \in 1..4 /\ 4 \in 1..4
        /\ \A f \in 1..4 : f = 1 \/ f = 2 \/ f = 3 \/ f = 4
    OBVIOUS
  <2> QED BY <1>4, <2>1, <2>2
<1>6. similarity(b, a) = similarity(a, b)
  <2>1. ASSUME NEW x \in Seq(S), NEW y \in Seq(S)
        PROVE  edit_distance(x, y) = edit_distance(y, x) /\ Longest(x, y) = Longest(y, x)
    <3>1. {1, Len(x), Len(y)} = {1, Len(y), Len(x)}
      OBVIOUS
    <3> QED BY <3>1, EditDistanceIsMetric DEF Longest
  <2>2. \A f \in 1..4 : parts(a)[f] \in Seq(S) /\ parts(b)[f] \in Seq(S)
    BY DEF AreTexts
  <2>3. \A f \in 1..4 : /\ edit_distance(parts(b)[f], parts(a)[f]) = edit_distance(parts(a)[f], parts(b)[f])
                        /\ Longest(parts(b)[f], parts(a)[f]) = Longest(parts(a)[f], parts(b)[f])
    BY <2>1, <2>2
  <2> DEFINE N(x, y) == [f \in 1..4 |-> Longest(x[f], y[f])]
             A(x, y, n) == [f \in 1..4 |-> FIELD_WEIGHTS[f] * (n[f] - edit_distance(x[f], y[f]))]
  <2>4. N(parts(b), parts(a)) = N(parts(a), parts(b))
    BY <2>3
  <2>5. A(parts(b), parts(a), N(parts(a), parts(b))) = A(parts(a), parts(b), N(parts(a), parts(b)))
    <3> DEFINE n == N(parts(a), parts(b))
    <3> HIDE DEF n
    <3>1. A(parts(b), parts(a), n) = A(parts(a), parts(b), n)
      BY <2>3
    <3> QED BY <3>1 DEF n
  <2> QED BY <2>4, <2>5 DEF similarity
<1> HIDE DEF den, num, l1, l2, l3, l4
<1>7. num \in 0..100 * den /\ (num = 100 * den <=> parts(a) = parts(b))
  <2> DEFINE s == 15 * l1 + 35 * l2 + 20 * l3 + 30 * l4
  <2>1. s \in Nat /\ s <= 100 * den
    BY <1>1, <1>2
  <2>2. s = 0 <=> l1 = 0 /\ l2 = 0 /\ l3 = 0 /\ l4 = 0
    BY <1>2
  <2>3. num = 100 * den - s
    BY <1>3
  <2> HIDE DEF s
  <2>4. num \in 0..100 * den
    BY <1>1, <2>1, <2>3
  <2>5. num = 100 * den <=> s = 0
    BY <1>1, <2>1, <2>3
  <2> QED BY <1>5, <2>2, <2>4, <2>5
<1> QED BY <1>1, <1>6, <1>7 DEF den, num

(***************************************************************************)
(* The threshold: of two identities that may match, no field has more      *)
(* errors than 14 hundredths of its length over its weight; and if they    *)
(* differ in one field only, fewer errors than that always match.          *)
(***************************************************************************)
THEOREM ThresholdPerField ==
  ASSUME NEW S, NEW a, NEW b, AreTexts(a, S), AreTexts(b, S), NEW f \in 1..4
  PROVE  /\ TRUE \in Comparisons(a, b) =>
              FIELD_WEIGHTS[f] * FieldDistance(a, b, f) <= 14 * FieldLongest(a, b, f)
         /\ (\A g \in 1..4 \ {f} : parts(a)[g] = parts(b)[g])
              /\ FIELD_WEIGHTS[f] * FieldDistance(a, b, f) < 14 * FieldLongest(a, b, f)
                => Comparisons(a, b) = {TRUE}
<1> DEFINE den == similarity(a, b).den
           num == similarity(a, b).num
           L(g) == Lost(a, b, g)
           n == FieldLongest(a, b, f)
           d == FieldDistance(a, b, f)
           w == FIELD_WEIGHTS[f]
<1>1. den \in Nat /\ den >= 1
  BY LostBounded
<1>2. /\ L(1) \in Nat /\ L(2) \in Nat /\ L(3) \in Nat /\ L(4) \in Nat
  BY LostBounded
<1>3. num = 100 * den - (15 * L(1) + 35 * L(2) + 20 * L(3) + 30 * L(4))
  BY ScoreIs
<1>4. PICK p \in Nat : p >= 1 /\ den = n * p /\ L(f) = d * p
  BY LostFactors
<1>5. n \in Nat /\ d \in Nat
  BY ScoreIs
<1>6. /\ f = 1 \/ f = 2 \/ f = 3 \/ f = 4
      /\ w \in Nat
      /\ f = 1 => w = 15
      /\ f = 2 => w = 35
      /\ f = 3 => w = 20
      /\ f = 4 => w = 30
  BY DEF FIELD_WEIGHTS
<1>7. /\ TRUE \in Comparisons(a, b) => num >= 86 * den
      /\ num > 86 * den => Comparisons(a, b) = {TRUE}
  <2>1. num \in Int
    BY <1>1, <1>2, <1>3
  <2> DEFINE t == 86 * den
  <2>2. Comparisons(a, b) = IF num > t THEN {TRUE} ELSE IF num < t THEN {FALSE} ELSE BOOLEAN
    BY DEF Comparisons, MATCH_THRESHOLD
  <2>3. t \in Int
    BY <1>1
  <2> HIDE DEF num, t
  <2>4. TRUE \in Comparisons(a, b) => ~ (num < t) \/ num > t
    BY <2>2, Zenon
  <2>5. num > t => Comparisons(a, b) = {TRUE}
    BY <2>2
  <2>6. TRUE \in Comparisons(a, b) => num >= t
    BY <2>1, <2>3, <2>4
  <2> QED BY <2>5, <2>6 DEF t
<1>8. \A g \in 1..4 : L(g) = 0 <=> parts(a)[g] = parts(b)[g]
  BY LostBounded
<1> HIDE DEF den, num, L, n, d, w
<1>9. ASSUME TRUE \in Comparisons(a, b)
      PROVE  w * d <= 14 * n
  <2>1. w * L(f) <= 14 * den
    BY <1>1, <1>2, <1>3, <1>6, <1>7, <1>9
  <2>2. w * (d * p) <= 14 * (n * p)
    BY <1>4, <2>1
  <2> QED BY <1>4, <1>5, <1>6, <2>2, ProductCompares
<1>10. ASSUME \A g \in 1..4 \ {f} : parts(a)[g] = parts(b)[g],
              w * d < 14 * n
       PROVE  Comparisons(a, b) = {TRUE}
  <2>1. \A g \in 1..4 : g # f => L(g) = 0
    BY <1>8, <1>10
  <2>2. 15 * L(1) + 35 * L(2) + 20 * L(3) + 30 * L(4) = w * L(f)
    <3>1. 1 \in 1..4 /\ 2 \in 1..4 /\ 3 \in 1..4 /\ 4 \in 1..4
      OBVIOUS
    <3>2. CASE f = 1
      BY <1>2, <1>6, <2>1, <3>1, <3>2
    <3>3. CASE f = 2
      BY <1>2, <1>6, <2>1, <3>1, <3>3
    <3>4. CASE f = 3
      BY <1>2, <1>6, <2>1, <3>1, <3>4
    <3>5. CASE f = 4
      BY <1>2, <1>6, <2>1, <3>1, <3>5
    <3> QED BY <1>6, <3>2, <3>3, <3>4, <3>5
  <2>3. ~ (14 * (n * p) <= w * (d * p))
    <3>1. w * d \in Nat /\ 14 * n \in Nat
      BY <1>5, <1>6, ProductPositive
    <3>2. ~ (14 * n <= w * d)
      BY <1>10, <3>1
    <3>3. 14 * (n * p) <= w * (d * p) <=> 14 * n <= w * d
      BY <1>4, <1>5, <1>6, ProductCompares
    <3> QED BY <3>2, <3>3
  <2>4. w * L(f) \in Nat /\ ~ (14 * den <= w * L(f))
    <3>1. L(f) \in Nat
      BY <1>2, <1>6
    <3> QED BY <1>4, <1>6, <2>3, <3>1, ProductPositive
  <2>5. num > 86 * den
    BY <1>1, <1>3, <2>2, <2>4
  <2> QED BY <1>7, <2>5
<1> QED BY <1>9, <1>10 DEF n, d, w

-----------------------------------------------------------------------------
(* Sequences of texts.                                                     *)

\* The parts of z are those of x and then those of y.
Strung(z, x, y) ==
  /\ Len(z) = Len(x) + Len(y)
  /\ \A i \in 1..Len(x) : z[i] = x[i]
  /\ \A i \in 1..Len(y) : z[Len(x) + i] = y[i]

(***************************************************************************)
(* When a sequence is one followed by another.                             *)
(***************************************************************************)
LEMMA IsConcat ==
  ASSUME NEW S, NEW x \in Seq(S), NEW y \in Seq(S), NEW z \in Seq(S),
         Strung(z, x, y)
  PROVE  z = x \o y
<1> USE DEF Strung
<1>1. x \o y \in Seq(S) /\ Len(x \o y) = Len(z)
  OBVIOUS
<1>2. ASSUME NEW i \in 1..Len(z) PROVE z[i] = (x \o y)[i]
  <2>1. CASE i <= Len(x)
    BY <2>1
  <2>2. CASE i > Len(x)
    <3>1. i - Len(x) \in 1..Len(y) /\ Len(x) + (i - Len(x)) = i
      BY <2>2
    <3> QED BY <2>2, <3>1
  <2> QED BY <2>1, <2>2
<1> QED BY <1>1, <1>2

\* What FlattenSeq comes to, part after part.
IsFlat(g, ss, S) ==
  /\ g \in [0..Len(ss) -> Seq(S)] /\ g[0] = <<>>
  /\ \A k \in 1..Len(ss) : g[k] = g[k - 1] \o ss[k]

(***************************************************************************)
(* FlattenSeq strings together the parts before each place.                *)
(***************************************************************************)
LEMMA FlatExists ==
  ASSUME NEW S, NEW ss \in Seq(Seq(S))
  PROVE  \E g : IsFlat(g, ss, S) /\ FlattenSeq(ss) = g[Len(ss)]
<1> DEFINE n == Len(ss)
           step == [k \in 1..n |-> [x \in Seq(S) |-> x \o ss[k]]]
           Is(f) == f = [k \in 1..n |-> IF k = 1 THEN ss[k] ELSE f[k - 1] \o ss[k]]
<1>1. n \in Nat /\ \A k \in 1..n : ss[k] \in Seq(S)
  OBVIOUS
<1>2. PICK g : IsRecursion(g, n, Seq(S), <<>>, step)
  <2>1. step \in Steps(n, Seq(S))
    <3> SUFFICES ASSUME NEW k \in 1..n, NEW x \in Seq(S) PROVE x \o ss[k] \in Seq(S)
      BY DEF Steps
    <3> QED BY <1>1
  <2>2. <<>> \in Seq(S)
    OBVIOUS
  <2> HIDE DEF n, step
  <2> QED BY <1>1, <2>1, <2>2, RecursionExists, Zenon
<1>3. IsFlat(g, ss, S)
  <2>1. g \in [0..n -> Seq(S)] /\ g[0] = <<>> /\ \A k \in 1..n : g[k] = step[k][g[k - 1]]
    BY <1>2 DEF IsRecursion
  <2>2. ASSUME NEW k \in 1..n PROVE g[k] = g[k - 1] \o ss[k]
    <3>1. k - 1 \in 0..n
      BY <1>1
    <3>2. g[k - 1] \in Seq(S)
      BY <2>1, <3>1
    <3> QED BY <2>1, <3>2
  <2> HIDE DEF step
  <2> QED BY <2>1, <2>2 DEF IsFlat
<1> HIDE DEF step
<1>4. CASE n = 0
  BY <1>3, <1>4 DEF FlattenSeq, IsFlat
<1>5. CASE n # 0
  <2> DEFINE f == [k \in 1..n |-> g[k]]
  <2>1. Is(f)
    <3> SUFFICES ASSUME NEW k \in 1..n
                 PROVE  f[k] = IF k = 1 THEN ss[k] ELSE f[k - 1] \o ss[k]
      OBVIOUS
    <3>1. k \in 1..n /\ k - 1 \in 0..n /\ (k # 1 => k - 1 \in 1..n) /\ k - 1 \in Int
      BY <1>1
    <3>2. f[k] = g[k - 1] \o ss[k]
      BY <1>3, <3>1 DEF IsFlat
    <3>3. k = 1 => f[k] = ss[k]
      <4> SUFFICES ASSUME k = 1 PROVE f[k] = ss[k]
        OBVIOUS
      <4>1. g[k - 1] = <<>> /\ ss[k] \in Seq(S)
        BY <1>1, <1>3 DEF IsFlat
      <4>2. <<>> \o ss[k] = ss[k]
        BY <4>1
      <4> HIDE DEF f
      <4> QED BY <3>2, <4>1, <4>2
    <3> QED BY <3>1, <3>2, <3>3
  <2>2. \A h : Is(h) => h = f
    <3> SUFFICES ASSUME NEW h, Is(h) PROVE h = f
      OBVIOUS
    <3> DEFINE P == {k \in 0..n : k > 0 => h[k] = f[k]}
    <3>1. 0 \in P
      BY <1>1
    <3>2. ASSUME NEW k \in 1..n, k - 1 \in P PROVE k \in P
      <4>1. k \in 0..n /\ (k # 1 => k - 1 \in 1..n /\ k - 1 > 0)
        BY <1>1
      <4>2. h[k] = IF k = 1 THEN ss[k] ELSE h[k - 1] \o ss[k]
        BY <3>2
      <4>3. f[k] = IF k = 1 THEN ss[k] ELSE f[k - 1] \o ss[k]
        BY <2>1
      <4>4. k # 1 => h[k - 1] = f[k - 1]
        BY <3>2, <4>1
      <4>5. h[k] = f[k]
        <5> HIDE DEF f
        <5> QED BY <4>2, <4>3, <4>4
      <4> QED BY <4>1, <4>5
    <3>3. \A k \in 0..n : k \in P
      <4> HIDE DEF P, n
      <4> QED BY <1>1, <3>1, <3>2, UpTo
    <3>4. \A k \in 1..n : h[k] = f[k]
      <4> SUFFICES ASSUME NEW k \in 1..n PROVE h[k] = f[k]
        OBVIOUS
      <4>1. k \in 0..n /\ k > 0
        BY <1>1
      <4> QED BY <3>3, <4>1
    <3>5. h = [k \in 1..n |-> h[k]] /\ f = [k \in 1..n |-> f[k]]
      OBVIOUS
    <3> QED BY <3>4, <3>5
  <2>3. FlattenSeq(ss) = (CHOOSE h : Is(h))[n]
    BY <1>5 DEF FlattenSeq
  <2>4. (CHOOSE h : Is(h)) = f
    <3> HIDE DEF Is, f
    <3> QED BY <2>1, <2>2
  <2>5. f[n] = g[n]
    BY <1>1, <1>5
  <2> QED BY <1>3, <2>3, <2>4, <2>5
<1> QED BY <1>4, <1>5

(***************************************************************************)
(* There is one way to string parts together.                              *)
(***************************************************************************)
LEMMA FlatUnique ==
  ASSUME NEW S, NEW ss \in Seq(Seq(S)), NEW g, IsFlat(g, ss, S)
  PROVE  FlattenSeq(ss) = g[Len(ss)]
<1>1. PICK h : IsFlat(h, ss, S) /\ FlattenSeq(ss) = h[Len(ss)]
  BY FlatExists
<1> DEFINE n == Len(ss)
           P == {k \in 0..n : h[k] = g[k]}
<1>2. n \in Nat
  OBVIOUS
<1>3. 0 \in P
  BY <1>1, <1>2 DEF IsFlat
<1>4. ASSUME NEW k \in 1..n, k - 1 \in P PROVE k \in P
  <2>1. k \in 0..n /\ h[k - 1] = g[k - 1]
    BY <1>2, <1>4
  <2>2. h[k] = h[k - 1] \o ss[k] /\ g[k] = g[k - 1] \o ss[k]
    BY <1>1 DEF IsFlat
  <2> QED BY <2>1, <2>2
<1>5. n \in P
  <2>1. n \in 0..n
    BY <1>2
  <2> HIDE DEF P, n
  <2> QED BY <1>2, <1>3, <1>4, <2>1, UpTo
<1> QED BY <1>1, <1>5

(***************************************************************************)
(* FlattenSeq of no part, of one, and of some parts and others.            *)
(***************************************************************************)
LEMMA FlattenIs ==
  ASSUME NEW S, NEW ss \in Seq(Seq(S)), NEW tt \in Seq(Seq(S)), NEW x \in Seq(S)
  PROVE  /\ FlattenSeq(ss) \in Seq(S)
         /\ FlattenSeq(<<>>) = <<>>
         /\ FlattenSeq(<<x>>) = x
         /\ FlattenSeq(ss \o tt) = FlattenSeq(ss) \o FlattenSeq(tt)
<1>1. \A rr \in Seq(Seq(S)) : FlattenSeq(rr) \in Seq(S)
  <2> SUFFICES ASSUME NEW rr \in Seq(Seq(S)) PROVE FlattenSeq(rr) \in Seq(S)
    OBVIOUS
  <2>1. PICK g : IsFlat(g, rr, S) /\ FlattenSeq(rr) = g[Len(rr)]
    BY FlatExists
  <2>2. Len(rr) \in 0..Len(rr)
    OBVIOUS
  <2> QED BY <2>1, <2>2 DEF IsFlat
<1>2. FlattenSeq(<<>>) = <<>>
  BY DEF FlattenSeq
<1>3. FlattenSeq(<<x>>) = x
  <2> DEFINE g == [k \in 0..1 |-> IF k = 0 THEN <<>> ELSE x]
  <2>1. IsFlat(g, <<x>>, S)
    BY DEF IsFlat
  <2>2. <<x>> \in Seq(Seq(S)) /\ Len(<<x>>) = 1 /\ g[1] = x
    OBVIOUS
  <2> HIDE DEF g
  <2> QED BY <2>1, <2>2, FlatUnique
<1>4. FlattenSeq(ss \o tt) = FlattenSeq(ss) \o FlattenSeq(tt)
  <2>1. PICK g : IsFlat(g, ss, S) /\ FlattenSeq(ss) = g[Len(ss)]
    BY FlatExists
  <2>2. PICK h : IsFlat(h, tt, S) /\ FlattenSeq(tt) = h[Len(tt)]
    BY FlatExists
  <2> DEFINE m == Len(ss)
             n == Len(tt)
             f == [k \in 0..m + n |-> IF k <= m THEN g[k] ELSE g[m] \o h[k - m]]
  <2>3. /\ m \in Nat /\ n \in Nat /\ m \in 0..m /\ m <= m
        /\ ss \o tt \in Seq(Seq(S)) /\ Len(ss \o tt) = m + n
        /\ \A k \in 1..m : (ss \o tt)[k] = ss[k] /\ ss[k] \in Seq(S)
        /\ \A k \in 1..n : (ss \o tt)[m + k] = tt[k] /\ tt[k] \in Seq(S)
    OBVIOUS
  <2>4. /\ g \in [0..m -> Seq(S)] /\ g[0] = <<>> /\ \A k \in 1..m : g[k] = g[k - 1] \o ss[k]
        /\ h \in [0..n -> Seq(S)] /\ h[0] = <<>> /\ \A k \in 1..n : h[k] = h[k - 1] \o tt[k]
    BY <2>1, <2>2 DEF IsFlat
  <2> HIDE DEF m, n
  <2>5. \A k \in 0..m : f[k] = g[k] /\ f[k] \in Seq(S)
    <3> SUFFICES ASSUME NEW k \in 0..m PROVE f[k] = g[k] /\ f[k] \in Seq(S)
      OBVIOUS
    <3>1. k \in 0..m + n /\ k <= m
      BY <2>3
    <3>2. f[k] = g[k]
      BY <3>1
    <3>3. g[k] \in Seq(S)
      BY <2>4
    <3> HIDE DEF f
    <3> QED BY <3>2, <3>3
  <2>6. \A k \in 0..n : f[m + k] = g[m] \o h[k] /\ f[m + k] \in Seq(S)
    <3> SUFFICES ASSUME NEW k \in 0..n PROVE f[m + k] = g[m] \o h[k] /\ f[m + k] \in Seq(S)
      OBVIOUS
    <3>1. m + k \in 0..m + n /\ (m + k) - m = k /\ (m + k <= m <=> k = 0)
      BY <2>3
    <3>2. g[m] \in Seq(S) /\ h[k] \in Seq(S)
      BY <2>3, <2>4
    <3>3. f[m + k] = IF k = 0 THEN g[m + k] ELSE g[m] \o h[k]
      BY <3>1
    <3>4. CASE k = 0
      <4>1. m + k = m
        BY <2>3, <3>4
      <4>2. g[m] \o <<>> = g[m]
        BY <3>2
      <4> HIDE DEF f
      <4> QED BY <2>3, <2>4, <3>2, <3>3, <3>4, <4>1, <4>2
    <3>5. CASE k # 0
      <4>1. g[m] \o h[k] \in Seq(S)
        BY <3>2
      <4> HIDE DEF f
      <4> QED BY <3>3, <3>5, <4>1
    <3> QED BY <3>4, <3>5
  <2>7. ASSUME NEW k \in 0..m + n PROVE k \in 0..m \/ (k - m \in 1..n /\ m + (k - m) = k)
    BY <2>3
  <2> HIDE DEF f
  <2>8. IsFlat(f, ss \o tt, S)
    <3>1. ASSUME NEW k \in 0..m + n PROVE f[k] \in Seq(S)
      <4>1. CASE k \in 0..m
        BY <2>5, <4>1
      <4>2. CASE k - m \in 1..n /\ m + (k - m) = k
        <5>1. k - m \in 0..n
          BY <2>3, <4>2
        <5> QED BY <2>6, <4>2, <5>1
      <4> QED BY <2>7, <4>1, <4>2
    <3>2. f \in [0..m + n -> Seq(S)]
      BY <3>1 DEF f
    <3>3. f[0] = <<>>
      BY <2>3, <2>4, <2>5
    <3>4. ASSUME NEW k \in 1..m + n PROVE f[k] = f[k - 1] \o (ss \o tt)[k]
      <4>1. CASE k \in 1..m
        <5>1. k \in 0..m /\ k - 1 \in 0..m
          BY <2>3, <4>1
        <5> QED BY <2>3, <2>4, <2>5, <4>1, <5>1
      <4>2. CASE k \notin 1..m
        <5> DEFINE j == k - m
        <5>1. j \in 1..n /\ j \in 0..n /\ j - 1 \in 0..n /\ m + j = k /\ m + (j - 1) = k - 1
          BY <2>3, <4>2
        <5> HIDE DEF j
        <5>2. f[k] = g[m] \o h[j] /\ f[k - 1] = g[m] \o h[j - 1]
          BY <2>6, <5>1
        <5>3. h[j] = h[j - 1] \o tt[j] /\ (ss \o tt)[k] = tt[j]
          BY <2>3, <2>4, <5>1
        <5>4. g[m] \in Seq(S) /\ h[j - 1] \in Seq(S) /\ tt[j] \in Seq(S)
          BY <2>3, <2>4, <5>1
        <5>5. g[m] \o (h[j - 1] \o tt[j]) = (g[m] \o h[j - 1]) \o tt[j]
          <6> DEFINE u == g[m]
                     v == h[j - 1]
                     w == tt[j]
          <6>1. u \in Seq(S) /\ v \in Seq(S) /\ w \in Seq(S)
            BY <5>4
          <6> HIDE DEF u, v, w
          <6>2. u \o (v \o w) = (u \o v) \o w
            BY <6>1, SMTT(30)
          <6> QED BY <6>2 DEF u, v, w
        <5> QED BY <5>2, <5>3, <5>5
      <4> QED BY <4>1, <4>2
    <3> QED BY <2>3, <3>2, <3>3, <3>4 DEF IsFlat
  <2>9. FlattenSeq(ss \o tt) = f[m + n]
    BY <2>3, <2>8, FlatUnique
  <2>10. f[m + n] = g[m] \o h[n]
    <3>1. n \in 0..n
      BY <2>3
    <3> QED BY <2>6, <3>1
  <2> QED BY <2>1, <2>2, <2>9, <2>10 DEF m, n
<1> QED BY <1>1, <1>2, <1>3, <1>4

LEMMA FlattenConcat ==
  ASSUME NEW S, NEW ss \in Seq(Seq(S)), NEW tt \in Seq(Seq(S))
  PROVE  FlattenSeq(ss \o tt) = FlattenSeq(ss) \o FlattenSeq(tt)
<1>1. <<>> \in Seq(S)
  OBVIOUS
<1> QED BY <1>1, FlattenIs

(***************************************************************************)
(* A set with the empty text and, with every text, that text and one more  *)
(* letter has all texts.                                                   *)
(***************************************************************************)
LEMMA TextInduction ==
  ASSUME NEW S, NEW P, <<>> \in P,
         \A u \in Seq(S), c \in S : u \in P => u \o <<c>> \in P
  PROVE  \A u \in Seq(S) : u \in P
<1> SUFFICES ASSUME NEW u \in Seq(S) PROVE u \in P
  OBVIOUS
<1> DEFINE n == Len(u)
           Q == {k \in 0..n : SubSeq(u, 1, k) \in P}
<1>1. n \in Nat
  OBVIOUS
<1>2. 0 \in Q
  <2>1. SubSeq(u, 1, 0) = <<>> /\ 0 \in 0..n
    OBVIOUS
  <2> QED BY <2>1
<1>3. ASSUME NEW k \in 1..n, k - 1 \in Q PROVE k \in Q
  <2>1. k \in 0..n /\ SubSeq(u, 1, k - 1) \in P /\ u[k] \in S
    BY <1>3
  <2>2. SubSeq(u, 1, k - 1) \in Seq(S) /\ SubSeq(u, 1, k) \in Seq(S)
    BY <2>1
  <2>3. SubSeq(u, 1, k) = SubSeq(u, 1, k - 1) \o <<u[k]>>
    <3>1. /\ Len(SubSeq(u, 1, k - 1)) = k - 1 /\ Len(SubSeq(u, 1, k)) = k
          /\ <<u[k]>> \in Seq(S) /\ Len(<<u[k]>>) = 1
      BY <2>1
    <3>2. \A i \in 1..k - 1 : SubSeq(u, 1, k)[i] = SubSeq(u, 1, k - 1)[i]
      BY <2>1
    <3>3. SubSeq(u, 1, k)[k] = u[k]
      BY <2>1
    <3>4. \A i \in 1..1 : SubSeq(u, 1, k)[(k - 1) + i] = <<u[k]>>[i]
      BY <3>3
    <3> DEFINE x == SubSeq(u, 1, k - 1)
               y == <<u[k]>>
               z == SubSeq(u, 1, k)
    <3>5. /\ x \in Seq(S) /\ y \in Seq(S) /\ z \in Seq(S)
          /\ Len(z) = Len(x) + Len(y)
          /\ \A i \in 1..Len(x) : z[i] = x[i]
          /\ \A i \in 1..Len(y) : z[Len(x) + i] = y[i]
      BY <2>2, <3>1, <3>2, <3>4
    <3> HIDE DEF x, y, z
    <3>6. z = x \o y
      BY <3>5, IsConcat DEF Strung
    <3> QED BY <3>6 DEF x, y, z
  <2> DEFINE w == SubSeq(u, 1, k - 1)
  <2> HIDE DEF w
  <2>4. w \o <<u[k]>> \in P
    BY <2>1, <2>2 DEF w
  <2> QED BY <2>1, <2>3, <2>4 DEF w
<1>4. n \in Q
  <2>1. n \in 0..n
    BY <1>1
  <2> HIDE DEF Q, n
  <2> QED BY <1>1, <1>2, <1>3, <2>1, UpTo
<1>5. SubSeq(u, 1, n) = u
  OBVIOUS
<1> QED BY <1>4, <1>5

(***************************************************************************)
(* A text is one of other letters, if its letters are.                     *)
(***************************************************************************)
LEMMA Retyped ==
  ASSUME NEW S, NEW C, NEW u \in Seq(S), \A i \in 1..Len(u) : u[i] \in C
  PROVE  u \in Seq(C)
<1>1. u = [i \in 1..Len(u) |-> u[i]] /\ Len(u) \in Nat
  OBVIOUS
<1>2. [i \in 1..Len(u) |-> u[i]] \in Seq(C)
  BY <1>1
<1> QED BY <1>1, <1>2

-----------------------------------------------------------------------------
(* Folding.                                                                *)

(***************************************************************************)
(* A single character is replaced as said, and no character by none.       *)
(***************************************************************************)
LEMMA MappedLetter ==
  ASSUME NEW S, NEW T, NEW f \in [S -> Seq(T)]
  PROVE  Mapped(f, <<>>) = <<>> /\ \A c \in S : Mapped(f, <<c>>) = f[c]
<1>1. <<>> \in Seq(Seq(T)) /\ <<>> \in Seq(T)
  OBVIOUS
<1>2. Mapped(f, <<>>) = <<>>
  <2>1. [i \in DOMAIN <<>> |-> f[<<>>[i]]] = <<>>
    OBVIOUS
  <2>2. FlattenSeq(<<>>) = <<>>
    BY <1>1, FlattenIs
  <2> QED BY <2>1, <2>2 DEF Mapped
<1>3. ASSUME NEW c \in S PROVE Mapped(f, <<c>>) = f[c]
  <2>1. [i \in DOMAIN <<c>> |-> f[<<c>>[i]]] = <<f[c]>> /\ f[c] \in Seq(T)
    OBVIOUS
  <2>2. FlattenSeq(<<f[c]>>) = f[c]
    BY <1>1, <2>1, FlattenIs
  <2> QED BY <2>1, <2>2 DEF Mapped
<1> QED BY <1>2, <1>3

(***************************************************************************)
(* Replacing the characters of a text gives a text.                        *)
(***************************************************************************)
LEMMA MappedType ==
  ASSUME NEW S, NEW T, NEW f \in [S -> Seq(T)], NEW u \in Seq(S)
  PROVE  Mapped(f, u) \in Seq(T)
<1> DEFINE R == Seq(T)
<1>1. DOMAIN u = 1..Len(u) /\ Len(u) \in Nat /\ \A i \in 1..Len(u) : f[u[i]] \in R
  OBVIOUS
<1>2. [i \in DOMAIN u |-> f[u[i]]] \in Seq(R)
  <2> HIDE DEF R
  <2>1. [i \in 1..Len(u) |-> f[u[i]]] \in Seq(R)
    BY <1>1
  <2> QED BY <1>1, <2>1
<1>3. <<>> \in Seq(T)
  OBVIOUS
<1> QED BY <1>2, <1>3, FlattenIs DEF Mapped

(***************************************************************************)
(* Replacing characters works part by part.                                *)
(***************************************************************************)
LEMMA MappedConcat ==
  ASSUME NEW S, NEW T, NEW f \in [S -> Seq(T)], NEW u \in Seq(S), NEW v \in Seq(S)
  PROVE  Mapped(f, u \o v) = Mapped(f, u) \o Mapped(f, v)
<1> DEFINE F(w) == [i \in DOMAIN w |-> f[w[i]]]
           R == Seq(T)
<1>1. ASSUME NEW w \in Seq(S)
      PROVE  /\ F(w) \in Seq(R) /\ Len(F(w)) = Len(w)
             /\ \A i \in 1..Len(w) : F(w)[i] = f[w[i]]
  <2>1. DOMAIN w = 1..Len(w) /\ Len(w) \in Nat /\ \A i \in 1..Len(w) : f[w[i]] \in R
    OBVIOUS
  <2> HIDE DEF R
  <2>2. F(w) = [i \in 1..Len(w) |-> f[w[i]]]
    BY <2>1
  <2>3. [i \in 1..Len(w) |-> f[w[i]]] \in Seq(R) /\ Len([i \in 1..Len(w) |-> f[w[i]]]) = Len(w)
    BY <2>1
  <2> QED BY <2>2, <2>3
<1>2. F(u \o v) = F(u) \o F(v)
  <2>1. /\ u \o v \in Seq(S) /\ Len(u \o v) = Len(u) + Len(v)
        /\ \A i \in 1..Len(u) : i \in 1..Len(u \o v) /\ (u \o v)[i] = u[i]
        /\ \A i \in 1..Len(v) : Len(u) + i \in 1..Len(u \o v) /\ (u \o v)[Len(u) + i] = v[i]
    OBVIOUS
  <2> DEFINE x == F(u)
             y == F(v)
             w == u \o v
             z == F(w)
  <2> HIDE DEF w, R
  <2>2. /\ x \in Seq(R) /\ y \in Seq(R) /\ z \in Seq(R)
        /\ Len(x) = Len(u) /\ Len(y) = Len(v) /\ Len(z) = Len(w)
        /\ \A i \in 1..Len(u) : x[i] = f[u[i]]
        /\ \A i \in 1..Len(v) : y[i] = f[v[i]]
        /\ \A i \in 1..Len(w) : z[i] = f[w[i]]
    <3> HIDE DEF F
    <3> QED BY <1>1, <2>1 DEF w
  <2> HIDE DEF x, y, z
  <2>3. \A i \in 1..Len(x) : z[i] = x[i]
    BY <2>1, <2>2 DEF w
  <2>4. ASSUME NEW i \in 1..Len(y) PROVE z[Len(x) + i] = y[i]
    <3> DEFINE k == Len(u) + i
    <3>1. k \in 1..Len(w) /\ w[k] = v[i] /\ y[i] = f[v[i]]
      BY <2>1, <2>2 DEF w
    <3> HIDE DEF k
    <3>2. z[k] = f[w[k]]
      BY <2>2, <3>1
    <3> QED BY <2>2, <3>1, <3>2 DEF k
  <2>5. Len(z) = Len(x) + Len(y)
    BY <2>1, <2>2 DEF w
  <2>6. Strung(z, x, y)
    BY <2>3, <2>4, <2>5 DEF Strung
  <2>7. z = x \o y
    BY <2>2, <2>6, IsConcat
  <2> QED BY <2>7 DEF x, y, z, w
<1>3. \A w : Mapped(f, w) = FlattenSeq(F(w))
  BY DEF Mapped
<1>4. F(u) \in Seq(Seq(T)) /\ F(v) \in Seq(Seq(T)) /\ <<>> \in Seq(T)
  BY <1>1
<1> HIDE DEF F, R
<1>5. FlattenSeq(F(u) \o F(v)) = FlattenSeq(F(u)) \o FlattenSeq(F(v))
  BY <1>4, FlattenIs
<1>6. /\ Mapped(f, u \o v) = FlattenSeq(F(u \o v))
      /\ Mapped(f, u) = FlattenSeq(F(u)) /\ Mapped(f, v) = FlattenSeq(F(v))
  BY <1>3
<1> QED BY <1>2, <1>5, <1>6

(***************************************************************************)
(* One character more.                                                     *)
(***************************************************************************)
LEMMA MappedAppend ==
  ASSUME NEW S, NEW T, NEW f \in [S -> Seq(T)], NEW u \in Seq(S), NEW c \in S
  PROVE  Mapped(f, u \o <<c>>) = Mapped(f, u) \o f[c]
<1>1. <<c>> \in Seq(S)
  OBVIOUS
<1> DEFINE v == <<c>>
<1> HIDE DEF v
<1>2. v \in Seq(S)
  BY <1>1 DEF v
<1>3. Mapped(f, u \o v) = Mapped(f, u) \o Mapped(f, v)
  BY <1>2, MappedConcat
<1>4. Mapped(f, <<c>>) = f[c]
  BY MappedLetter
<1> QED BY <1>3, <1>4 DEF v

\* Every character of u is replaced by itself.
Fixes(f, u) == \A i \in DOMAIN u : f[u[i]] = <<u[i]>>

(***************************************************************************)
(* Nothing changes where every character is replaced by itself.            *)
(***************************************************************************)
LEMMA MappedSame ==
  ASSUME NEW S, NEW f \in [S -> Seq(S)], NEW u \in Seq(S), Fixes(f, u)
  PROVE  Mapped(f, u) = u
<1> DEFINE C == {c \in S : f[c] = <<c>>}
           P == {w \in Seq(C) : Mapped(f, w) = w}
<1>1. <<>> \in P
  <2>1. <<>> \in Seq(C) /\ <<>> \in Seq(S)
    OBVIOUS
  <2>2. Mapped(f, <<>>) = <<>>
    BY MappedLetter
  <2> QED BY <2>1, <2>2
<1>2. ASSUME NEW w \in Seq(C), NEW c \in C, w \in P PROVE w \o <<c>> \in P
  <2>1. w \in Seq(S) /\ <<c>> \in Seq(S) /\ c \in S /\ f[c] = <<c>> /\ w \o <<c>> \in Seq(C)
    OBVIOUS
  <2>2. Mapped(f, w) = w
    BY <1>2
  <2> HIDE DEF C, P
  <2>3. Mapped(f, w \o <<c>>) = Mapped(f, w) \o f[c]
    BY <2>1, MappedAppend
  <2> QED BY <2>1, <2>2, <2>3 DEF P
<1>3. u \in Seq(C)
  <2>1. \A i \in 1..Len(u) : u[i] \in C
    BY DEF Fixes
  <2> HIDE DEF C
  <2> QED BY <2>1, Retyped
<1>4. u \in P
  <2> HIDE DEF P, C
  <2> QED BY <1>1, <1>2, <1>3, TextInduction
<1> QED BY <1>4

(***************************************************************************)
(* A character is what one of the characters is replaced by.               *)
(***************************************************************************)
LEMMA MappedFrom ==
  ASSUME NEW S, NEW T, NEW D, NEW f \in [S -> Seq(T)], NEW u \in Seq(S),
         \A i \in DOMAIN u : f[u[i]] \in Seq(D)
  PROVE  Mapped(f, u) \in Seq(D)
<1> DEFINE C == {c \in S : f[c] \in Seq(D)}
           g == [c \in C |-> f[c]]
<1>1. DOMAIN u = 1..Len(u) /\ \A i \in 1..Len(u) : u[i] \in C
  OBVIOUS
<1>2. g \in [C -> Seq(D)] /\ u \in Seq(C)
  <2>1. g \in [C -> Seq(D)]
    OBVIOUS
  <2> HIDE DEF C, g
  <2> QED BY <1>1, <2>1, Retyped
<1>3. Mapped(g, u) = Mapped(f, u)
  <2>1. [i \in DOMAIN u |-> g[u[i]]] = [i \in DOMAIN u |-> f[u[i]]]
    BY <1>1
  <2> HIDE DEF g
  <2> QED BY <2>1 DEF Mapped
<1> HIDE DEF C, g
<1>4. Mapped(g, u) \in Seq(D)
  BY <1>2, MappedType
<1> QED BY <1>3, <1>4

(***************************************************************************)
(* The same, from characters to characters.                                *)
(***************************************************************************)
LEMMA CharsConcat ==
  ASSUME NEW f \in [Chars -> Seq(Chars)], NEW u \in Seq(Chars), NEW v \in Seq(Chars)
  PROVE  Mapped(f, u \o v) = Mapped(f, u) \o Mapped(f, v)
BY MappedConcat

\* The last stage of folding: punctuation becomes white space.
Spaced(t) == [i \in DOMAIN t |-> IF t[i] \in Punctuation THEN Space ELSE t[i]]

(***************************************************************************)
(* Spacing punctuation works part by part.                                 *)
(***************************************************************************)
LEMMA SpacedType ==
  ASSUME NEW u \in Seq(Chars)
  PROVE  Spaced(u) \in Seq(Chars) /\ Len(Spaced(u)) = Len(u)
         /\ \A i \in 1..Len(u) : Spaced(u)[i] = IF u[i] \in Punctuation THEN Space ELSE u[i]
<1>1. Space \in Chars
  BY CharsAssumption
<1>2. DOMAIN u = 1..Len(u) /\ Len(u) \in Nat /\ \A i \in 1..Len(u) : u[i] \in Chars
  OBVIOUS
<1>3. Spaced(u) = [i \in 1..Len(u) |-> IF u[i] \in Punctuation THEN Space ELSE u[i]]
  BY <1>2 DEF Spaced
<1> QED BY <1>1, <1>2, <1>3

LEMMA SpacedConcat ==
  ASSUME NEW u \in Seq(Chars), NEW v \in Seq(Chars)
  PROVE  Spaced(u \o v) = Spaced(u) \o Spaced(v)
<1> DEFINE w == u \o v
           x == Spaced(u)
           y == Spaced(v)
           z == Spaced(w)
<1>1. /\ w \in Seq(Chars) /\ Len(w) = Len(u) + Len(v)
      /\ \A i \in 1..Len(u) : i \in 1..Len(w) /\ w[i] = u[i]
      /\ \A i \in 1..Len(v) : Len(u) + i \in 1..Len(w) /\ w[Len(u) + i] = v[i]
  OBVIOUS
<1> HIDE DEF w
<1>2. /\ x \in Seq(Chars) /\ Len(x) = Len(u)
      /\ \A i \in 1..Len(u) : x[i] = IF u[i] \in Punctuation THEN Space ELSE u[i]
  BY SpacedType
<1>3. /\ y \in Seq(Chars) /\ Len(y) = Len(v)
      /\ \A i \in 1..Len(v) : y[i] = IF v[i] \in Punctuation THEN Space ELSE v[i]
  BY SpacedType
<1>4. /\ z \in Seq(Chars) /\ Len(z) = Len(w)
      /\ \A i \in 1..Len(w) : z[i] = IF w[i] \in Punctuation THEN Space ELSE w[i]
  BY <1>1, SpacedType
<1> HIDE DEF x, y, z
<1>5. \A i \in 1..Len(x) : z[i] = x[i]
  BY <1>1, <1>2, <1>4
<1>6. ASSUME NEW i \in 1..Len(y) PROVE z[Len(x) + i] = y[i]
  <2> DEFINE k == Len(u) + i
  <2>1. k \in 1..Len(w) /\ w[k] = v[i] /\ k = Len(x) + i
    BY <1>1, <1>2, <1>3
  <2> HIDE DEF k
  <2> QED BY <1>3, <1>4, <2>1
<1>7. Strung(z, x, y)
  BY <1>1, <1>2, <1>3, <1>4, <1>5, <1>6 DEF Strung
<1>8. z = x \o y
  BY <1>2, <1>3, <1>4, <1>7, IsConcat
<1> QED BY <1>8 DEF w, x, y, z

\* The characters in C go, the others stay.
Keeping(C) == [c \in Chars |-> IF c \in C THEN <<>> ELSE <<c>>]

(***************************************************************************)
(* The replacements canonicalisation is made of replace characters by      *)
(* texts.                                                                  *)
(***************************************************************************)
LEMMA Replacements ==
  /\ strip \in [Chars -> Seq(Chars)] /\ casefold \in [Chars -> Seq(Chars)]
  /\ upper \in [Chars -> Seq(Chars)]
  /\ \A C : Keeping(C) \in [Chars -> Seq(Chars)]
<1>1. ASSUME NEW C, NEW c \in Chars
      PROVE  (IF c \in C THEN <<>> ELSE <<c>>) \in Seq(Chars)
  OBVIOUS
<1> QED BY <1>1, CharsAssumption DEF Keeping

\* Two stages of folding.
Unmarked(t) == Mapped(Keeping(Apostrophes), Mapped(strip, t))
Lowered(t) == Mapped(casefold, Unmarked(t))

(***************************************************************************)
(* Folding works part by part.                                             *)
(***************************************************************************)
LEMMA FoldedType ==
  ASSUME NEW u \in Seq(Chars)
  PROVE  /\ Mapped(strip, u) \in Seq(Chars) /\ Unmarked(u) \in Seq(Chars)
         /\ Lowered(u) \in Seq(Chars)
         /\ Folded(u) = Spaced(Lowered(u)) /\ Folded(u) \in Seq(Chars)
<1>1. Mapped(strip, u) \in Seq(Chars)
  BY Replacements, MappedType
<1>2. Unmarked(u) \in Seq(Chars)
  BY <1>1, Replacements, MappedType DEF Unmarked
<1>3. Lowered(u) \in Seq(Chars)
  BY <1>2, Replacements, MappedType DEF Lowered
<1>4. Folded(u) = Spaced(Lowered(u))
  BY DEF Folded, Spaced, Lowered, Unmarked, Without, Keeping
<1>5. Spaced(Lowered(u)) \in Seq(Chars)
  BY <1>3, SpacedType
<1> QED BY <1>1, <1>2, <1>3, <1>4, <1>5

LEMMA FoldedConcat ==
  ASSUME NEW u \in Seq(Chars), NEW v \in Seq(Chars)
  PROVE  Folded(u \o v) = Folded(u) \o Folded(v)
<1>1. u \o v \in Seq(Chars)
  OBVIOUS
<1>2. Mapped(strip, u \o v) = Mapped(strip, u) \o Mapped(strip, v)
  <2>1. strip \in [Chars -> Seq(Chars)]
    BY Replacements
  <2> QED BY <2>1, CharsConcat
<1>3. Unmarked(u \o v) = Unmarked(u) \o Unmarked(v)
  <2>1. Mapped(strip, u) \in Seq(Chars) /\ Mapped(strip, v) \in Seq(Chars)
    BY FoldedType
  <2> DEFINE k == Keeping(Apostrophes)
             x == Mapped(strip, u)
             y == Mapped(strip, v)
  <2>2. k \in [Chars -> Seq(Chars)]
    BY Replacements
  <2> HIDE DEF k, x, y
  <2>3. Mapped(k, x \o y) = Mapped(k, x) \o Mapped(k, y)
    <3>1. x \in Seq(Chars) /\ y \in Seq(Chars)
      BY <2>1 DEF x, y
    <3> QED BY <2>2, <3>1, CharsConcat
  <2> QED BY <1>2, <2>3 DEF Unmarked, k, x, y
<1>4. Lowered(u \o v) = Lowered(u) \o Lowered(v)
  <2>1. Unmarked(u) \in Seq(Chars) /\ Unmarked(v) \in Seq(Chars)
    BY FoldedType
  <2> DEFINE x == Unmarked(u)
             y == Unmarked(v)
  <2>2. casefold \in [Chars -> Seq(Chars)]
    BY Replacements
  <2> HIDE DEF x, y
  <2>3. Mapped(casefold, x \o y) = Mapped(casefold, x) \o Mapped(casefold, y)
    <3>1. x \in Seq(Chars) /\ y \in Seq(Chars)
      BY <2>1 DEF x, y
    <3> QED BY <2>2, <3>1, CharsConcat
  <2> QED BY <1>3, <2>3 DEF Lowered, x, y
<1>5. Spaced(Lowered(u) \o Lowered(v)) = Spaced(Lowered(u)) \o Spaced(Lowered(v))
  <2>1. Lowered(u) \in Seq(Chars) /\ Lowered(v) \in Seq(Chars)
    BY FoldedType
  <2> QED BY <2>1, SpacedConcat
<1>6. /\ Folded(u) = Spaced(Lowered(u)) /\ Folded(v) = Spaced(Lowered(v))
      /\ Folded(u \o v) = Spaced(Lowered(u \o v))
  BY <1>1, FoldedType
<1> QED BY <1>4, <1>5, <1>6

\* What each character is folded to.
Fold == [c \in Chars |-> Folded(<<c>>)]

(***************************************************************************)
(* Folding replaces each character by what it is folded to.                *)
(***************************************************************************)
LEMMA FoldedIs ==
  /\ Fold \in [Chars -> Seq(Chars)]
  /\ \A u \in Seq(Chars) : Folded(u) = Mapped(Fold, u)
<1>1. Fold \in [Chars -> Seq(Chars)]
  <2>1. ASSUME NEW c \in Chars PROVE Folded(<<c>>) \in Seq(Chars)
    BY <<c>> \in Seq(Chars), FoldedType
  <2> QED BY <2>1 DEF Fold
<1> DEFINE P == {u \in Seq(Chars) : Folded(u) = Mapped(Fold, u)}
<1>2. <<>> \in P
  <2>1. <<>> \in Seq(Chars)
    OBVIOUS
  <2>2. Mapped(strip, <<>>) = <<>> /\ Mapped(casefold, <<>>) = <<>>
        /\ Mapped(Keeping(Apostrophes), <<>>) = <<>> /\ Mapped(Fold, <<>>) = <<>>
    BY <1>1, Replacements, MappedLetter
  <2>3. Lowered(<<>>) = <<>>
    BY <2>2 DEF Lowered, Unmarked
  <2>4. Spaced(<<>>) = <<>>
    BY DEF Spaced
  <2>5. Folded(<<>>) = Spaced(Lowered(<<>>))
    BY <2>1, FoldedType
  <2> QED BY <2>1, <2>2, <2>3, <2>4, <2>5
<1>3. ASSUME NEW u \in Seq(Chars), NEW c \in Chars, u \in P PROVE u \o <<c>> \in P
  <2>1. <<c>> \in Seq(Chars) /\ u \o <<c>> \in Seq(Chars)
    OBVIOUS
  <2>2. Folded(u \o <<c>>) = Folded(u) \o Folded(<<c>>)
    BY <2>1, FoldedConcat
  <2>3. Mapped(Fold, u \o <<c>>) = Mapped(Fold, u) \o Fold[c]
    BY <1>1, MappedAppend
  <2>4. Fold[c] = Folded(<<c>>)
    BY DEF Fold
  <2> QED BY <1>3, <2>1, <2>2, <2>3, <2>4
<1>4. \A u \in Seq(Chars) : u \in P
  <2> HIDE DEF P
  <2> QED BY <1>2, <1>3, TextInduction
<1> QED BY <1>1, <1>4

(***************************************************************************)
(* Folding makes of a single character what it is to become.               *)
(***************************************************************************)
LEMMA FoldedIsPlain ==
  ASSUME NEW c \in Chars
  PROVE  Folded(<<c>>) = Plain(c)
<1>1. Mapped(strip, <<c>>) = strip[c]
  BY Replacements, MappedLetter
<1> DEFINE folded == Mapped(casefold, Without(strip[c], Apostrophes))
<1>2. Folded(<<c>>) = [i \in DOMAIN folded |-> IF folded[i] \in Punctuation THEN Space ELSE folded[i]]
  BY <1>1 DEF Folded
<1> QED BY <1>2 DEF Plain

(***************************************************************************)
(* What is assumed of Unicode, said of folding.                            *)
(***************************************************************************)
LEMMA FoldingLaws ==
  /\ \A c \in Chars : \A d \in ToSet(Folded(<<c>>)) : Folded(<<d>>) = <<d>>
  /\ \A c \in Spaces : \E d \in Spaces : Folded(<<c>>) = <<d>>
  /\ Folded(<<Space>>) = <<Space>>
  /\ \A c \in Letters : \E d \in Chars \ Spaces : Folded(<<c>>) = <<d>>
  /\ \A c \in Marks : Folded(<<c>>) = <<>>
<1>1. ASSUME NEW c \in Chars, NEW d \in ToSet(Folded(<<c>>)) PROVE Folded(<<d>>) = <<d>>
  <2> DEFINE t == Folded(<<c>>)
  <2>1. t \in Seq(Chars)
    BY <<c>> \in Seq(Chars), FoldedType
  <2> HIDE DEF t
  <2>2. \A e \in ToSet(t) : e \in Chars
    BY <2>1 DEF ToSet
  <2>3. d \in Chars
    BY <2>2 DEF t
  <2>4. Folded(<<c>>) = Plain(c) /\ Folded(<<d>>) = Plain(d)
    BY <2>3, FoldedIsPlain
  <2> QED BY <2>4, FoldingAssumption
<1>2. Spaces \subseteq Chars /\ Space \in Chars /\ Letters \subseteq Chars /\ Marks \subseteq Chars
  BY CharsAssumption, OriginalsAssumption
<1> QED BY <1>1, <1>2, FoldedIsPlain, FoldingAssumption

-----------------------------------------------------------------------------
(* Words.                                                                  *)

(***************************************************************************)
(* A set of numbers that are not beyond n has a greatest one.              *)
(***************************************************************************)
LEMMA GreatestExists ==
  ASSUME NEW n \in Nat, NEW D, D \subseteq 0..n, D # {}
  PROVE  Max(D) \in D /\ \A k \in D : k <= Max(D)
<1> DEFINE E == {n - k : k \in D}
<1>1. E \in SUBSET Nat /\ E # {}
  <2>1. ASSUME NEW k \in D PROVE n - k \in Nat /\ n - k \in E
    <3>1. k \in 0..n
      OBVIOUS
    <3> QED BY <3>1
  <2>2. PICK k \in D : TRUE
    OBVIOUS
  <2> QED BY <2>1, <2>2
<1>2. PICK e \in E : \A d \in E : e <= d
  <2> HIDE DEF E
  <2> QED BY <1>1, LeastNatural
<1>3. PICK m \in D : e = n - m
  BY <1>2
<1>4. \A k \in D : m >= k
  <2> SUFFICES ASSUME NEW k \in D PROVE m >= k
    OBVIOUS
  <2>1. e <= n - k
    BY <1>2
  <2>2. m \in 0..n /\ k \in 0..n
    OBVIOUS
  <2> QED BY <1>3, <2>1, <2>2
<1>5. Max(D) = CHOOSE x \in D : \A y \in D : x >= y
  BY DEF Max
<1>6. Max(D) \in D /\ \A k \in D : Max(D) >= k
  BY <1>4, <1>5
<1>7. ASSUME NEW k \in D PROVE k <= Max(D)
  <2> DEFINE g == Max(D)
  <2>1. g \in D /\ g >= k
    BY <1>6
  <2> HIDE DEF g
  <2>2. k \in 0..n /\ g \in 0..n
    BY <2>1
  <2>3. k <= g
    BY <2>1, <2>2
  <2> QED BY <2>3 DEF g
<1> QED BY <1>6, <1>7

\* No white space in w.
Spaceless == {w \in Seq(Chars) : \A i \in 1..Len(w) : w[i] \notin Spaces}

Word == Spaceless \ {<<>>}

\* The word that begins at place i of text t ends at place e.
WordEnd(t, i, e) ==
  /\ e \in i..Len(t) /\ \A k \in i..e : t[k] \notin Spaces
  /\ e = Len(t) \/ t[e + 1] \in Spaces

(***************************************************************************)
(* A word ends where the next white space begins, and only there.          *)
(***************************************************************************)
LEMMA WordEnds ==
  ASSUME NEW t \in Seq(Chars), NEW i \in 1..Len(t), t[i] \notin Spaces
  PROVE  /\ \E e : WordEnd(t, i, e)
         /\ \A e : WordEnd(t, i, e) => WordAt(t, i) = SubSeq(t, i, e)
<1> DEFINE n == Len(t)
           D == {j \in i..n : \A k \in i..j : t[k] \notin Spaces}
           e == Max(D)
<1>1. n \in Nat /\ i \in Nat /\ i >= 1 /\ i <= n
  OBVIOUS
<1>2. D \subseteq 0..n /\ D # {}
  <2>1. i \in D
    BY <1>1
  <2> QED BY <1>1, <2>1
<1>3. e \in D /\ \A k \in D : k <= e
  <2> HIDE DEF D, n
  <2> QED BY <1>1, <1>2, GreatestExists
<1> HIDE DEF e
<1>4. e \in i..n /\ \A k \in i..e : t[k] \notin Spaces
  BY <1>3
<1>5. e = n \/ t[e + 1] \in Spaces
  <2> SUFFICES ASSUME e # n, t[e + 1] \notin Spaces PROVE FALSE
    OBVIOUS
  <2>1. e + 1 \in i..n /\ \A k \in i..e + 1 : k \in i..e \/ k = e + 1
    BY <1>1, <1>4
  <2>2. e + 1 \in D
    BY <1>4, <2>1
  <2>3. e + 1 <= e /\ e \in Nat
    BY <1>1, <1>3, <1>4, <2>2
  <2> QED BY <2>3
<1>6. WordEnd(t, i, e)
  BY <1>4, <1>5 DEF WordEnd
<1>7. ASSUME NEW d, WordEnd(t, i, d) PROVE d = e
  <2>1. d \in i..n /\ (\A k \in i..d : t[k] \notin Spaces) /\ (d = n \/ t[d + 1] \in Spaces)
    BY <1>7 DEF WordEnd
  <2>2. d \in Nat /\ e \in Nat /\ d <= e
    <3>1. d \in D
      BY <2>1
    <3> QED BY <1>1, <1>3, <1>4, <2>1, <3>1
  <2>3. d >= e
    <3> SUFFICES ASSUME d < e PROVE FALSE
      BY <2>2
    <3>1. d + 1 \in i..e /\ d # n
      BY <1>1, <1>4, <2>1, <2>2
    <3> QED BY <1>4, <2>1, <3>1
  <2> QED BY <2>2, <2>3
<1>8. WordAt(t, i) = SubSeq(t, i, e)
  BY DEF WordAt, e
<1> QED BY <1>6, <1>7, <1>8

\* The word that begins at each place, if one does.
Pieces(t) == [i \in DOMAIN t |-> IF Begins(t, i) THEN <<WordAt(t, i)>> ELSE <<>>]

(***************************************************************************)
(* What begins at a place is a word.                                       *)
(***************************************************************************)
LEMMA PiecesType ==
  ASSUME NEW t \in Seq(Chars)
  PROVE  /\ Pieces(t) \in Seq(Seq(Word)) /\ Len(Pieces(t)) = Len(t)
         /\ \A i \in 1..Len(t) :
              Pieces(t)[i] = IF Begins(t, i) THEN <<WordAt(t, i)>> ELSE <<>>
<1>1. ASSUME NEW i \in 1..Len(t), Begins(t, i) PROVE WordAt(t, i) \in Word
  <2>1. t[i] \notin Spaces
    BY <1>1 DEF Begins
  <2>2. PICK e : WordEnd(t, i, e)
    BY <2>1, WordEnds
  <2>3. WordAt(t, i) = SubSeq(t, i, e)
    BY <2>1, <2>2, WordEnds
  <2>4. e \in i..Len(t) /\ \A k \in i..e : t[k] \notin Spaces
    BY <2>2 DEF WordEnd
  <2>5. /\ SubSeq(t, i, e) \in Seq(Chars) /\ Len(SubSeq(t, i, e)) = e - i + 1
        /\ \A k \in 1..e - i + 1 : SubSeq(t, i, e)[k] = t[i + k - 1]
    BY <2>4
  <2>6. \A k \in 1..e - i + 1 : i + k - 1 \in i..e
    BY <2>4
  <2>7. e - i + 1 # 0
    BY <2>4
  <2> DEFINE w == SubSeq(t, i, e)
  <2> HIDE DEF w
  <2>8. w \in Seq(Chars) /\ Len(w) # 0 /\ \A k \in 1..Len(w) : w[k] \notin Spaces
    BY <2>4, <2>5, <2>6, <2>7 DEF w
  <2>9. w \in Word
    BY <2>8 DEF Word, Spaceless
  <2> QED BY <2>3, <2>9 DEF w
<1>2. ASSUME NEW i \in 1..Len(t)
      PROVE  (IF Begins(t, i) THEN <<WordAt(t, i)>> ELSE <<>>) \in Seq(Word)
  BY <1>1
<1>3. DOMAIN t = 1..Len(t) /\ Len(t) \in Nat
  OBVIOUS
<1>4. Pieces(t) = [i \in 1..Len(t) |-> IF Begins(t, i) THEN <<WordAt(t, i)>> ELSE <<>>]
  BY <1>3 DEF Pieces
<1> DEFINE R == Seq(Word)
<1> HIDE DEF R
<1>5. \A i \in 1..Len(t) : (IF Begins(t, i) THEN <<WordAt(t, i)>> ELSE <<>>) \in R
  BY <1>2 DEF R
<1>6. Pieces(t) \in Seq(R) /\ Len(Pieces(t)) = Len(t)
  BY <1>3, <1>4, <1>5
<1> QED BY <1>3, <1>4, <1>6 DEF R

(***************************************************************************)
(* The words of a text are words.                                          *)
(***************************************************************************)
LEMMA WordsType ==
  ASSUME NEW t \in Seq(Chars)
  PROVE  Words(t) \in Seq(Word)
<1>1. Words(t) = FlattenSeq(Pieces(t))
  BY DEF Words, Pieces
<1>2. <<>> \in Seq(Word) /\ Pieces(t) \in Seq(Seq(Word))
  BY PiecesType
<1>3. FlattenSeq(Pieces(t)) \in Seq(Word)
  BY <1>2, FlattenIs
<1> QED BY <1>1, <1>3

(***************************************************************************)
(* A word is its only word, and nothing has none.                          *)
(***************************************************************************)
LEMMA WordsOfWord ==
  /\ Words(<<>>) = <<>>
  /\ \A w \in Word : Words(w) = <<w>>
<1>1. Words(<<>>) = <<>>
  BY DEF Words, FlattenSeq
<1>2. ASSUME NEW w \in Word PROVE Words(w) = <<w>>
  <2>1. w \in Seq(Chars) /\ Len(w) \in Nat /\ Len(w) >= 1 /\ \A i \in 1..Len(w) : w[i] \notin Spaces
    BY DEF Word, Spaceless
  <2>2. \A i \in 1..Len(w) : Begins(w, i) <=> i = 1
    <3> SUFFICES ASSUME NEW i \in 1..Len(w) PROVE Begins(w, i) <=> i = 1
      OBVIOUS
    <3>1. i # 1 => i - 1 \in 1..Len(w)
      BY <2>1
    <3> QED BY <2>1, <3>1 DEF Begins
  <2>3. WordEnd(w, 1, Len(w))
    BY <2>1 DEF WordEnd
  <2>4. WordAt(w, 1) = SubSeq(w, 1, Len(w))
    BY <2>1, <2>3, WordEnds
  <2>5. WordAt(w, 1) = w
    BY <2>1, <2>4
  <2> DEFINE p == Pieces(w)
             g == [k \in 0..Len(p) |-> IF k = 0 THEN <<>> ELSE <<w>>]
  <2>6. /\ p \in Seq(Seq(Word)) /\ Len(p) = Len(w)
        /\ \A i \in 1..Len(p) : p[i] = IF i = 1 THEN <<w>> ELSE <<>>
    BY <2>1, <2>2, <2>5, PiecesType
  <2> HIDE DEF p
  <2>7. <<w>> \in Seq(Word) /\ <<>> \in Seq(Word) /\ <<w>> \o <<>> = <<w>> /\ <<>> \o <<w>> = <<w>>
    OBVIOUS
  <2>8. IsFlat(g, p, Word)
    <3>1. g \in [0..Len(p) -> Seq(Word)] /\ g[0] = <<>>
      BY <2>1, <2>6, <2>7
    <3>2. ASSUME NEW k \in 1..Len(p) PROVE g[k] = g[k - 1] \o p[k]
      <4>1. k \in 0..Len(p) /\ k - 1 \in 0..Len(p) /\ k # 0 /\ (k - 1 = 0 <=> k = 1)
        BY <2>1, <2>6
      <4> QED BY <2>6, <2>7, <4>1
    <3> QED BY <3>1, <3>2 DEF IsFlat
  <2>9. g[Len(p)] = <<w>>
    BY <2>1, <2>6
  <2> HIDE DEF g
  <2>10. FlattenSeq(p) = <<w>>
    BY <2>6, <2>8, <2>9, FlatUnique
  <2> QED BY <2>10 DEF p, Words, Pieces
<1> QED BY <1>1, <1>2

(***************************************************************************)
(* The words on both sides of white space are those of each side.          *)
(***************************************************************************)
LEMMA WordsConcat ==
  ASSUME NEW u \in Seq(Chars), NEW s \in Spaces, NEW v \in Seq(Chars)
  PROVE  Words(u \o <<s>> \o v) = Words(u) \o Words(v)
<1> DEFINE m == Len(u)
           n == Len(v)
           t == u \o <<s>> \o v
<1>1. /\ t \in Seq(Chars) /\ Len(t) = m + 1 + n /\ m \in Nat /\ n \in Nat
      /\ \A i \in 1..m : t[i] = u[i]
      /\ t[m + 1] = s
      /\ \A i \in 1..n : t[m + 1 + i] = v[i]
  <2>1. s \in Chars /\ m \in Nat /\ n \in Nat
    BY CharsAssumption
  <2> DEFINE x == u \o <<s>>
  <2>2. /\ x \in Seq(Chars) /\ Len(x) = m + 1 /\ \A i \in 1..m : x[i] = u[i]
        /\ x[m + 1] = s
    BY <2>1
  <2> HIDE DEF x
  <2>3. /\ x \o v \in Seq(Chars) /\ Len(x \o v) = Len(x) + Len(v)
        /\ \A i \in 1..Len(x) : (x \o v)[i] = x[i]
        /\ \A i \in 1..Len(v) : (x \o v)[Len(x) + i] = v[i]
    BY <2>2
  <2>4. t = x \o v
    BY DEF x
  <2> HIDE DEF t
  <2>5. ASSUME NEW i \in 1..m PROVE t[i] = u[i]
    <3>1. i \in 1..Len(x)
      BY <2>1, <2>2
    <3> QED BY <2>2, <2>3, <2>4, <3>1
  <2>6. t[m + 1] = s
    <3>1. m + 1 \in 1..Len(x)
      BY <2>1, <2>2
    <3> QED BY <2>2, <2>3, <2>4, <3>1
  <2> QED BY <2>1, <2>2, <2>3, <2>4, <2>5, <2>6
<1> HIDE DEF t, m, n
<1>2. ASSUME NEW i \in 1..m PROVE /\ Begins(t, i) <=> Begins(u, i)
                                  /\ Begins(u, i) => WordAt(t, i) = WordAt(u, i)
  <2>1. /\ i \in 1..Len(u) /\ i \in 1..Len(t) /\ t[i] = u[i]
        /\ i # 1 => i - 1 \in 1..m /\ t[i - 1] = u[i - 1]
    <3>1. m \in Nat /\ n \in Nat /\ m = Len(u) /\ Len(t) = m + 1 + n
      BY <1>1 DEF m
    <3>2. i \in 1..Len(u) /\ i \in 1..Len(t) /\ (i # 1 => i - 1 \in 1..m)
      BY <3>1
    <3>3. \A k \in 1..m : t[k] = u[k]
      BY <1>1
    <3> QED BY <3>2, <3>3
  <2>2. Begins(t, i) <=> Begins(u, i)
    BY <2>1 DEF Begins
  <2>3. ASSUME Begins(u, i) PROVE WordAt(t, i) = WordAt(u, i)
    <3>1. u[i] \notin Spaces
      BY <2>3 DEF Begins
    <3>2. PICK e : WordEnd(u, i, e)
      BY <2>1, <3>1, WordEnds
    <3>3. /\ e \in i..m /\ (\A k \in i..e : u[k] \notin Spaces)
          /\ e = m \/ u[e + 1] \in Spaces
      BY <3>2 DEF WordEnd, m
    <3>4. \A k \in i..e : t[k] = u[k]
      BY <1>1, <3>3
    <3>5. t[e + 1] \in Spaces
      <4>1. CASE e = m
        BY <1>1, <4>1
      <4>2. CASE e # m
        <5>1. e + 1 \in 1..m
          BY <1>1, <3>3, <4>2
        <5> QED BY <1>1, <3>3, <4>2, <5>1
      <4> QED BY <4>1, <4>2
    <3>6. e \in i..Len(t)
      BY <1>1, <3>3
    <3>7. WordEnd(t, i, e)
      BY <3>3, <3>4, <3>5, <3>6 DEF WordEnd
    <3>8. WordAt(u, i) = SubSeq(u, i, e) /\ WordAt(t, i) = SubSeq(t, i, e)
      <4>1. WordAt(u, i) = SubSeq(u, i, e)
        BY <2>1, <3>1, <3>2, WordEnds
      <4>2. t \in Seq(Chars) /\ i \in 1..Len(t) /\ t[i] \notin Spaces
        BY <1>1, <2>1, <3>1
      <4>3. WordAt(t, i) = SubSeq(t, i, e)
        BY <3>7, <4>2, WordEnds
      <4> QED BY <4>1, <4>3
    <3>9. SubSeq(u, i, e) = [k \in 1..e - i + 1 |-> u[i + k - 1]]
      BY <3>3 DEF m
    <3>10. SubSeq(t, i, e) = [k \in 1..e - i + 1 |-> t[i + k - 1]]
      BY <1>1, <3>6
    <3>11. \A k \in 1..e - i + 1 : i + k - 1 \in i..e
      BY <3>3
    <3> QED BY <3>4, <3>8, <3>9, <3>10, <3>11
  <2> QED BY <2>2, <2>3
<1>3. ~Begins(t, m + 1)
  BY <1>1 DEF Begins
<1>4. ASSUME NEW i \in 1..n PROVE /\ Begins(t, m + 1 + i) <=> Begins(v, i)
                                  /\ Begins(v, i) => WordAt(t, m + 1 + i) = WordAt(v, i)
  <2> DEFINE h == m + 1 + i
  <2>1. /\ i \in 1..Len(v) /\ h \in 1..Len(t) /\ t[h] = v[i] /\ h # 1
        /\ i # 1 => t[h - 1] = v[i - 1]
        /\ i = 1 => t[h - 1] = s
    <3>1. i \in 1..Len(v) /\ h \in 1..Len(t) /\ h # 1
      BY <1>1 DEF n
    <3>2. t[h] = v[i]
      BY <1>1
    <3>3. i # 1 => i - 1 \in 1..n /\ h - 1 = m + 1 + (i - 1)
      BY <1>1
    <3>4. i = 1 => h - 1 = m + 1
      BY <1>1
    <3> HIDE DEF h
    <3> QED BY <1>1, <3>1, <3>2, <3>3, <3>4
  <2>2. h - 1 = m + i
    BY <1>1
  <2> HIDE DEF h
  <2>3. Begins(t, h) <=> Begins(v, i)
    BY <2>1 DEF Begins
  <2>4. ASSUME Begins(v, i) PROVE WordAt(t, h) = WordAt(v, i)
    <3>1. v[i] \notin Spaces
      BY <2>4 DEF Begins
    <3>2. PICK e : WordEnd(v, i, e)
      BY <2>1, <3>1, WordEnds
    <3>3. /\ e \in i..n /\ (\A k \in i..e : v[k] \notin Spaces)
          /\ e = n \/ v[e + 1] \in Spaces
      BY <3>2 DEF WordEnd, n
    <3> DEFINE d == m + 1 + e
    <3>4. d \in h..Len(t) /\ (e = n => d = Len(t)) /\ d - h + 1 = e - i + 1
      BY <1>1, <3>3 DEF h
    <3>5. ASSUME NEW k \in h..d PROVE t[k] \notin Spaces
      <4> DEFINE j == k - (m + 1)
      <4>1. j \in i..e /\ j \in 1..n /\ m + 1 + j = k
        BY <1>1, <3>3 DEF h
      <4> HIDE DEF j
      <4> QED BY <1>1, <3>3, <4>1
    <3>6. d = Len(t) \/ t[d + 1] \in Spaces
      <4> SUFFICES ASSUME e # n PROVE t[d + 1] \in Spaces
        BY <3>4
      <4>1. e + 1 \in 1..n /\ d + 1 = m + 1 + (e + 1)
        BY <1>1, <3>3
      <4> HIDE DEF d
      <4> QED BY <1>1, <3>3, <4>1
    <3> HIDE DEF d
    <3>7. WordEnd(t, h, d)
      BY <3>4, <3>5, <3>6 DEF WordEnd
    <3>8. WordAt(v, i) = SubSeq(v, i, e) /\ WordAt(t, h) = SubSeq(t, h, d)
      BY <1>1, <2>1, <3>1, <3>2, <3>7, WordEnds
    <3>9. SubSeq(v, i, e) = [k \in 1..e - i + 1 |-> v[i + k - 1]]
      BY <3>3 DEF n
    <3>10. SubSeq(t, h, d) = [k \in 1..e - i + 1 |-> t[h + k - 1]]
      BY <1>1, <2>1, <3>4
    <3>11. ASSUME NEW k \in 1..e - i + 1 PROVE t[h + k - 1] = v[i + k - 1]
      <4> DEFINE j == i + k - 1
      <4>1. j \in 1..n /\ m + 1 + j = h + k - 1
        BY <1>1, <3>3 DEF h
      <4> HIDE DEF j
      <4>2. t[m + 1 + j] = v[j]
        BY <1>1, <4>1
      <4> QED BY <4>1, <4>2 DEF j
    <3>12. SubSeq(t, h, d) = SubSeq(v, i, e)
      BY <3>9, <3>10, <3>11
    <3> QED BY <3>8, <3>12
  <2> QED BY <2>3, <2>4 DEF h
<1> DEFINE R == Seq(Word)
           x == Pieces(u)
           o == << <<>> >>
           y == Pieces(v)
           z == Pieces(t)
<1>5. /\ x \in Seq(R) /\ Len(x) = m
      /\ \A i \in 1..m : x[i] = IF Begins(u, i) THEN <<WordAt(u, i)>> ELSE <<>>
  BY PiecesType DEF m
<1>6. /\ y \in Seq(R) /\ Len(y) = n
      /\ \A i \in 1..n : y[i] = IF Begins(v, i) THEN <<WordAt(v, i)>> ELSE <<>>
  BY PiecesType DEF n
<1>7. /\ z \in Seq(R) /\ Len(z) = Len(t)
      /\ \A i \in 1..Len(t) : z[i] = IF Begins(t, i) THEN <<WordAt(t, i)>> ELSE <<>>
  BY <1>1, PiecesType
<1>8. <<>> \in R
  OBVIOUS
<1> DEFINE xo == x \o o
<1> HIDE DEF R, x, y, z
<1>9. /\ o \in Seq(R) /\ xo \in Seq(R) /\ Len(xo) = m + 1
      /\ \A i \in 1..m : xo[i] = x[i]
      /\ xo[m + 1] = <<>>
  BY <1>1, <1>5, <1>8
<1> HIDE DEF xo
<1>10. z = xo \o y
  <2>1. ASSUME NEW i \in 1..Len(xo) PROVE z[i] = xo[i]
    <3>1. i \in 1..Len(t) /\ (i \in 1..m \/ i = m + 1)
      BY <1>1, <1>9
    <3>2. CASE i \in 1..m
      BY <1>2, <1>5, <1>7, <1>9, <3>1, <3>2
    <3>3. CASE i = m + 1
      BY <1>3, <1>7, <1>9, <3>1, <3>3
    <3> QED BY <3>1, <3>2, <3>3
  <2>2. ASSUME NEW i \in 1..Len(y) PROVE z[Len(xo) + i] = y[i]
    <3> DEFINE k == m + 1 + i
    <3>1. k \in 1..Len(t) /\ i \in 1..n /\ k = Len(xo) + i
      BY <1>1, <1>6, <1>9
    <3>2. /\ Begins(t, k) <=> Begins(v, i)
          /\ Begins(v, i) => WordAt(t, k) = WordAt(v, i)
      BY <1>4, <3>1
    <3> HIDE DEF k
    <3> QED BY <1>6, <1>7, <3>1, <3>2
  <2>3. Len(z) = Len(xo) + Len(y)
    BY <1>1, <1>6, <1>7, <1>9
  <2>4. Strung(z, xo, y)
    BY <2>1, <2>2, <2>3 DEF Strung
  <2> QED BY <1>6, <1>7, <1>9, <2>4, IsConcat
<1>11. FlattenSeq(xo \o y) = FlattenSeq(xo) \o FlattenSeq(y)
  BY <1>6, <1>9, FlattenConcat DEF R
<1>12. FlattenSeq(xo) = FlattenSeq(x) \o FlattenSeq(o)
  BY <1>5, <1>9, FlattenConcat DEF R, xo
<1>13. FlattenSeq(o) = <<>> /\ FlattenSeq(x) \in R
  BY <1>5, <1>8, FlattenIs DEF R
<1>14. FlattenSeq(x) \o <<>> = FlattenSeq(x)
  BY <1>13 DEF R
<1>15. FlattenSeq(z) = FlattenSeq(x) \o FlattenSeq(y)
  BY <1>10, <1>11, <1>12, <1>13, <1>14
<1> QED BY <1>15 DEF Words, Pieces, x, y, z, t

(***************************************************************************)
(* Texts without white space.                                              *)
(***************************************************************************)
LEMMA SpacelessIs ==
  /\ <<>> \in Spaceless
  /\ \A c \in Chars \ Spaces : <<c>> \in Spaceless
  /\ \A w, x \in Spaceless : w \o x \in Spaceless
  /\ \A w \in Spaceless : w \in Seq(Chars)
<1>1. ASSUME NEW w \in Spaceless, NEW x \in Spaceless PROVE w \o x \in Spaceless
  <2> DEFINE C == Chars \ Spaces
  <2>1. w \in Seq(Chars) /\ x \in Seq(Chars)
        /\ (\A i \in 1..Len(w) : w[i] \in Chars \ Spaces)
        /\ (\A i \in 1..Len(x) : x[i] \in Chars \ Spaces)
    BY DEF Spaceless
  <2>2. w \in Seq(C) /\ x \in Seq(C)
    <3> HIDE DEF C
    <3> QED BY <2>1, Retyped DEF C
  <2>3. w \o x \in Seq(C) /\ w \o x \in Seq(Chars)
    BY <2>1, <2>2
  <2> DEFINE z == w \o x
  <2>4. \A i \in 1..Len(z) : z[i] \in C
    <3> HIDE DEF z, C
    <3> QED BY <2>3 DEF z
  <2> HIDE DEF z
  <2>5. z \in Spaceless
    BY <2>3, <2>4 DEF z, Spaceless
  <2> QED BY <2>5 DEF z
<1>2. ASSUME NEW c \in Chars \ Spaces PROVE <<c>> \in Spaceless
  BY DEF Spaceless
<1>3. <<>> \in Spaceless
  BY DEF Spaceless
<1> QED BY <1>1, <1>2, <1>3 DEF Spaceless

(***************************************************************************)
(* A text is without white space, or ends with a part without any after    *)
(* the last; or begins with one before the first.                          *)
(***************************************************************************)
LEMMA LastSpace ==
  ASSUME NEW t \in Seq(Chars)
  PROVE  \/ t \in Spaceless
         \/ \E u \in Seq(Chars), s \in Spaces, w \in Spaceless : t = u \o <<s>> \o w
<1> DEFINE P == {x \in Seq(Chars) :
                   \/ x \in Spaceless
                   \/ \E u \in Seq(Chars), s \in Spaces, w \in Spaceless : x = u \o <<s>> \o w}
<1>1. <<>> \in P
  BY SpacelessIs
<1>2. ASSUME NEW x \in Seq(Chars), NEW c \in Chars, x \in P PROVE x \o <<c>> \in P
  <2>1. x \o <<c>> \in Seq(Chars) /\ <<c>> \in Seq(Chars)
    OBVIOUS
  <2>2. CASE c \in Spaces
    <3>1. x \o <<c>> \o <<>> = x \o <<c>> /\ <<>> \in Spaceless
      BY <2>1, SpacelessIs
    <3> QED BY <2>1, <2>2, <3>1
  <2>3. CASE c \notin Spaces
    <3>1. <<c>> \in Spaceless
      BY <2>3, SpacelessIs
    <3>2. CASE x \in Spaceless
      BY <2>1, <3>1, <3>2, SpacelessIs
    <3>3. CASE x \notin Spaceless
      <4>1. PICK u \in Seq(Chars), s \in Spaces, w \in Spaceless : x = u \o <<s>> \o w
        BY <1>2, <3>3
      <4>2. s \in Chars /\ w \in Seq(Chars) /\ w \o <<c>> \in Spaceless
        BY <3>1, SpacelessIs, CharsAssumption
      <4> DEFINE y == <<c>>
                 o == <<s>>
      <4>3. y \in Seq(Chars) /\ o \in Seq(Chars)
        BY <4>2
      <4> HIDE DEF y, o
      <4>4. (u \o o \o w) \o y = u \o o \o (w \o y)
        BY <4>2, <4>3
      <4> HIDE DEF P
      <4>5. x \o <<c>> = u \o <<s>> \o (w \o <<c>>)
        BY <4>1, <4>4 DEF y, o
      <4> QED BY <2>1, <4>2, <4>5 DEF P
    <3> QED BY <3>2, <3>3
  <2> QED BY <2>2, <2>3
<1>3. t \in P
  <2> HIDE DEF P
  <2> QED BY <1>1, <1>2, TextInduction
<1> QED BY <1>3

LEMMA FirstSpace ==
  ASSUME NEW t \in Seq(Chars)
  PROVE  \/ t \in Spaceless
         \/ \E w \in Spaceless, s \in Spaces, v \in Seq(Chars) : t = w \o <<s>> \o v
<1> DEFINE P == {x \in Seq(Chars) :
                   \/ x \in Spaceless
                   \/ \E w \in Spaceless, s \in Spaces, v \in Seq(Chars) : x = w \o <<s>> \o v}
<1>1. <<>> \in P
  BY SpacelessIs
<1>2. ASSUME NEW x \in Seq(Chars), NEW c \in Chars, x \in P PROVE x \o <<c>> \in P
  <2>1. x \o <<c>> \in Seq(Chars) /\ <<c>> \in Seq(Chars)
    OBVIOUS
  <2>2. CASE x \in Spaceless
    <3>1. CASE c \in Spaces
      <4>1. x \o <<c>> \o <<>> = x \o <<c>> /\ <<>> \in Seq(Chars)
        BY <2>1
      <4> QED BY <2>1, <2>2, <3>1, <4>1
    <3>2. CASE c \notin Spaces
      <4>1. <<c>> \in Spaceless
        BY <3>2, SpacelessIs
      <4> QED BY <2>1, <2>2, <4>1, SpacelessIs
    <3> QED BY <3>1, <3>2
  <2>3. CASE x \notin Spaceless
    <3>1. PICK w \in Spaceless, s \in Spaces, v \in Seq(Chars) : x = w \o <<s>> \o v
      BY <1>2, <2>3
    <3>2. s \in Chars /\ w \in Seq(Chars) /\ v \o <<c>> \in Seq(Chars)
      BY <2>1, SpacelessIs, CharsAssumption
    <3> DEFINE y == <<c>>
               o == <<s>>
    <3>3. y \in Seq(Chars) /\ o \in Seq(Chars)
      BY <3>2
    <3> HIDE DEF y, o
    <3>4. (w \o o \o v) \o y = w \o o \o (v \o y)
      BY <3>2, <3>3
    <3> HIDE DEF P
    <3>5. x \o <<c>> = w \o <<s>> \o (v \o <<c>>)
      BY <3>1, <3>4 DEF y, o
    <3> QED BY <2>1, <3>2, <3>5 DEF P
  <2> QED BY <2>2, <2>3
<1>3. t \in P
  <2> HIDE DEF P
  <2> QED BY <1>1, <1>2, TextInduction
<1> QED BY <1>3

(***************************************************************************)
(* A set with the texts without white space and, with every text, that     *)
(* text, white space and one of them has all texts.                        *)
(***************************************************************************)
LEMMA WordwiseInduction ==
  ASSUME NEW P, \A w \in Spaceless : w \in P,
         \A u \in Seq(Chars), s \in Spaces, w \in Spaceless : u \in P => u \o <<s>> \o w \in P
  PROVE  \A u \in Seq(Chars) : u \in P
<1> DEFINE Q == {u \in Seq(Chars) : \A w \in Spaceless : u \o w \in P}
<1>1. <<>> \in Q
  BY SpacelessIs
<1>2. ASSUME NEW u \in Seq(Chars), NEW c \in Chars, u \in Q PROVE u \o <<c>> \in Q
  <2> SUFFICES ASSUME NEW w \in Spaceless PROVE (u \o <<c>>) \o w \in P
    OBVIOUS
  <2>1. w \in Seq(Chars) /\ <<c>> \in Seq(Chars)
    BY SpacelessIs
  <2>2. CASE c \in Spaces
    <3>1. u \o <<>> = u /\ <<>> \in Spaceless
      BY SpacelessIs
    <3>2. u \in P
      BY <1>2, <3>1
    <3> QED BY <2>2, <3>2
  <2>3. CASE c \notin Spaces
    <3>1. <<c>> \o w \in Spaceless
      BY <2>3, SpacelessIs
    <3>2. u \o (<<c>> \o w) \in P
      BY <1>2, <3>1
    <3> DEFINE y == <<c>>
    <3> HIDE DEF y
    <3>3. y \in Seq(Chars) /\ u \o (y \o w) \in P
      BY <2>1, <3>2 DEF y
    <3>4. u \o (y \o w) = (u \o y) \o w
      BY <2>1, <3>3
    <3> QED BY <3>3, <3>4 DEF y
  <2> QED BY <2>2, <2>3
<1>3. ASSUME NEW u \in Seq(Chars) PROVE u \in P
  <2>1. u \in Q
    <3> HIDE DEF Q
    <3> QED BY <1>1, <1>2, TextInduction
  <2>2. u \o <<>> = u /\ <<>> \in Spaceless
    BY SpacelessIs
  <2> QED BY <2>1, <2>2
<1> QED BY <1>3

-----------------------------------------------------------------------------
(* Joining words.                                                          *)

\* Every word but the first with a space before it.
Spacer(ws) == [i \in DOMAIN ws |-> IF i = 1 THEN ws[i] ELSE <<Space>> \o ws[i]]

LEMMA SpacerType ==
  ASSUME NEW ws \in Seq(Seq(Chars))
  PROVE  /\ Spacer(ws) \in Seq(Seq(Chars)) /\ Len(Spacer(ws)) = Len(ws)
         /\ \A i \in 1..Len(ws) :
              Spacer(ws)[i] = IF i = 1 THEN ws[i] ELSE <<Space>> \o ws[i]
<1> DEFINE R == Seq(Chars)
<1>1. Space \in Chars
  BY CharsAssumption
<1>2. DOMAIN ws = 1..Len(ws) /\ Len(ws) \in Nat /\ \A i \in 1..Len(ws) : ws[i] \in Seq(Chars)
  OBVIOUS
<1>3. \A i \in 1..Len(ws) : (IF i = 1 THEN ws[i] ELSE <<Space>> \o ws[i]) \in R
  BY <1>1, <1>2
<1>4. Spacer(ws) = [i \in 1..Len(ws) |-> IF i = 1 THEN ws[i] ELSE <<Space>> \o ws[i]]
  BY <1>2 DEF Spacer
<1> HIDE DEF R
<1>5. Spacer(ws) \in Seq(R) /\ Len(Spacer(ws)) = Len(ws)
  BY <1>2, <1>3, <1>4
<1> QED BY <1>2, <1>4, <1>5 DEF R

(***************************************************************************)
(* Joining words gives a text; no word joined is the empty text, and one   *)
(* word joined is itself.                                                  *)
(***************************************************************************)
LEMMA JoinedType ==
  ASSUME NEW ws \in Seq(Seq(Chars))
  PROVE  Joined(ws) \in Seq(Chars)
<1>1. Joined(ws) = FlattenSeq(Spacer(ws))
  BY DEF Joined, Spacer
<1>2. <<>> \in Seq(Chars) /\ Spacer(ws) \in Seq(Seq(Chars))
  BY SpacerType
<1>3. FlattenSeq(Spacer(ws)) \in Seq(Chars)
  BY <1>2, FlattenIs
<1> QED BY <1>1, <1>3

LEMMA JoinedFew ==
  /\ Joined(<<>>) = <<>>
  /\ \A w \in Seq(Chars) : Joined(<<w>>) = w
<1>1. <<>> \in Seq(Seq(Chars)) /\ <<>> \in Seq(Chars)
  OBVIOUS
<1>2. Joined(<<>>) = <<>>
  BY DEF Joined, FlattenSeq
<1>3. ASSUME NEW w \in Seq(Chars) PROVE Joined(<<w>>) = w
  <2>1. [i \in DOMAIN <<w>> |-> IF i = 1 THEN <<w>>[i] ELSE <<Space>> \o <<w>>[i]] = <<w>>
    OBVIOUS
  <2>2. FlattenSeq(<<w>>) = w
    BY <1>1, FlattenIs
  <2> QED BY <2>1, <2>2 DEF Joined
<1> QED BY <1>2, <1>3

(***************************************************************************)
(* One word more comes after a space.                                      *)
(***************************************************************************)
LEMMA JoinedAppend ==
  ASSUME NEW ws \in Seq(Seq(Chars)), ws # <<>>, NEW w \in Seq(Chars)
  PROVE  Joined(ws \o <<w>>) = Joined(ws) \o <<Space>> \o w
<1> DEFINE R == Seq(Chars)
           t == <<Space>> \o w
           vs == ws \o <<w>>
           x == Spacer(ws)
           y == <<t>>
           z == Spacer(vs)
<1>1. t \in R
  BY CharsAssumption
<1>2. /\ vs \in Seq(R) /\ Len(vs) = Len(ws) + 1 /\ Len(ws) \in Nat /\ Len(ws) # 0
      /\ \A i \in 1..Len(ws) : vs[i] = ws[i]
      /\ vs[Len(ws) + 1] = w
  <2>1. w \in R /\ ws \in Seq(R)
    OBVIOUS
  <2>2. Len(ws) # 0
    OBVIOUS
  <2> HIDE DEF R
  <2> QED BY <2>1, <2>2
<1>3. /\ x \in Seq(R) /\ Len(x) = Len(ws)
      /\ \A i \in 1..Len(ws) : x[i] = IF i = 1 THEN ws[i] ELSE <<Space>> \o ws[i]
  BY SpacerType
<1> HIDE DEF vs
<1>4. /\ z \in Seq(R) /\ Len(z) = Len(vs)
      /\ \A i \in 1..Len(vs) : z[i] = IF i = 1 THEN vs[i] ELSE <<Space>> \o vs[i]
  BY <1>2, SpacerType
<1> HIDE DEF R, x, t, z
<1>5. y \in Seq(R) /\ Len(y) = 1 /\ y[1] = t
  BY <1>1
<1> HIDE DEF y
<1>6. z = x \o y
  <2>1. ASSUME NEW i \in 1..Len(x) PROVE z[i] = x[i]
    <3>1. i \in 1..Len(ws) /\ i \in 1..Len(vs) /\ vs[i] = ws[i]
      BY <1>2, <1>3
    <3> QED BY <1>3, <1>4, <3>1
  <2>2. ASSUME NEW i \in 1..Len(y) PROVE z[Len(x) + i] = y[i]
    <3> DEFINE k == Len(ws) + 1
    <3>1. i = 1 /\ Len(x) + i = k /\ k \in 1..Len(vs) /\ k # 1
      BY <1>2, <1>3, <1>5
    <3> HIDE DEF k
    <3>2. vs[k] = w
      BY <1>2 DEF k
    <3>3. z[k] = <<Space>> \o w
      BY <1>4, <3>1, <3>2
    <3> QED BY <1>5, <3>1, <3>3 DEF t
  <2>3. Strung(z, x, y)
    BY <1>2, <1>3, <1>4, <1>5, <2>1, <2>2 DEF Strung
  <2> QED BY <1>3, <1>4, <1>5, <2>3, IsConcat
<1>7. FlattenSeq(x \o y) = FlattenSeq(x) \o FlattenSeq(y)
  BY <1>1, <1>3, <1>5, FlattenIs DEF R
<1>8. FlattenSeq(y) = t
  BY <1>1, <1>3, FlattenIs DEF R, y
<1>9. Joined(vs) = FlattenSeq(z) /\ Joined(ws) = FlattenSeq(x)
  BY DEF Joined, Spacer, z, x
<1>10. Joined(vs) = Joined(ws) \o t
  BY <1>6, <1>7, <1>8, <1>9
<1>11. Joined(ws) \o (<<Space>> \o w) = Joined(ws) \o <<Space>> \o w
  <2> DEFINE j == Joined(ws)
             o == <<Space>>
  <2>1. j \in Seq(Chars) /\ o \in Seq(Chars)
    BY JoinedType, CharsAssumption
  <2> HIDE DEF j, o
  <2>2. j \o (o \o w) = j \o o \o w
    BY <2>1
  <2> QED BY <2>2 DEF j, o
<1> QED BY <1>10, <1>11 DEF t, vs

(***************************************************************************)
(* Words joined on one side of a space and on the other.                   *)
(***************************************************************************)
LEMMA JoinedConcat ==
  ASSUME NEW ws \in Seq(Seq(Chars)), ws # <<>>, NEW vs \in Seq(Seq(Chars)), vs # <<>>
  PROVE  Joined(ws \o vs) = Joined(ws) \o <<Space>> \o Joined(vs)
<1> DEFINE R == Seq(Chars)
           P == {x \in Seq(R) : x # <<>> => Joined(ws \o x) = Joined(ws) \o <<Space>> \o Joined(x)}
<1>1. <<>> \in P
  OBVIOUS
<1>2. ASSUME NEW x \in Seq(R), NEW w \in R, x \in P PROVE x \o <<w>> \in P
  <2>1. x \o <<w>> \in Seq(R)
    <3> HIDE DEF R
    <3> QED OBVIOUS
  <2>2. CASE x = <<>>
    <3>1. x \o <<w>> = <<w>>
      BY <2>2
    <3>2. Joined(ws \o <<w>>) = Joined(ws) \o <<Space>> \o w /\ Joined(<<w>>) = w
      BY JoinedAppend, JoinedFew
    <3> HIDE DEF R
    <3> QED BY <2>1, <3>1, <3>2
  <2>3. CASE x # <<>>
    <3>1. Joined(ws \o x) = Joined(ws) \o <<Space>> \o Joined(x)
      BY <1>2, <2>3
    <3> DEFINE y == ws \o x
    <3>2. y \in Seq(R) /\ y # <<>> /\ ws \o (x \o <<w>>) = y \o <<w>>
      <4> HIDE DEF R
      <4>1. ws \in Seq(R)
        BY DEF R
      <4>2. y \in Seq(R)
        BY <4>1
      <4>3. Len(y) = Len(ws) + Len(x) /\ Len(ws) # 0 /\ Len(ws) \in Nat /\ Len(x) \in Nat
        BY <4>1
      <4>4. y # <<>>
        BY <4>3
      <4> DEFINE o == <<w>>
      <4>5. o \in Seq(R)
        OBVIOUS
      <4> HIDE DEF o, y
      <4>6. ws \o (x \o o) = (ws \o x) \o o
        <5> HIDE DEF R
        <5> QED BY <4>1, <4>5, SMTT(30)
      <4> QED BY <4>2, <4>4, <4>6 DEF o, y
    <3> HIDE DEF y
    <3>3. Joined(y \o <<w>>) = Joined(y) \o <<Space>> \o w
      BY <3>2, JoinedAppend
    <3>4. Joined(x \o <<w>>) = Joined(x) \o <<Space>> \o w
      BY <2>3, JoinedAppend
    <3> DEFINE a == Joined(ws)
               b == Joined(x)
               o == <<Space>>
    <3>5. a \in Seq(Chars) /\ b \in Seq(Chars) /\ o \in Seq(Chars) /\ w \in Seq(Chars)
      BY JoinedType, CharsAssumption
    <3> HIDE DEF a, b, o
    <3>6. (a \o o \o b) \o o \o w = a \o o \o (b \o o \o w)
      <4> DEFINE p == a \o o
                 q == b \o o
      <4>1. p \in Seq(Chars) /\ q \in Seq(Chars)
        BY <3>5
      <4>2. (p \o b) \o o = p \o q
        <5> HIDE DEF p
        <5> QED BY <3>5, <4>1, SMTT(30)
      <4>3. (p \o q) \o w = p \o (q \o w)
        <5> HIDE DEF p, q
        <5> QED BY <3>5, <4>1, SMTT(30)
      <4> QED BY <4>2, <4>3
    <3>7. Joined(ws \o (x \o <<w>>)) = (a \o o \o b) \o o \o w
      BY <3>1, <3>2, <3>3 DEF a, b, o, y
    <3>8. Joined(ws) \o <<Space>> \o Joined(x \o <<w>>) = a \o o \o (b \o o \o w)
      BY <3>4 DEF a, b, o
    <3> HIDE DEF R
    <3> QED BY <2>1, <3>6, <3>7, <3>8
  <2> QED BY <2>2, <2>3
<1>3. \A x \in Seq(R) : x \in P
  <2> HIDE DEF P, R
  <2> QED BY <1>1, <1>2, TextInduction
<1>4. vs \in P
  BY <1>3
<1> QED BY <1>4

(***************************************************************************)
(* The words of joined words are those words.                              *)
(***************************************************************************)
LEMMA WordsJoined ==
  ASSUME NEW ws \in Seq(Word)
  PROVE  Words(Joined(ws)) = ws
<1> DEFINE P == {x \in Seq(Word) : Words(Joined(x)) = x}
<1>1. <<>> \in P
  BY JoinedFew, WordsOfWord
<1>2. ASSUME NEW x \in Seq(Word), NEW w \in Word, x \in P PROVE x \o <<w>> \in P
  <2>1. x \o <<w>> \in Seq(Word) /\ w \in Seq(Chars) /\ Words(w) = <<w>>
    BY WordsOfWord DEF Word, Spaceless
  <2>2. CASE x = <<>>
    <3>1. x \o <<w>> = <<w>>
      BY <2>2
    <3> QED BY <2>1, <3>1, JoinedFew
  <2>3. CASE x # <<>>
    <3>1. x \in Seq(Seq(Chars))
      <4>1. \A i \in 1..Len(x) : x[i] \in Seq(Chars)
        BY DEF Word, Spaceless
      <4> DEFINE R == Seq(Chars)
      <4> HIDE DEF R
      <4>2. \A i \in 1..Len(x) : x[i] \in R
        BY <4>1 DEF R
      <4>3. x \in Seq(R)
        BY <4>2, Retyped
      <4> QED BY <4>3 DEF R
    <3>2. Joined(x \o <<w>>) = Joined(x) \o <<Space>> \o w
      BY <2>1, <2>3, <3>1, JoinedAppend
    <3> DEFINE j == Joined(x)
    <3>3. j \in Seq(Chars) /\ Space \in Spaces
      BY <3>1, JoinedType, CharsAssumption
    <3> HIDE DEF j
    <3>4. Words(j \o <<Space>> \o w) = Words(j) \o Words(w)
      BY <2>1, <3>3, WordsConcat
    <3>5. Words(j) = x
      BY <1>2 DEF j
    <3> QED BY <2>1, <3>2, <3>4, <3>5 DEF j
  <2> QED BY <2>2, <2>3
<1>3. \A x \in Seq(Word) : x \in P
  <2> HIDE DEF P
  <2> QED BY <1>1, <1>2, TextInduction
<1> QED BY <1>3

(***************************************************************************)
(* Words are texts.                                                        *)
(***************************************************************************)
LEMMA WordIsText ==
  /\ \A w \in Word : w \in Seq(Chars) /\ w \in Spaceless /\ w # <<>>
  /\ \A ws \in Seq(Word) : ws \in Seq(Seq(Chars))
<1>1. ASSUME NEW ws \in Seq(Word) PROVE ws \in Seq(Seq(Chars))
  <2> DEFINE R == Seq(Chars)
  <2>1. \A i \in 1..Len(ws) : ws[i] \in R
    BY DEF Word, Spaceless
  <2> HIDE DEF R
  <2>2. ws \in Seq(R)
    BY <2>1, Retyped
  <2> QED BY <2>2 DEF R
<1> QED BY <1>1 DEF Word, Spaceless

(***************************************************************************)
(* A word with more letters before or after it is a word.                  *)
(***************************************************************************)
LEMMA LongerWord ==
  ASSUME NEW x \in Spaceless, NEW m \in Word, NEW y \in Spaceless
  PROVE  x \o m \in Word /\ m \o y \in Word /\ x \o m \o y \in Word
<1>1. ASSUME NEW a \in Spaceless, NEW b \in Spaceless, a # <<>> \/ b # <<>>
      PROVE  a \o b \in Word
  <2>1. a \in Seq(Chars) /\ b \in Seq(Chars) /\ a \o b \in Spaceless
    BY SpacelessIs
  <2>2. Len(a \o b) = Len(a) + Len(b) /\ Len(a) \in Nat /\ Len(b) \in Nat
    BY <2>1
  <2>3. Len(a) # 0 \/ Len(b) # 0
    BY <1>1, <2>1
  <2>4. a \o b # <<>>
    <3> DEFINE c == a \o b
    <3> HIDE DEF c
    <3>1. Len(c) # 0
      BY <2>2, <2>3 DEF c
    <3>2. c # <<>>
      BY <3>1
    <3> QED BY <3>2 DEF c
  <2> QED BY <2>1, <2>4 DEF Word
<1>2. m \in Spaceless /\ m # <<>>
  BY WordIsText
<1>3. x \o m \in Word /\ m \o y \in Word
  BY <1>1, <1>2
<1> DEFINE c == x \o m
<1> HIDE DEF c
<1>4. c \in Spaceless /\ c # <<>>
  BY <1>3, WordIsText DEF c
<1>5. c \o y \in Word
  BY <1>1, <1>4
<1> QED BY <1>3, <1>5 DEF c

(***************************************************************************)
(* What precedes a part of a text gives words of its own, and the          *)
(* beginning of one that goes on in the part.                              *)
(***************************************************************************)
LEMMA WordsAfter ==
  ASSUME NEW u \in Seq(Chars)
  PROVE  \E A \in Seq(Word), x \in Spaceless :
           \A t \in Seq(Chars) : Words(u \o t) = A \o Words(x \o t)
<1>1. CASE u \in Spaceless
  <2>1. <<>> \in Seq(Word)
    OBVIOUS
  <2>2. ASSUME NEW t \in Seq(Chars) PROVE Words(u \o t) = <<>> \o Words(u \o t)
    <3>1. u \o t \in Seq(Chars)
      OBVIOUS
    <3>2. Words(u \o t) \in Seq(Word)
      BY <3>1, WordsType
    <3> QED BY <3>2
  <2> QED BY <1>1, <2>1, <2>2
<1>2. CASE u \notin Spaceless
  <2>1. PICK a \in Seq(Chars), s \in Spaces, x \in Spaceless : u = a \o <<s>> \o x
    BY <1>2, LastSpace
  <2>2. Words(a) \in Seq(Word)
    BY WordsType
  <2>3. ASSUME NEW t \in Seq(Chars) PROVE Words(u \o t) = Words(a) \o Words(x \o t)
    <3> DEFINE o == <<s>>
               v == x \o t
    <3>1. x \in Seq(Chars) /\ o \in Seq(Chars)
      BY SpacelessIs, CharsAssumption
    <3>2. v \in Seq(Chars)
      BY <3>1
    <3> HIDE DEF o
    <3>3. (a \o o \o x) \o t = a \o o \o (x \o t)
      BY <3>1
    <3> HIDE DEF v
    <3>4. Words(a \o <<s>> \o v) = Words(a) \o Words(v)
      BY <3>2, WordsConcat
    <3> QED BY <2>1, <3>3, <3>4 DEF o, v
  <2> QED BY <2>2, <2>3
<1> QED BY <1>1, <1>2

LEMMA WordsBefore ==
  ASSUME NEW u \in Seq(Chars)
  PROVE  \E B \in Seq(Word), y \in Spaceless :
           \A t \in Seq(Chars) : Words(t \o u) = Words(t \o y) \o B
<1>1. CASE u \in Spaceless
  <2>1. <<>> \in Seq(Word)
    OBVIOUS
  <2>2. ASSUME NEW t \in Seq(Chars) PROVE Words(t \o u) = Words(t \o u) \o <<>>
    <3>1. t \o u \in Seq(Chars)
      OBVIOUS
    <3>2. Words(t \o u) \in Seq(Word)
      BY <3>1, WordsType
    <3> QED BY <3>2
  <2> QED BY <1>1, <2>1, <2>2
<1>2. CASE u \notin Spaceless
  <2>1. PICK y \in Spaceless, s \in Spaces, b \in Seq(Chars) : u = y \o <<s>> \o b
    BY <1>2, FirstSpace
  <2>2. Words(b) \in Seq(Word)
    BY WordsType
  <2>3. ASSUME NEW t \in Seq(Chars) PROVE Words(t \o u) = Words(t \o y) \o Words(b)
    <3> DEFINE o == <<s>>
               v == t \o y
    <3>1. y \in Seq(Chars) /\ o \in Seq(Chars)
      BY SpacelessIs, CharsAssumption
    <3>2. v \in Seq(Chars)
      BY <3>1
    <3> HIDE DEF o
    <3>3. t \o (y \o o \o b) = (t \o y) \o o \o b
      BY <3>1
    <3> HIDE DEF v
    <3>4. Words(v \o <<s>> \o b) = Words(v) \o Words(b)
      BY <3>2, WordsConcat
    <3> QED BY <2>1, <3>3, <3>4 DEF o, v
  <2> QED BY <2>2, <2>3
<1> QED BY <1>1, <1>2

(***************************************************************************)
(* Letters inside a text are inside one of its words.                      *)
(***************************************************************************)
LEMMA WordsAround ==
  ASSUME NEW u \in Seq(Chars), NEW v \in Seq(Chars)
  PROVE  \E A \in Seq(Word), B \in Seq(Word), x \in Spaceless, y \in Spaceless :
           \A m \in Word : Words(u \o m \o v) = A \o <<x \o m \o y>> \o B
<1>1. PICK A \in Seq(Word), x \in Spaceless :
        \A t \in Seq(Chars) : Words(u \o t) = A \o Words(x \o t)
  BY WordsAfter
<1>2. PICK B \in Seq(Word), y \in Spaceless :
        \A t \in Seq(Chars) : Words(t \o v) = Words(t \o y) \o B
  BY WordsBefore
<1>3. ASSUME NEW m \in Word PROVE Words(u \o m \o v) = A \o <<x \o m \o y>> \o B
  <2>1. m \in Seq(Chars) /\ x \in Seq(Chars) /\ y \in Seq(Chars)
    BY WordIsText, SpacelessIs
  <2> DEFINE t == m \o v
             w == x \o m
  <2>2. t \in Seq(Chars) /\ w \in Seq(Chars)
    BY <2>1
  <2>3. u \o m \o v = u \o t /\ x \o t = w \o v
    <3>1. u \o m \o v = u \o (m \o v)
      BY <2>1
    <3>2. x \o (m \o v) = (x \o m) \o v
      BY <2>1
    <3> QED BY <3>1, <3>2
  <2> HIDE DEF t, w
  <2>4. Words(u \o t) = A \o Words(x \o t) /\ Words(w \o v) = Words(w \o y) \o B
    BY <1>1, <1>2, <2>2
  <2>5. w \o y \in Word
    BY LongerWord DEF w
  <2> DEFINE z == w \o y
             o == <<z>>
  <2>6. Words(z) = o /\ o \in Seq(Word)
    <3>1. z \in Word
      BY <2>5
    <3> HIDE DEF z
    <3> QED BY <3>1, WordsOfWord
  <2> HIDE DEF o
  <2>7. A \o (o \o B) = A \o o \o B
    BY <2>6
  <2>8. Words(u \o m \o v) = A \o (o \o B)
    BY <2>3, <2>4, <2>6
  <2> QED BY <2>7, <2>8 DEF o, z, w
<1> QED BY <1>3

(***************************************************************************)
(* Of words joined, one word is in its place whatever it is.               *)
(***************************************************************************)
LEMMA JoinedAround ==
  ASSUME NEW A \in Seq(Word), NEW B \in Seq(Word)
  PROVE  \E p \in Seq(Chars), q \in Seq(Chars) :
           \A w \in Seq(Chars) : Joined(A \o <<w>> \o B) = p \o w \o q
<1> DEFINE R == Seq(Chars)
           p == IF A = <<>> THEN <<>> ELSE Joined(A) \o <<Space>>
           q == IF B = <<>> THEN <<>> ELSE <<Space>> \o Joined(B)
<1>1. /\ A \in Seq(R) /\ B \in Seq(R) /\ Joined(A) \in Seq(Chars) /\ Joined(B) \in Seq(Chars)
      /\ <<Space>> \in Seq(Chars) /\ p \in Seq(Chars) /\ q \in Seq(Chars)
  <2>1. A \in Seq(R) /\ B \in Seq(R)
    BY WordIsText
  <2>2. Joined(A) \in Seq(Chars) /\ Joined(B) \in Seq(Chars) /\ <<Space>> \in Seq(Chars)
    BY <2>1, JoinedType, CharsAssumption
  <2> QED BY <2>1, <2>2
<1>2. ASSUME NEW w \in Seq(Chars) PROVE Joined(A \o <<w>> \o B) = p \o w \o q
  <2> DEFINE o == <<w>>
             C == A \o o
             j == Joined(C)
  <2>1. o \in Seq(R) /\ C \in Seq(R) /\ C # <<>>
    <3>1. w \in R
      OBVIOUS
    <3> HIDE DEF R
    <3>2. o \in Seq(R) /\ C \in Seq(R) /\ Len(C) = Len(A) + 1 /\ Len(A) \in Nat
      BY <1>1, <3>1
    <3> HIDE DEF C
    <3> QED BY <3>2
  <2>2. j = p \o w
    <3>1. CASE A = <<>>
      <4>1. C = o /\ p \o w = w
        <5> HIDE DEF o
        <5> QED BY <2>1, <3>1
      <4> QED BY <4>1, JoinedFew
    <3>2. CASE A # <<>>
      <4>1. Joined(A \o <<w>>) = Joined(A) \o <<Space>> \o w
        BY <1>1, <3>2, JoinedAppend
      <4> QED BY <3>2, <4>1
    <3> QED BY <3>1, <3>2
  <2>3. Joined(C \o B) = j \o q
    <3>1. j \in Seq(Chars)
      BY <2>1, JoinedType
    <3> HIDE DEF C, j
    <3>2. CASE B = <<>>
      <4>1. C \o B = C /\ j \o q = j
        <5> HIDE DEF R
        <5> QED BY <1>1, <2>1, <3>1, <3>2
      <4> QED BY <4>1 DEF j
    <3>3. CASE B # <<>>
      <4>1. Joined(C \o B) = Joined(C) \o <<Space>> \o Joined(B)
        BY <1>1, <2>1, <3>3, JoinedConcat
      <4> DEFINE b == Joined(B)
                 s == <<Space>>
      <4>2. q = s \o b /\ s \in Seq(Chars) /\ b \in Seq(Chars)
        BY <1>1, <3>3
      <4> HIDE DEF b, s
      <4>3. j \o s \o b = j \o (s \o b)
        BY <3>1, <4>2
      <4> HIDE DEF q
      <4> QED BY <4>1, <4>2, <4>3 DEF b, s, j
    <3> QED BY <3>2, <3>3
  <2> HIDE DEF p, q
  <2> QED BY <2>2, <2>3
<1> HIDE DEF p, q
<1> QED BY <1>1, <1>2

(***************************************************************************)
(* Letters inside a name are in their place in the canonical name.         *)
(***************************************************************************)
LEMMA NameAround ==
  ASSUME NEW u \in Seq(Chars), NEW v \in Seq(Chars)
  PROVE  \E p \in Seq(Chars), q \in Seq(Chars) :
           \A m \in Word : Joined(Words(u \o m \o v)) = p \o m \o q
<1>1. PICK A \in Seq(Word), B \in Seq(Word), x \in Spaceless, y \in Spaceless :
        \A m \in Word : Words(u \o m \o v) = A \o <<x \o m \o y>> \o B
  BY WordsAround
<1>2. PICK p \in Seq(Chars), q \in Seq(Chars) :
        \A w \in Seq(Chars) : Joined(A \o <<w>> \o B) = p \o w \o q
  BY JoinedAround
<1>3. x \in Seq(Chars) /\ y \in Seq(Chars) /\ p \o x \in Seq(Chars) /\ y \o q \in Seq(Chars)
  BY SpacelessIs
<1>4. ASSUME NEW m \in Word PROVE Joined(Words(u \o m \o v)) = (p \o x) \o m \o (y \o q)
  <2> DEFINE w == x \o m \o y
  <2>1. m \in Seq(Chars) /\ w \in Seq(Chars)
    BY <1>3, WordIsText
  <2>2. p \o w \o q = (p \o x) \o m \o (y \o q)
    <3> DEFINE a == x \o m
    <3>1. a \in Seq(Chars)
      BY <1>3, <2>1
    <3>2. p \o a = (p \o x) \o m
      BY <1>3, <2>1, SMTT(30)
    <3> HIDE DEF a
    <3>3. p \o (a \o y) \o q = (p \o a) \o (y \o q)
      BY <1>3, <3>1, SMTT(30)
    <3> QED BY <3>2, <3>3 DEF a
  <2> HIDE DEF w
  <2>3. Joined(A \o <<w>> \o B) = p \o w \o q
    BY <1>2, <2>1
  <2>4. Words(u \o m \o v) = A \o <<w>> \o B
    BY <1>1 DEF w
  <2> QED BY <2>2, <2>3, <2>4
<1> QED BY <1>3, <1>4

-----------------------------------------------------------------------------
(* What a clerk does to a text.                                            *)

(***************************************************************************)
(* One text after another, place by place; and when two texts are equal.   *)
(***************************************************************************)
LEMMA ConcatType ==
  ASSUME NEW S, NEW x \in Seq(S), NEW y \in Seq(S)
  PROVE  x \o y \in Seq(S) /\ Len(x \o y) = Len(x) + Len(y)
OBVIOUS

LEMMA ConcatFront ==
  ASSUME NEW S, NEW x \in Seq(S), NEW y \in Seq(S), NEW k \in 1..Len(x)
  PROVE  (x \o y)[k] = x[k]
OBVIOUS

LEMMA ConcatBack ==
  ASSUME NEW S, NEW x \in Seq(S), NEW y \in Seq(S), NEW k \in 1..Len(y)
  PROVE  (x \o y)[Len(x) + k] = y[k]
OBVIOUS

LEMMA TwoLetters ==
  ASSUME NEW S, NEW c \in S, NEW d \in S
  PROVE  <<c>> \o <<d>> = <<c, d>> /\ <<c, d>> \in Seq(S) /\ <<c>> \in Seq(S)
<1> DEFINE x == <<c>>
           y == <<d>>
           z == <<c, d>>
<1>1. x \in Seq(S) /\ y \in Seq(S) /\ Len(x) = 1 /\ Len(y) = 1 /\ x[1] = c /\ y[1] = d
  OBVIOUS
<1>2. z \in Seq(S) /\ Len(z) = 2 /\ z[1] = c /\ z[2] = d
  OBVIOUS
<1> HIDE DEF x, y, z
<1>3. Strung(z, x, y)
  BY <1>1, <1>2 DEF Strung
<1>4. z = x \o y
  BY <1>1, <1>2, <1>3, IsConcat
<1> QED BY <1>1, <1>2, <1>4 DEF x, y, z

LEMMA SameText ==
  ASSUME NEW S, NEW x \in Seq(S), NEW y \in Seq(S), Len(x) = Len(y),
         \A k \in 1..Len(x) : x[k] = y[k]
  PROVE  x = y
OBVIOUS

(***************************************************************************)
(* The letters of a text around one letter or two, place by place.         *)
(***************************************************************************)
LEMMA AroundType ==
  ASSUME NEW S, NEW p \in Seq(S), NEW m \in Seq(S), NEW q \in Seq(S)
  PROVE  p \o m \o q \in Seq(S) /\ Len(p \o m \o q) = Len(p) + Len(m) + Len(q)
<1> DEFINE x == p \o m
<1>1. x \in Seq(S) /\ Len(x) = Len(p) + Len(m)
  BY ConcatType
<1> HIDE DEF x
<1>2. x \o q \in Seq(S) /\ Len(x \o q) = Len(x) + Len(q)
  BY <1>1, ConcatType
<1> QED BY <1>1, <1>2 DEF x

LEMMA AroundPlaces ==
  ASSUME NEW S, NEW p \in Seq(S), NEW m \in Seq(S), NEW q \in Seq(S)
  PROVE  /\ \A k \in 1..Len(p) : (p \o m \o q)[k] = p[k]
         /\ \A k \in 1..Len(m) : (p \o m \o q)[Len(p) + k] = m[k]
         /\ \A k \in 1..Len(q) : (p \o m \o q)[Len(p) + Len(m) + k] = q[k]
<1> DEFINE x == p \o m
           z == x \o q
<1>1. /\ x \in Seq(S) /\ Len(x) = Len(p) + Len(m)
      /\ \A k \in 1..Len(p) : x[k] = p[k]
      /\ \A k \in 1..Len(m) : x[Len(p) + k] = m[k]
  BY ConcatType, ConcatFront, ConcatBack
<1> HIDE DEF x
<1>2. /\ z \in Seq(S) /\ Len(z) = Len(x) + Len(q)
      /\ \A k \in 1..Len(x) : z[k] = x[k]
      /\ \A k \in 1..Len(q) : z[Len(x) + k] = q[k]
  <2>1. x \in Seq(S)
    BY <1>1
  <2> QED BY <2>1, ConcatType, ConcatFront, ConcatBack
<1>3. Len(p) \in Nat /\ Len(m) \in Nat /\ Len(q) \in Nat
  OBVIOUS
<1> HIDE DEF z
<1>4. ASSUME NEW k \in 1..Len(p) PROVE z[k] = p[k]
  <2>1. k \in 1..Len(x)
    BY <1>1, <1>3
  <2> QED BY <1>1, <1>2, <2>1
<1>5. ASSUME NEW k \in 1..Len(m) PROVE z[Len(p) + k] = m[k]
  <2>1. Len(p) + k \in 1..Len(x)
    BY <1>1, <1>3
  <2> QED BY <1>1, <1>2, <2>1
<1>6. ASSUME NEW k \in 1..Len(q) PROVE z[Len(p) + Len(m) + k] = q[k]
  BY <1>1, <1>2
<1>7. Len(z) = Len(p) + Len(m) + Len(q)
  BY <1>1, <1>2
<1> QED BY <1>2, <1>4, <1>5, <1>6, <1>7 DEF z, x

(***************************************************************************)
(* Another letter, and a letter more, inside a text.                       *)
(***************************************************************************)
LEMMA ReplacedAround ==
  ASSUME NEW S, NEW p \in Seq(S), NEW q \in Seq(S), NEW x \in S, NEW y \in S
  PROVE  IsReplacement(p \o <<x>> \o q, p \o <<y>> \o q, Len(p) + 1)
<1> DEFINE b == p \o <<x>> \o q
           c == p \o <<y>> \o q
           m == Len(p)
           n == Len(q)
<1>1. m \in Nat /\ n \in Nat
  OBVIOUS
<1>2. /\ Len(b) = m + 1 + n
      /\ \A k \in 1..m : b[k] = p[k]
      /\ \A k \in 1..n : b[m + 1 + k] = q[k]
  <2> DEFINE o == <<x>>
  <2>1. o \in Seq(S) /\ Len(o) = 1
    OBVIOUS
  <2> HIDE DEF o
  <2> QED BY <2>1, AroundType, AroundPlaces DEF o
<1>3. /\ Len(c) = m + 1 + n
      /\ \A k \in 1..m : c[k] = p[k]
      /\ \A k \in 1..n : c[m + 1 + k] = q[k]
  <2> DEFINE o == <<y>>
  <2>1. o \in Seq(S) /\ Len(o) = 1
    OBVIOUS
  <2> HIDE DEF o
  <2> QED BY <2>1, AroundType, AroundPlaces DEF o
<1> HIDE DEF b, c, m, n
<1>4. ASSUME NEW k \in 1..Len(b), k # m + 1 PROVE b[k] = c[k]
  <2>1. CASE k \in 1..m
    BY <1>2, <1>3, <2>1
  <2>2. CASE k \notin 1..m
    <3> DEFINE j == k - (m + 1)
    <3>1. j \in 1..n /\ m + 1 + j = k
      BY <1>1, <1>2, <1>4, <2>2
    <3> HIDE DEF j
    <3> QED BY <1>2, <1>3, <3>1
  <2> QED BY <2>1, <2>2
<1>5. Len(c) = Len(b) /\ m + 1 \in 1..Len(b)
  BY <1>1, <1>2, <1>3
<1>6. IsReplacement(b, c, m + 1)
  BY <1>4, <1>5 DEF IsReplacement
<1> QED BY <1>6 DEF b, c, m

LEMMA InsertedAround ==
  ASSUME NEW S, NEW p \in Seq(S), NEW q \in Seq(S), NEW x \in S, NEW y \in S
  PROVE  IsInsertion(p \o <<y>> \o q, p \o <<x, y>> \o q, Len(p) + 1)
<1> DEFINE b == p \o <<y>> \o q
           c == p \o <<x, y>> \o q
           m == Len(p)
           n == Len(q)
<1>1. m \in Nat /\ n \in Nat
  OBVIOUS
<1>2. /\ Len(b) = m + 1 + n
      /\ \A k \in 1..m : b[k] = p[k]
      /\ b[m + 1] = y
      /\ \A k \in 1..n : b[m + 1 + k] = q[k]
  <2> DEFINE o == <<y>>
  <2>1. o \in Seq(S) /\ Len(o) = 1 /\ o[1] = y /\ 1 \in 1..Len(o)
    OBVIOUS
  <2> HIDE DEF o
  <2> QED BY <2>1, AroundType, AroundPlaces DEF o
<1>3. /\ Len(c) = m + 2 + n
      /\ \A k \in 1..m : c[k] = p[k]
      /\ c[m + 2] = y
      /\ \A k \in 1..n : c[m + 2 + k] = q[k]
  <2> DEFINE o == <<x, y>>
  <2>1. o \in Seq(S) /\ Len(o) = 2 /\ o[2] = y /\ 2 \in 1..Len(o)
    OBVIOUS
  <2> HIDE DEF o
  <2> QED BY <2>1, AroundType, AroundPlaces DEF o
<1> HIDE DEF b, c, m, n
<1>4. ASSUME NEW k \in m + 1..Len(b) PROVE b[k] = c[k + 1]
  <2>1. CASE k = m + 1
    <3>1. k + 1 = m + 2
      BY <1>1, <2>1
    <3> QED BY <1>2, <1>3, <2>1, <3>1
  <2>2. CASE k # m + 1
    <3> DEFINE j == k - (m + 1)
    <3>1. j \in 1..n /\ m + 1 + j = k /\ m + 2 + j = k + 1
      BY <1>1, <1>2, <2>2
    <3> HIDE DEF j
    <3> QED BY <1>2, <1>3, <3>1
  <2> QED BY <2>1, <2>2
<1>5. Len(c) = Len(b) + 1 /\ m + 1 \in 1..Len(c) /\ (m + 1) - 1 = m
  BY <1>1, <1>2, <1>3
<1>6. \A k \in 1..(m + 1) - 1 : b[k] = c[k]
  BY <1>2, <1>3, <1>5
<1>7. IsInsertion(b, c, m + 1)
  BY <1>4, <1>5, <1>6 DEF IsInsertion
<1> QED BY <1>7 DEF b, c, m

(***************************************************************************)
(* A letter more, less or other adds at most one to a distance.            *)
(***************************************************************************)
LEMMA CloseCostsOne ==
  ASSUME NEW S, NEW a \in Seq(S), NEW b \in Seq(S), NEW c \in Seq(S),
         NEW r, IsInsertion(b, c, r) \/ IsInsertion(c, b, r) \/ IsReplacement(b, c, r)
  PROVE  edit_distance(a, c) <= edit_distance(a, b) + 1
<1>1. PICK t : IsTable(t, a, b)
  BY TableExists
<1>2. PICK u : IsTable(u, a, c)
  BY TableExists
<1>3. u[Len(a)][Len(c)] <= t[Len(a)][Len(b)] + 1
  <2>1. CASE IsInsertion(b, c, r)
    BY <1>1, <1>2, <2>1, InsertionClose
  <2>2. CASE IsInsertion(c, b, r)
    BY <1>1, <1>2, <2>2, InsertionClose
  <2>3. CASE IsReplacement(b, c, r)
    BY <1>1, <1>2, <2>3, ReplacementClose
  <2> QED BY <2>1, <2>2, <2>3
<1>4. edit_distance(a, b) = t[Len(a)][Len(b)]
  BY <1>1, DistanceIsEntry
<1>5. edit_distance(a, c) = u[Len(a)][Len(c)]
  BY <1>2, DistanceIsEntry
<1> QED BY <1>3, <1>4, <1>5

\* A text cut at letter i, and what becomes of it when that is replaced or
\* preceded by another.
CutAt(t, i, u, v, S) ==
  /\ u \in Seq(S) /\ v \in Seq(S)
  /\ t = u \o <<t[i]>> \o v
  /\ Len(u) = i - 1
  /\ \A c \in S : ReplaceAt(t, i, c) = u \o <<c>> \o v
  /\ \A c \in S : InsertAt(t, i, c) = u \o <<c, t[i]>> \o v

(***************************************************************************)
(* A text can be cut at each of its letters.                               *)
(***************************************************************************)
LEMMA CutExists ==
  ASSUME NEW S, NEW t \in Seq(S), NEW i \in 1..Len(t)
  PROVE  \E u, v : CutAt(t, i, u, v, S)
<1> DEFINE n == Len(t)
           u == SubSeq(t, 1, i - 1)
           v == SubSeq(t, i + 1, n)
           w == SubSeq(t, i, n)
<1>1. n \in Nat /\ i \in Nat /\ i >= 1 /\ i <= n /\ t[i] \in S
  OBVIOUS
<1>2. u \in Seq(S) /\ Len(u) = i - 1 /\ \A k \in 1..i - 1 : u[k] = t[k]
  <2>1. \A k \in 1..i - 1 : k \in 1..n
    BY <1>1
  <2> QED BY <1>1, <2>1
<1>3. v \in Seq(S) /\ Len(v) = n - i /\ \A k \in 1..n - i : v[k] = t[i + k]
  <2>1. \A k \in i + 1..n : k \in 1..n
    BY <1>1
  <2> QED BY <1>1, <2>1
<1>4. w \in Seq(S) /\ Len(w) = n - i + 1 /\ \A k \in 1..n - i + 1 : w[k] = t[i + k - 1]
  <2>1. \A k \in i..n : k \in 1..n
    BY <1>1
  <2> QED BY <1>1, <2>1
<1>5. \A c \in S : InsertAt(t, i, c) = u \o <<c>> \o w
  BY DEF InsertAt
<1> HIDE DEF u, v, w
<1>6. ASSUME NEW r \in Seq(S), NEW c \in S, Len(r) = n, r[i] = c,
             \A k \in 1..n : k # i => r[k] = t[k]
      PROVE  r = u \o <<c>> \o v
  <2> DEFINE o == <<c>>
             z == u \o o \o v
  <2>1. o \in Seq(S) /\ Len(o) = 1 /\ o[1] = c /\ 1 \in 1..Len(o)
    OBVIOUS
  <2> HIDE DEF o
  <2>2. /\ z \in Seq(S) /\ Len(z) = (i - 1) + 1 + (n - i)
        /\ \A k \in 1..i - 1 : z[k] = u[k]
        /\ z[(i - 1) + 1] = c
        /\ \A k \in 1..n - i : z[(i - 1) + 1 + k] = v[k]
    <3>1. /\ z \in Seq(S) /\ Len(z) = Len(u) + Len(o) + Len(v)
          /\ \A k \in 1..Len(u) : z[k] = u[k]
          /\ \A k \in 1..Len(o) : z[Len(u) + k] = o[k]
          /\ \A k \in 1..Len(v) : z[Len(u) + Len(o) + k] = v[k]
      <4>1. u \in Seq(S) /\ o \in Seq(S) /\ v \in Seq(S)
        BY <1>2, <1>3, <2>1
      <4> HIDE DEF o
      <4>2. z \in Seq(S) /\ Len(z) = Len(u) + Len(o) + Len(v)
        BY <4>1, AroundType
      <4>3. /\ \A k \in 1..Len(u) : z[k] = u[k]
            /\ \A k \in 1..Len(o) : z[Len(u) + k] = o[k]
            /\ \A k \in 1..Len(v) : z[Len(u) + Len(o) + k] = v[k]
        <5>1. \A k \in 1..Len(u) : z[k] = u[k]
          BY <4>1, AroundPlaces
        <5>2. \A k \in 1..Len(o) : z[Len(u) + k] = o[k]
          BY <4>1, AroundPlaces
        <5>3. \A k \in 1..Len(v) : z[Len(u) + Len(o) + k] = v[k]
          BY <4>1, AroundPlaces
        <5> QED BY <5>1, <5>2, <5>3
      <4> QED BY <4>2, <4>3
    <3> HIDE DEF z
    <3> QED BY <1>2, <1>3, <2>1, <3>1
  <2> HIDE DEF z
  <2>3. (i - 1) + 1 + (n - i) = n /\ (i - 1) + 1 = i
    BY <1>1
  <2>4. ASSUME NEW k \in 1..n PROVE r[k] = z[k]
    <3>1. CASE k \in 1..i - 1
      BY <1>1, <1>2, <1>6, <2>2, <3>1
    <3>2. CASE k = i
      BY <1>6, <2>2, <2>3, <3>2
    <3>3. CASE k \notin 1..i - 1 /\ k # i
      <4> DEFINE j == k - i
      <4>1. j \in 1..n - i /\ (i - 1) + 1 + j = k /\ i + j = k
        BY <1>1, <3>3
      <4> HIDE DEF j
      <4> QED BY <1>3, <1>6, <2>2, <3>3, <4>1
    <3> QED BY <3>1, <3>2, <3>3
  <2>5. r = z
    <3>1. Len(r) = Len(z) /\ \A k \in 1..Len(r) : r[k] = z[k]
      BY <1>6, <2>2, <2>3, <2>4
    <3> QED BY <1>6, <2>2, <3>1, SameText
  <2> QED BY <2>5 DEF z, o
<1>7. t = u \o <<t[i]>> \o v
  BY <1>1, <1>6
<1>8. ASSUME NEW c \in S PROVE ReplaceAt(t, i, c) = u \o <<c>> \o v
  <2> DEFINE r == ReplaceAt(t, i, c)
  <2>1. /\ r \in Seq(S) /\ Len(r) = n /\ r[i] = c
        /\ \A k \in 1..n : k # i => r[k] = t[k]
    BY DEF ReplaceAt
  <2> HIDE DEF r
  <2> QED BY <1>6, <2>1 DEF r
<1>9. ASSUME NEW c \in S PROVE InsertAt(t, i, c) = u \o <<c, t[i]>> \o v
  <2> DEFINE o == <<t[i]>>
             e == <<c>>
             f == <<c, t[i]>>
  <2>1. o \in Seq(S) /\ Len(o) = 1 /\ o[1] = t[i] /\ e \in Seq(S)
    BY <1>1
  <2>0. e \o o = f
    <3> DEFINE d == t[i]
    <3>1. d \in S
      BY <1>1
    <3> HIDE DEF d
    <3>2. <<c>> \o <<d>> = <<c, d>>
      BY <3>1, TwoLetters
    <3> QED BY <3>2 DEF d
  <2>2. w = o \o v
    <3> DEFINE z == o \o v
    <3> HIDE DEF o
    <3>0. /\ z \in Seq(S) /\ Len(z) = Len(o) + Len(v)
          /\ \A k \in 1..Len(o) : z[k] = o[k]
          /\ \A k \in 1..Len(v) : z[Len(o) + k] = v[k]
      <4>1. o \in Seq(S) /\ v \in Seq(S)
        BY <1>3, <2>1
      <4> QED BY <4>1, ConcatType, ConcatFront, ConcatBack
    <3> HIDE DEF z
    <3>1. Len(w) = Len(z)
      BY <1>1, <1>3, <1>4, <2>1, <3>0
    <3>2. ASSUME NEW k \in 1..Len(w) PROVE w[k] = z[k]
      <4>1. CASE k = 1
        <5>1. i + k - 1 = i /\ k \in 1..n - i + 1 /\ k \in 1..Len(o)
          BY <1>1, <2>1, <4>1
        <5>2. w[k] = t[i]
          BY <1>4, <5>1
        <5> QED BY <2>1, <3>0, <4>1, <5>1, <5>2
      <4>2. CASE k # 1
        <5> DEFINE j == k - 1
        <5>1. j \in 1..n - i /\ k = Len(o) + j /\ i + k - 1 = i + j
          BY <1>1, <1>4, <2>1, <4>2
        <5> HIDE DEF j
        <5> QED BY <1>3, <1>4, <3>0, <5>1
      <4> QED BY <4>1, <4>2
    <3>3. w = z
      BY <1>4, <3>0, <3>1, <3>2, SameText
    <3> QED BY <3>3 DEF z
  <2> HIDE DEF o, e, f
  <2>3. u \o e \o (o \o v) = u \o (e \o o) \o v
    <3>1. u \in Seq(S) /\ e \in Seq(S) /\ o \in Seq(S) /\ v \in Seq(S)
      BY <1>2, <1>3, <2>1
    <3> QED BY <3>1, SMTT(30)
  <2>4. InsertAt(t, i, c) = u \o e \o w
    BY <1>5 DEF e
  <2> QED BY <2>0, <2>2, <2>3, <2>4 DEF f
<1> QED BY <1>2, <1>3, <1>7, <1>8, <1>9 DEF CutAt

-----------------------------------------------------------------------------
(* Formatting.                                                             *)

(***************************************************************************)
(* Folding works part by part, around letters, too.                        *)
(***************************************************************************)
LEMMA FoldedAround ==
  ASSUME NEW u \in Seq(Chars), NEW m \in Seq(Chars), NEW v \in Seq(Chars)
  PROVE  Folded(u \o m \o v) = Folded(u) \o Folded(m) \o Folded(v)
<1> DEFINE x == u \o m
<1>1. x \in Seq(Chars) /\ Folded(u \o m) = Folded(u) \o Folded(m)
  BY FoldedConcat
<1> HIDE DEF x
<1>2. Folded(x \o v) = Folded(x) \o Folded(v)
  BY <1>1, FoldedConcat
<1> QED BY <1>1, <1>2 DEF x

LEMMA FoldedTwo ==
  ASSUME NEW c \in Chars, NEW d \in Chars
  PROVE  Folded(<<c, d>>) = Folded(<<c>>) \o Folded(<<d>>)
<1> DEFINE x == <<c>>
           y == <<d>>
<1>1. x \o y = <<c, d>> /\ x \in Seq(Chars) /\ y \in Seq(Chars)
  BY TwoLetters
<1> HIDE DEF x, y
<1>2. Folded(x \o y) = Folded(x) \o Folded(y)
  BY <1>1, FoldedConcat
<1> QED BY <1>1, <1>2 DEF x, y

(***************************************************************************)
(* A character for one that folds alike, one more that folds to nothing,   *)
(* and white space before a text or other white space: none of them        *)
(* changes the words of the folded text.                                   *)
(***************************************************************************)
LEMMA LookalikeFolds ==
  ASSUME NEW u \in Seq(Chars), NEW v \in Seq(Chars), NEW c \in Chars, NEW d \in Chars,
         Folded(<<c>>) = Folded(<<d>>)
  PROVE  Folded(u \o <<c>> \o v) = Folded(u \o <<d>> \o v)
<1>1. ASSUME NEW e \in Chars PROVE Folded(u \o <<e>> \o v) = Folded(u) \o Folded(<<e>>) \o Folded(v)
  <2> DEFINE x == <<e>>
  <2>1. x \in Seq(Chars)
    OBVIOUS
  <2> HIDE DEF x
  <2> QED BY <2>1, FoldedAround DEF x
<1> QED BY <1>1

LEMMA MarkFolds ==
  ASSUME NEW u \in Seq(Chars), NEW v \in Seq(Chars), NEW c \in Chars, NEW d \in Chars,
         Folded(<<c>>) = <<>>
  PROVE  Folded(u \o <<c, d>> \o v) = Folded(u \o <<d>> \o v)
<1> DEFINE x == <<c, d>>
           y == <<d>>
<1>1. x \in Seq(Chars) /\ y \in Seq(Chars)
  BY TwoLetters
<1>2. Folded(x) = <<>> \o Folded(y) /\ Folded(y) \in Seq(Chars)
  BY <1>1, FoldedTwo, FoldedType
<1>3. Folded(x) = Folded(y)
  <2> DEFINE z == Folded(y)
  <2> HIDE DEF z
  <2>1. <<>> \o z = z
    BY <1>2 DEF z
  <2> QED BY <1>2, <2>1 DEF z
<1> HIDE DEF x, y
<1>4. Folded(u \o x \o v) = Folded(u) \o Folded(x) \o Folded(v)
  BY <1>1, FoldedAround
<1>5. Folded(u \o y \o v) = Folded(u) \o Folded(y) \o Folded(v)
  BY <1>1, FoldedAround
<1> QED BY <1>3, <1>4, <1>5 DEF x, y

LEMMA SpaceFolds ==
  ASSUME NEW u \in Seq(Chars), NEW v \in Seq(Chars), NEW c \in Chars,
         u = <<>> \/ c \in Spaces
  PROVE  Words(Folded(u \o <<Space, c>> \o v)) = Words(Folded(u \o <<c>> \o v))
<1> DEFINE x == <<Space, c>>
           y == <<c>>
           U == Folded(u)
           V == Folded(v)
           Y == Folded(y)
           o == <<Space>>
<1>1. x \in Seq(Chars) /\ y \in Seq(Chars) /\ Space \in Chars /\ Space \in Spaces
  BY TwoLetters, CharsAssumption
<1>2. U \in Seq(Chars) /\ V \in Seq(Chars) /\ Y \in Seq(Chars) /\ o \in Seq(Chars)
  <2>1. U \in Seq(Chars) /\ V \in Seq(Chars)
    BY FoldedType
  <2>2. Y \in Seq(Chars)
    <3> HIDE DEF y
    <3> QED BY <1>1, FoldedType
  <2> QED BY <1>1, <2>1, <2>2
<1>3. Folded(x) = o \o Y
  BY <1>1, FoldedTwo, FoldingLaws
<1> HIDE DEF x, y
<1>4. Folded(u \o x \o v) = U \o (o \o Y) \o V /\ Folded(u \o y \o v) = U \o Y \o V
  <2>1. Folded(u \o x \o v) = Folded(u) \o Folded(x) \o Folded(v)
    BY <1>1, FoldedAround
  <2>2. Folded(u \o y \o v) = Folded(u) \o Folded(y) \o Folded(v)
    BY <1>1, FoldedAround
  <2> QED BY <1>3, <2>1, <2>2
<1> HIDE DEF U, V, Y
<1>5. CASE u = <<>>
  <2>1. U = <<>>
    <3>1. <<>> \in Seq(Chars) /\ Mapped(Fold, <<>>) = <<>>
      BY FoldedIs, MappedLetter
    <3> QED BY <1>5, <3>1, FoldedIs DEF U
  <2> DEFINE r == Y \o V
  <2>2. r \in Seq(Chars) /\ U \o Y \o V = r
    <3>1. r \in Seq(Chars)
      BY <1>2, ConcatType
    <3>2. U \o Y = Y
      BY <1>2, <2>1
    <3> QED BY <3>1, <3>2
  <2>3. U \o (o \o Y) \o V = <<>> \o <<Space>> \o r
    <3> HIDE DEF o
    <3>1. U \o (o \o Y) \o V = U \o o \o (Y \o V)
      <4>1. U \in Seq(Chars) /\ o \in Seq(Chars) /\ Y \in Seq(Chars) /\ V \in Seq(Chars)
        BY <1>2
      <4> QED BY <4>1, SMTT(30)
    <3> QED BY <2>1, <3>1 DEF o
  <2> HIDE DEF r
  <2>4. Words(<<>> \o <<Space>> \o r) = Words(<<>>) \o Words(r)
    <3>1. <<>> \in Seq(Chars)
      OBVIOUS
    <3> QED BY <1>1, <2>2, <3>1, WordsConcat
  <2>5. Words(<<>>) \o Words(r) = Words(r)
    <3> DEFINE W == Words(r)
    <3>1. W \in Seq(Word) /\ Words(<<>>) = <<>>
      BY <2>2, WordsType, WordsOfWord
    <3> HIDE DEF W
    <3>2. <<>> \o W = W
      BY <3>1
    <3> QED BY <3>1, <3>2 DEF W
  <2> QED BY <1>4, <2>2, <2>3, <2>4, <2>5 DEF x, y
<1>6. CASE c \in Spaces
  <2>1. PICK d \in Spaces : Y = <<d>>
    BY <1>6, FoldingLaws DEF Y, y
  <2> DEFINE r == Y \o V
  <2>2. r \in Seq(Chars)
    BY <1>2
  <2>3. U \o (o \o Y) \o V = U \o <<Space>> \o r
    <3> HIDE DEF o
    <3>1. U \o (o \o Y) \o V = U \o o \o (Y \o V)
      <4>1. U \in Seq(Chars) /\ o \in Seq(Chars) /\ Y \in Seq(Chars) /\ V \in Seq(Chars)
        BY <1>2
      <4> QED BY <4>1, SMTT(30)
    <3> QED BY <3>1 DEF o
  <2>4. r = <<>> \o <<d>> \o V
    <3> DEFINE e == <<d>>
    <3>1. e \in Seq(Chars) /\ Y = e
      BY <1>2, <2>1
    <3> HIDE DEF e
    <3>2. Y \o V = <<>> \o e \o V
      BY <1>2, <3>1
    <3> QED BY <3>2 DEF e
  <2> HIDE DEF r
  <2>5. Words(U \o <<Space>> \o r) = Words(U) \o Words(r)
    BY <1>1, <1>2, <2>2, WordsConcat
  <2>6. Words(<<>> \o <<d>> \o V) = Words(<<>>) \o Words(V)
    <3>1. <<>> \in Seq(Chars)
      OBVIOUS
    <3> QED BY <1>2, <3>1, WordsConcat
  <2>7. Words(<<>>) \o Words(V) = Words(V)
    <3> DEFINE W == Words(V)
    <3>1. W \in Seq(Word) /\ Words(<<>>) = <<>>
      BY <1>2, WordsType, WordsOfWord
    <3> HIDE DEF W
    <3>2. <<>> \o W = W
      BY <3>1
    <3> QED BY <3>1, <3>2 DEF W
  <2>8. Words(U \o <<d>> \o V) = Words(U) \o Words(V)
    BY <1>2, WordsConcat
  <2> QED BY <1>4, <2>1, <2>3, <2>4, <2>5, <2>6, <2>7, <2>8 DEF x, y
<1> QED BY <1>5, <1>6

(***************************************************************************)
(* What a folded text has of characters folds no more.                     *)
(***************************************************************************)
FoldsNoMore == {c \in Chars : Fold[c] = <<c>>}

LEMMA FoldedStays ==
  /\ \A u \in Seq(Chars) : Folded(u) \in Seq(FoldsNoMore)
  /\ \A u \in Seq(FoldsNoMore) : Folded(u) = u
<1>1. ASSUME NEW u \in Seq(Chars) PROVE Folded(u) \in Seq(FoldsNoMore)
  <2>1. ASSUME NEW c \in Chars PROVE Fold[c] \in Seq(FoldsNoMore)
    <3> DEFINE t == Fold[c]
    <3>1. t \in Seq(Chars)
      BY FoldedIs
    <3>2. t = Folded(<<c>>)
      BY DEF Fold
    <3>3. ASSUME NEW i \in 1..Len(t) PROVE t[i] \in FoldsNoMore
      <4>1. t[i] \in ToSet(Folded(<<c>>)) /\ t[i] \in Chars
        <5> HIDE DEF t
        <5> QED BY <3>1, <3>2 DEF ToSet
      <4> DEFINE d == t[i]
      <4> HIDE DEF d
      <4>2. d \in Chars /\ Folded(<<d>>) = <<d>>
        BY <4>1, FoldingLaws DEF d
      <4>3. Fold[d] = <<d>>
        BY <4>2 DEF Fold
      <4> QED BY <4>2, <4>3 DEF d, FoldsNoMore
    <3> HIDE DEF t
    <3>4. t \in Seq(FoldsNoMore)
      BY <3>1, <3>3, Retyped
    <3> QED BY <3>4 DEF t
  <2>2. \A i \in DOMAIN u : Fold[u[i]] \in Seq(FoldsNoMore)
    BY <2>1
  <2>3. Mapped(Fold, u) \in Seq(FoldsNoMore)
    BY <2>2, FoldedIs, MappedFrom
  <2> QED BY <2>3, FoldedIs
<1>2. ASSUME NEW u \in Seq(FoldsNoMore) PROVE Folded(u) = u
  <2>1. u \in Seq(Chars) /\ \A i \in DOMAIN u : Fold[u[i]] = <<u[i]>>
    BY DEF FoldsNoMore
  <2>2. Mapped(Fold, u) = u
    <3>1. Fold \in [Chars -> Seq(Chars)] /\ Fixes(Fold, u)
      BY <2>1, FoldedIs DEF Fixes
    <3> QED BY <2>1, <3>1, MappedSame
  <2> QED BY <2>1, <2>2, FoldedIs
<1> QED BY <1>1, <1>2

-----------------------------------------------------------------------------
(* Postcodes.                                                              *)

\* What each character of a postcode comes to.
Post == [c \in Chars |-> canonicalise_postcode(<<c>>)]

LEMMA PostcodeType ==
  ASSUME NEW u \in Seq(Chars)
  PROVE  canonicalise_postcode(u) \in Seq(Chars)
<1> DEFINE x == Mapped(Keeping(Punctuation), u)
           y == Mapped(upper, x)
<1>1. x \in Seq(Chars)
  BY Replacements, MappedType
<1>2. y \in Seq(Chars)
  <2> HIDE DEF x
  <2> QED BY <1>1, Replacements, MappedType
<1>3. Mapped(Keeping({Space}), y) \in Seq(Chars)
  <2> HIDE DEF y
  <2> QED BY <1>2, Replacements, MappedType
<1> QED BY <1>3 DEF canonicalise_postcode, Without, Keeping

LEMMA PostcodeConcat ==
  ASSUME NEW u \in Seq(Chars), NEW v \in Seq(Chars)
  PROVE  canonicalise_postcode(u \o v) = canonicalise_postcode(u) \o canonicalise_postcode(v)
<1> DEFINE f == Keeping(Punctuation)
           g == Keeping({Space})
           x == Mapped(f, u)
           y == Mapped(f, v)
           a == Mapped(upper, x)
           b == Mapped(upper, y)
<1>1. f \in [Chars -> Seq(Chars)] /\ g \in [Chars -> Seq(Chars)] /\ upper \in [Chars -> Seq(Chars)]
  BY Replacements
<1>2. \A t : canonicalise_postcode(t) = Mapped(g, Mapped(upper, Mapped(f, t)))
  BY DEF canonicalise_postcode, Without, Keeping
<1> HIDE DEF f, g
<1>3. x \in Seq(Chars) /\ y \in Seq(Chars)
  BY <1>1, MappedType
<1>4. Mapped(f, u \o v) = x \o y
  BY <1>1, CharsConcat
<1>5. a \in Seq(Chars) /\ b \in Seq(Chars)
  <2> HIDE DEF x, y
  <2> QED BY <1>1, <1>3, MappedType
<1>6. Mapped(upper, x \o y) = a \o b
  <2> HIDE DEF x, y
  <2> QED BY <1>1, <1>3, CharsConcat
<1>7. Mapped(g, a \o b) = Mapped(g, a) \o Mapped(g, b)
  <2> HIDE DEF a, b
  <2> QED BY <1>1, <1>5, CharsConcat
<1> QED BY <1>2, <1>4, <1>6, <1>7

(***************************************************************************)
(* A postcode is canonicalised character by character.                     *)
(***************************************************************************)
LEMMA PostcodeIs ==
  /\ Post \in [Chars -> Seq(Chars)]
  /\ \A u \in Seq(Chars) : canonicalise_postcode(u) = Mapped(Post, u)
<1>1. Post \in [Chars -> Seq(Chars)]
  <2>1. ASSUME NEW c \in Chars PROVE canonicalise_postcode(<<c>>) \in Seq(Chars)
    BY <<c>> \in Seq(Chars), PostcodeType
  <2> QED BY <2>1 DEF Post
<1> DEFINE P == {u \in Seq(Chars) : canonicalise_postcode(u) = Mapped(Post, u)}
<1>2. <<>> \in P
  <2>1. <<>> \in Seq(Chars)
    OBVIOUS
  <2>2. Mapped(upper, <<>>) = <<>> /\ Mapped(Keeping(Punctuation), <<>>) = <<>>
        /\ Mapped(Keeping({Space}), <<>>) = <<>> /\ Mapped(Post, <<>>) = <<>>
    BY <1>1, Replacements, MappedLetter
  <2>3. canonicalise_postcode(<<>>) = <<>>
    BY <2>2 DEF canonicalise_postcode, Without, Keeping
  <2> QED BY <2>1, <2>2, <2>3
<1>3. ASSUME NEW u \in Seq(Chars), NEW c \in Chars, u \in P PROVE u \o <<c>> \in P
  <2>1. <<c>> \in Seq(Chars) /\ u \o <<c>> \in Seq(Chars)
    OBVIOUS
  <2>2. canonicalise_postcode(u \o <<c>>)
          = canonicalise_postcode(u) \o canonicalise_postcode(<<c>>)
    BY <2>1, PostcodeConcat
  <2>3. Mapped(Post, u \o <<c>>) = Mapped(Post, u) \o Post[c]
    BY <1>1, MappedAppend
  <2>4. Post[c] = canonicalise_postcode(<<c>>)
    BY DEF Post
  <2> QED BY <1>3, <2>1, <2>2, <2>3, <2>4
<1>4. \A u \in Seq(Chars) : u \in P
  <2> HIDE DEF P
  <2> QED BY <1>2, <1>3, TextInduction
<1> QED BY <1>1, <1>4

(***************************************************************************)
(* A character by itself comes to what is left of it.                      *)
(***************************************************************************)
LEMMA PostcodeIsBare ==
  ASSUME NEW c \in Chars
  PROVE  canonicalise_postcode(<<c>>) = Bare(c)
<1> DEFINE f == Keeping(Punctuation)
<1>1. f \in [Chars -> Seq(Chars)] /\ upper \in [Chars -> Seq(Chars)]
  BY Replacements
<1>2. canonicalise_postcode(<<c>>) = Without(Mapped(upper, f[c]), {Space})
  <2>1. Without(<<c>>, Punctuation) = Mapped(f, <<c>>)
    BY DEF Without, Keeping
  <2> HIDE DEF f
  <2>2. Mapped(f, <<c>>) = f[c]
    BY <1>1, MappedLetter
  <2> QED BY <2>1, <2>2 DEF canonicalise_postcode
<1>3. CASE c \in Punctuation
  <2>1. f[c] = <<>>
    BY <1>3 DEF Keeping
  <2>2. Mapped(upper, <<>>) = <<>> /\ Mapped(Keeping({Space}), <<>>) = <<>>
    BY Replacements, MappedLetter
  <2>3. Without(<<>>, {Space}) = <<>>
    BY <2>2 DEF Without, Keeping
  <2> HIDE DEF f
  <2> QED BY <1>2, <1>3, <2>1, <2>2, <2>3 DEF Bare
<1>4. CASE c \notin Punctuation
  <2>1. f[c] = <<c>>
    BY <1>4 DEF Keeping
  <2>2. Mapped(upper, <<c>>) = upper[c]
    BY <1>1, MappedLetter
  <2> HIDE DEF f
  <2> QED BY <1>2, <1>4, <2>1, <2>2 DEF Bare
<1> QED BY <1>3, <1>4

LEMMA BlanksVanish ==
  \A c \in Marks \cup {Space} : canonicalise_postcode(<<c>>) = <<>>
<1>1. Space \in Chars /\ Marks \subseteq Chars
  BY CharsAssumption, OriginalsAssumption
<1> QED BY <1>1, PostcodeIsBare, PostcodeAssumption

(***************************************************************************)
(* A character for one that comes to the same, and one more that comes to  *)
(* nothing, do not change a canonical postcode.                            *)
(***************************************************************************)
LEMMA PostcodeAround ==
  ASSUME NEW u \in Seq(Chars), NEW m \in Seq(Chars), NEW v \in Seq(Chars)
  PROVE  canonicalise_postcode(u \o m \o v)
           = canonicalise_postcode(u) \o canonicalise_postcode(m) \o canonicalise_postcode(v)
<1> DEFINE x == u \o m
<1>1. /\ x \in Seq(Chars)
      /\ canonicalise_postcode(u \o m) = canonicalise_postcode(u) \o canonicalise_postcode(m)
  BY PostcodeConcat
<1> HIDE DEF x
<1>2. canonicalise_postcode(x \o v) = canonicalise_postcode(x) \o canonicalise_postcode(v)
  BY <1>1, PostcodeConcat
<1> QED BY <1>1, <1>2 DEF x

LEMMA LookalikePosts ==
  ASSUME NEW u \in Seq(Chars), NEW v \in Seq(Chars), NEW c \in Chars, NEW d \in Chars,
         canonicalise_postcode(<<c>>) = canonicalise_postcode(<<d>>)
  PROVE  canonicalise_postcode(u \o <<c>> \o v) = canonicalise_postcode(u \o <<d>> \o v)
<1>1. ASSUME NEW e \in Chars
      PROVE  canonicalise_postcode(u \o <<e>> \o v)
               = canonicalise_postcode(u) \o canonicalise_postcode(<<e>>) \o canonicalise_postcode(v)
  <2> DEFINE x == <<e>>
  <2>1. x \in Seq(Chars)
    OBVIOUS
  <2> HIDE DEF x
  <2> QED BY <2>1, PostcodeAround DEF x
<1> QED BY <1>1

LEMMA MarkPosts ==
  ASSUME NEW u \in Seq(Chars), NEW v \in Seq(Chars), NEW c \in Chars, NEW d \in Chars,
         canonicalise_postcode(<<c>>) = <<>>
  PROVE  canonicalise_postcode(u \o <<c, d>> \o v) = canonicalise_postcode(u \o <<d>> \o v)
<1> DEFINE o == <<c>>
           x == <<c, d>>
           y == <<d>>
           z == canonicalise_postcode(y)
<1>1. x \in Seq(Chars) /\ y \in Seq(Chars) /\ o \in Seq(Chars) /\ o \o y = x
  BY TwoLetters
<1> HIDE DEF o, x, y
<1>2. z \in Seq(Chars) /\ canonicalise_postcode(o \o y) = canonicalise_postcode(o) \o z
  BY <1>1, PostcodeType, PostcodeConcat
<1> HIDE DEF z
<1>3. <<>> \o z = z
  BY <1>2
<1>4. canonicalise_postcode(x) = canonicalise_postcode(y)
  BY <1>1, <1>2, <1>3 DEF o, z
<1>5. canonicalise_postcode(u \o x \o v)
        = canonicalise_postcode(u) \o canonicalise_postcode(x) \o canonicalise_postcode(v)
  BY <1>1, PostcodeAround
<1>6. canonicalise_postcode(u \o y \o v)
        = canonicalise_postcode(u) \o canonicalise_postcode(y) \o canonicalise_postcode(v)
  BY <1>1, PostcodeAround
<1> QED BY <1>4, <1>5, <1>6 DEF x, y

(***************************************************************************)
(* Canonicalising a postcode of the company's a second time changes        *)
(* nothing.                                                                *)
(***************************************************************************)
LEMMA PostcodeStable ==
  ASSUME NEW u \in Seq(Chars), u \in Seq(PostcodeChars)
  PROVE  canonicalise_postcode(canonicalise_postcode(u)) = canonicalise_postcode(u)
<1> DEFINE f == Keeping(Punctuation)
           g == Keeping({Space})
           D == {d \in Chars : Post[d] = <<d>>}
<1>1. f \in [Chars -> Seq(Chars)] /\ g \in [Chars -> Seq(Chars)] /\ upper \in [Chars -> Seq(Chars)]
  BY Replacements
<1>2. ASSUME NEW c \in Chars PROVE Post[c] = Mapped(g, Mapped(upper, f[c]))
  <2>1. Mapped(f, <<c>>) = f[c]
    <3> HIDE DEF f
    <3> QED BY <1>1, MappedLetter
  <2> QED BY <2>1 DEF Post, canonicalise_postcode, Without, Keeping
<1>3. \A c \in Chars : /\ f[c] = IF c \in Punctuation THEN <<>> ELSE <<c>>
                       /\ g[c] = IF c = Space THEN <<>> ELSE <<c>>
  BY DEF Keeping
<1> HIDE DEF f, g
<1>4. Mapped(upper, <<>>) = <<>> /\ Mapped(g, <<>>) = <<>>
      /\ \A c \in Chars : Mapped(upper, <<c>>) = upper[c] /\ Mapped(g, <<c>>) = g[c]
  BY <1>1, MappedLetter
<1>5. ASSUME NEW c \in Chars, c \in PostcodeChars PROVE Post[c] \in Seq(D)
  <2>1. CASE c \in Punctuation
    <3>1. Post[c] = <<>>
      BY <1>2, <1>3, <1>4, <2>1
    <3> QED BY <3>1
  <2>2. CASE c \notin Punctuation
    <3> DEFINE t == upper[c]
    <3>1. t \in Seq(Chars) /\ Post[c] = Mapped(g, t)
      BY <1>1, <1>2, <1>3, <1>4, <2>2
    <3>2. ASSUME NEW i \in DOMAIN t PROVE g[t[i]] \in Seq(D)
      <4> DEFINE d == t[i]
      <4>1. d \in Chars /\ d \in ToSet(upper[c])
        <5>1. t[i] \in ToSet(t)
          BY DEF ToSet
        <5> HIDE DEF t
        <5>2. t[i] \in Chars
          BY <3>1, <3>2
        <5> QED BY <5>1, <5>2 DEF t
      <4> HIDE DEF d
      <4>2. d \notin Punctuation /\ upper[d] = <<d>>
        BY <1>5, <2>2, <4>1, PostcodeAssumption
      <4>3. CASE d = Space
        <5>1. g[d] = <<>>
          BY <1>3, <4>1, <4>3
        <5> QED BY <5>1 DEF d
      <4>4. CASE d # Space
        <5>1. g[d] = <<d>> /\ f[d] = <<d>>
          BY <1>3, <4>1, <4>2, <4>4
        <5>2. Post[d] = <<d>>
          BY <1>2, <1>4, <4>1, <4>2, <5>1
        <5>3. d \in D
          BY <4>1, <5>2
        <5> HIDE DEF D
        <5>4. <<d>> \in Seq(D)
          BY <5>3
        <5> QED BY <5>1, <5>4 DEF d
      <4> QED BY <4>3, <4>4
    <3> HIDE DEF t, D
    <3>3. Mapped(g, t) \in Seq(D)
      BY <1>1, <3>1, <3>2, MappedFrom
    <3> QED BY <3>1, <3>3
  <2> QED BY <2>1, <2>2
<1>6. \A i \in DOMAIN u : Post[u[i]] \in Seq(D)
  <2> SUFFICES ASSUME NEW i \in DOMAIN u PROVE Post[u[i]] \in Seq(D)
    OBVIOUS
  <2>1. u[i] \in Chars /\ u[i] \in PostcodeChars
    OBVIOUS
  <2> HIDE DEF D
  <2> QED BY <1>5, <2>1
<1>7. Mapped(Post, u) \in Seq(D)
  <2> HIDE DEF D
  <2> QED BY <1>6, PostcodeIs, MappedFrom
<1> DEFINE p == Mapped(Post, u)
<1> HIDE DEF p
<1>8. p \in Seq(Chars) /\ \A i \in DOMAIN p : Post[p[i]] = <<p[i]>>
  BY <1>7 DEF p
<1>9. Mapped(Post, p) = p
  <2>1. Post \in [Chars -> Seq(Chars)] /\ Fixes(Post, p)
    BY <1>8, PostcodeIs DEF Fixes
  <2> QED BY <1>8, <2>1, MappedSame
<1> QED BY <1>8, <1>9, PostcodeIs DEF p

-----------------------------------------------------------------------------
(* Addresses: words and what they expand to.                               *)

(***************************************************************************)
(* Replacing words works part by part.                                     *)
(***************************************************************************)
LEMMA WordwiseConcat ==
  ASSUME NEW f \in [Word -> Seq(Word)], NEW u \in Seq(Word), NEW v \in Seq(Word)
  PROVE  Mapped(f, u \o v) = Mapped(f, u) \o Mapped(f, v)
BY MappedConcat

(***************************************************************************)
(* The words of a text have its characters.                                *)
(***************************************************************************)
LEMMA WordsOver ==
  ASSUME NEW K, K \subseteq Chars, NEW t \in Seq(K)
  PROVE  Words(t) \in Seq(Seq(K))
<1> DEFINE P == {u \in Seq(Chars) : u \in Seq(K) => Words(u) \in Seq(Seq(K))}
<1>1. ASSUME NEW w \in Spaceless PROVE w \in P
  <2>1. w \in Seq(Chars) /\ (w = <<>> \/ w \in Word)
    BY DEF Spaceless, Word
  <2>2. Words(w) = <<>> \/ Words(w) = <<w>>
    BY <2>1, WordsOfWord
  <2>3. w \in Seq(K) => Words(w) \in Seq(Seq(K))
    <3> DEFINE R == Seq(K)
    <3>1. <<>> \in Seq(R) /\ (w \in R => <<w>> \in Seq(R))
      <4> HIDE DEF R
      <4> QED OBVIOUS
    <3> QED BY <2>2, <3>1
  <2> QED BY <2>1, <2>3
<1>2. ASSUME NEW u \in Seq(Chars), NEW s \in Spaces, NEW w \in Spaceless, u \in P
      PROVE  u \o <<s>> \o w \in P
  <2> DEFINE o == <<s>>
             z == u \o o \o w
  <2>1. u \in Seq(Chars) /\ o \in Seq(Chars) /\ w \in Seq(Chars)
    BY SpacelessIs, CharsAssumption
  <2>2. Words(z) = Words(u) \o Words(w)
    BY <2>1, WordsConcat
  <2> HIDE DEF o
  <2>3. z \in Seq(Chars) /\ Len(z) = Len(u) + Len(o) + Len(w)
    BY <2>1, AroundType
  <2>4. \A k \in 1..Len(u) : z[k] = u[k]
    BY <2>1, AroundPlaces
  <2>5. \A k \in 1..Len(w) : z[Len(u) + Len(o) + k] = w[k]
    BY <2>1, AroundPlaces
  <2> HIDE DEF z
  <2>6. ASSUME z \in Seq(K) PROVE Words(z) \in Seq(Seq(K))
    <3>1. ASSUME NEW k \in 1..Len(u) PROVE u[k] \in K
      <4>1. k \in 1..Len(z)
        BY <2>1, <2>3
      <4> QED BY <2>4, <2>6, <4>1
    <3>2. ASSUME NEW k \in 1..Len(w) PROVE w[k] \in K
      <4>1. Len(u) + Len(o) + k \in 1..Len(z)
        BY <2>1, <2>3
      <4> DEFINE j == Len(u) + Len(o) + k
      <4> HIDE DEF j
      <4>2. z[j] \in K
        BY <2>6, <4>1 DEF j
      <4> QED BY <2>5, <4>2 DEF j
    <3>3. u \in Seq(K) /\ w \in Seq(K)
      <4>1. u \in Seq(K)
        BY <3>1, Retyped
      <4>2. w \in Seq(K)
        BY <2>1, <3>2, Retyped
      <4> QED BY <4>1, <4>2
    <3>4. Words(w) \in Seq(Seq(K)) /\ Words(u) \in Seq(Seq(K))
      BY <1>1, <1>2, <3>3
    <3> QED BY <2>2, <3>4, ConcatType
  <2>7. z \in P
    BY <2>3, <2>6
  <2> QED BY <2>7 DEF z, o
<1>3. \A u \in Seq(Chars) : u \in P
  <2> HIDE DEF P
  <2> QED BY <1>1, <1>2, WordwiseInduction
<1>4. t \in Seq(Chars)
  OBVIOUS
<1> QED BY <1>3, <1>4

\* The words a text folds to.
FoldedWords(t) == Words(Folded(t))

LEMMA FoldedWordsType ==
  ASSUME NEW t \in Seq(Chars)
  PROVE  FoldedWords(t) \in Seq(Word) /\ FoldedWords(t) \in Seq(Seq(FoldsNoMore))
<1> DEFINE u == Folded(t)
<1>1. u \in Seq(Chars) /\ u \in Seq(FoldsNoMore)
  BY FoldedType, FoldedStays
<1> HIDE DEF u
<1>2. FoldsNoMore \subseteq Chars
  BY DEF FoldsNoMore
<1>3. Words(u) \in Seq(Word) /\ Words(u) \in Seq(Seq(FoldsNoMore))
  BY <1>1, <1>2, WordsType, WordsOver
<1> QED BY <1>3 DEF FoldedWords, u

(***************************************************************************)
(* The folded words on both sides of white space.                          *)
(***************************************************************************)
LEMMA FoldedWordsConcat ==
  ASSUME NEW u \in Seq(Chars), NEW s \in Spaces, NEW v \in Seq(Chars)
  PROVE  FoldedWords(u \o <<s>> \o v) = FoldedWords(u) \o FoldedWords(v)
<1> DEFINE o == <<s>>
           U == Folded(u)
           V == Folded(v)
<1>1. o \in Seq(Chars)
  BY CharsAssumption
<1>2. PICK d \in Spaces : Folded(o) = <<d>>
  BY FoldingLaws
<1> HIDE DEF o
<1>3. Folded(u \o o \o v) = U \o Folded(o) \o V
  BY <1>1, FoldedAround
<1>4. U \in Seq(Chars) /\ V \in Seq(Chars)
  BY FoldedType
<1> HIDE DEF U, V
<1>5. Words(U \o <<d>> \o V) = Words(U) \o Words(V)
  BY <1>4, WordsConcat
<1> QED BY <1>2, <1>3, <1>5 DEF FoldedWords, o, U, V

\* What each word folds to.
WordFold == [w \in Word |-> FoldedWords(w)]

(***************************************************************************)
(* The folded words of a text are those of its words, one after the other. *)
(***************************************************************************)
LEMMA FoldedWordsAre ==
  /\ WordFold \in [Word -> Seq(Word)]
  /\ \A t \in Seq(Chars) : FoldedWords(t) = Mapped(WordFold, Words(t))
<1>1. WordFold \in [Word -> Seq(Word)]
  BY WordIsText, FoldedWordsType DEF WordFold
<1> DEFINE P == {t \in Seq(Chars) : FoldedWords(t) = Mapped(WordFold, Words(t))}
<1>2. ASSUME NEW w \in Spaceless PROVE w \in P
  <2>1. CASE w = <<>>
    <3>1. w \in Seq(Chars) /\ Words(w) = <<>>
      BY <2>1, SpacelessIs, WordsOfWord
    <3>2. Mapped(WordFold, <<>>) = <<>>
      BY <1>1, MappedLetter
    <3>3. Mapped(Fold, <<>>) = <<>>
      BY FoldedIs, MappedLetter
    <3>4. Folded(w) = <<>>
      BY <2>1, <3>1, <3>3, FoldedIs
    <3> QED BY <2>1, <3>1, <3>2, <3>4 DEF FoldedWords
  <2>2. CASE w # <<>>
    <3>1. w \in Word /\ w \in Seq(Chars)
      BY <2>2, SpacelessIs DEF Word
    <3>2. Words(w) = <<w>>
      BY <3>1, WordsOfWord
    <3>3. Mapped(WordFold, <<w>>) = WordFold[w]
      BY <1>1, <3>1, MappedLetter
    <3> QED BY <3>1, <3>2, <3>3 DEF WordFold
  <2> QED BY <2>1, <2>2
<1>3. ASSUME NEW u \in Seq(Chars), NEW s \in Spaces, NEW w \in Spaceless, u \in P
      PROVE  u \o <<s>> \o w \in P
  <2>1. w \in Seq(Chars) /\ w \in P
    BY <1>2, SpacelessIs
  <2>2. FoldedWords(u) = Mapped(WordFold, Words(u)) /\ FoldedWords(w) = Mapped(WordFold, Words(w))
    BY <1>3, <2>1
  <2>3. FoldedWords(u \o <<s>> \o w) = FoldedWords(u) \o FoldedWords(w)
    BY <2>1, FoldedWordsConcat
  <2>4. Words(u \o <<s>> \o w) = Words(u) \o Words(w)
    BY <2>1, WordsConcat
  <2>5. Words(u) \in Seq(Word) /\ Words(w) \in Seq(Word)
    BY <2>1, WordsType
  <2> DEFINE x == Words(u)
             y == Words(w)
  <2> HIDE DEF x, y
  <2>6. x \in Seq(Word) /\ y \in Seq(Word)
    BY <2>5 DEF x, y
  <2>7. Mapped(WordFold, x \o y) = Mapped(WordFold, x) \o Mapped(WordFold, y)
    BY <1>1, <2>6, WordwiseConcat
  <2>8. u \o <<s>> \o w \in Seq(Chars)
    <3> DEFINE o == <<s>>
    <3>1. o \in Seq(Chars)
      BY CharsAssumption
    <3> HIDE DEF o
    <3>2. u \o o \o w \in Seq(Chars)
      BY <2>1, <3>1, AroundType
    <3> QED BY <3>2 DEF o
  <2> QED BY <2>2, <2>3, <2>4, <2>7, <2>8 DEF x, y
<1>4. \A u \in Seq(Chars) : u \in P
  <2> HIDE DEF P
  <2> QED BY <1>2, <1>3, WordwiseInduction
<1> QED BY <1>1, <1>4

(***************************************************************************)
(* The words of the address table, on both sides, fold to themselves.      *)
(***************************************************************************)
LEMMA TableWord ==
  ASSUME NEW w \in DOMAIN substitutions, NEW v \in {w, substitutions[w]}, v # <<>>
  PROVE  v \in Word /\ v \in Seq(FoldsNoMore) /\ FoldedWords(v) = <<v>>
<1>1. v \in Seq(Chars) /\ v # <<>>
  BY WordsAssumption
<1>2. ASSUME NEW i \in 1..Len(v) PROVE v[i] \in FoldsNoMore /\ v[i] \notin Spaces
  <2> DEFINE c == v[i]
  <2>1. c \in Chars /\ c \in ToSet(v)
    BY <1>1 DEF ToSet
  <2>2. c \in ToSet(w) \cup ToSet(substitutions[w])
    BY <2>1
  <2> HIDE DEF c
  <2>3. c \notin Spaces /\ Plain(c) = <<c>>
    BY <2>2, FoldingAssumption
  <2>4. Fold[c] = <<c>>
    BY <2>1, <2>3, FoldedIsPlain DEF Fold
  <2> QED BY <2>1, <2>3, <2>4 DEF c, FoldsNoMore
<1>3. v \in Seq(FoldsNoMore)
  BY <1>1, <1>2
<1>4. v \in Word
  BY <1>1, <1>2 DEF Word, Spaceless
<1>5. Folded(v) = v
  BY <1>3, FoldedStays
<1> QED BY <1>3, <1>4, <1>5, WordsOfWord DEF FoldedWords

(***************************************************************************)
(* A word expands to a word or to nothing, and no further.                 *)
(***************************************************************************)
LEMMA ExpandedIs ==
  ASSUME NEW w \in Word
  PROVE  /\ Expanded(w) = <<>> \/ Expanded(w) \in Word
         /\ Expanded(Expanded(w)) = Expanded(w)
         /\ w \in Seq(FoldsNoMore) => Expanded(w) \in Seq(FoldsNoMore)
<1>1. CASE w \in DOMAIN substitutions
  <2> DEFINE x == substitutions[w]
  <2>1. Expanded(w) = x /\ x \notin DOMAIN substitutions /\ x \in Seq(Chars)
    BY <1>1, FoldingAssumption, WordsAssumption DEF Expanded
  <2>2. Expanded(x) = x
    BY <2>1 DEF Expanded
  <2>4. x # <<>> => x \in Word /\ x \in Seq(FoldsNoMore)
    BY <1>1, TableWord
  <2>5. <<>> \in Seq(FoldsNoMore)
    OBVIOUS
  <2> HIDE DEF x
  <2> QED BY <2>1, <2>2, <2>4, <2>5
<1>2. CASE w \notin DOMAIN substitutions
  <2>1. Expanded(w) = w
    BY <1>2 DEF Expanded
  <2> QED BY <2>1
<1> QED BY <1>1, <1>2

\* What each word expands to, left out if that is nothing.
Token == [w \in Word |-> IF Expanded(w) = <<>> THEN <<>> ELSE <<Expanded(w)>>]

LEMMA TokensAre ==
  /\ Token \in [Word -> Seq(Word)]
  /\ \A ws \in Seq(Word) : Tokens(ws) = Mapped(Token, ws)
<1>1. ASSUME NEW w \in Word
      PROVE  (IF Expanded(w) = <<>> THEN <<>> ELSE <<Expanded(w)>>) \in Seq(Word)
  <2> DEFINE x == Expanded(w)
  <2>1. x = <<>> \/ x \in Word
    BY ExpandedIs
  <2> HIDE DEF x
  <2>2. (IF x = <<>> THEN <<>> ELSE <<x>>) \in Seq(Word)
    BY <2>1
  <2> QED BY <2>2 DEF x
<1>2. Token \in [Word -> Seq(Word)]
  BY <1>1 DEF Token
<1>3. ASSUME NEW ws \in Seq(Word) PROVE Tokens(ws) = Mapped(Token, ws)
  <2>1. \A i \in DOMAIN ws : ws[i] \in Word
    OBVIOUS
  <2>2. [i \in DOMAIN ws |-> Token[ws[i]]]
          = [i \in DOMAIN ws |->
               IF Expanded(ws[i]) = <<>> THEN <<>> ELSE <<Expanded(ws[i])>>]
    BY <2>1 DEF Token
  <2> QED BY <2>2 DEF Tokens, Mapped
<1> QED BY <1>2, <1>3

LEMMA TokensType ==
  ASSUME NEW ws \in Seq(Word)
  PROVE  Tokens(ws) \in Seq(Word)
BY TokensAre, MappedType

LEMMA TokensConcat ==
  ASSUME NEW ws \in Seq(Word), NEW vs \in Seq(Word)
  PROVE  Tokens(ws \o vs) = Tokens(ws) \o Tokens(vs)
<1>1. ws \o vs \in Seq(Word) /\ Token \in [Word -> Seq(Word)]
  BY TokensAre
<1>2. Mapped(Token, ws \o vs) = Mapped(Token, ws) \o Mapped(Token, vs)
  BY <1>1, WordwiseConcat
<1> QED BY <1>1, <1>2, TokensAre

\* The tokens of an address, before they are sorted.
AddressTokens(t) == Tokens(FoldedWords(t))

(***************************************************************************)
(* The tokens of an address fold and expand no more.                       *)
(***************************************************************************)
Settled == {w \in Word : w \in Seq(FoldsNoMore) /\ Expanded(w) = w}

LEMMA TokensSettled ==
  ASSUME NEW t \in Seq(Chars)
  PROVE  AddressTokens(t) \in Seq(Settled)
<1> DEFINE ws == FoldedWords(t)
           R == Seq(FoldsNoMore)
<1> HIDE DEF R
<1>1. ws \in Seq(Word) /\ ws \in Seq(R)
  BY FoldedWordsType DEF R
<1> HIDE DEF ws
<1>2. ASSUME NEW i \in DOMAIN ws PROVE Token[ws[i]] \in Seq(Settled)
  <2> DEFINE w == ws[i]
             x == Expanded(w)
  <2>1. w \in Word /\ w \in R
    BY <1>1
  <2> HIDE DEF w
  <2>2. /\ x = <<>> \/ x \in Word
        /\ Expanded(x) = x
        /\ x \in R
    BY <2>1, ExpandedIs DEF R
  <2>3. Token[w] = IF x = <<>> THEN <<>> ELSE <<x>>
    BY <2>1 DEF Token
  <2> HIDE DEF x
  <2>4. x # <<>> => x \in Settled
    BY <2>2 DEF Settled, R
  <2>5. (IF x = <<>> THEN <<>> ELSE <<x>>) \in Seq(Settled)
    BY <2>4
  <2> QED BY <2>3, <2>5 DEF w
<1>3. Mapped(Token, ws) \in Seq(Settled)
  BY <1>1, <1>2, TokensAre, MappedFrom
<1> QED BY <1>1, <1>3, TokensAre DEF AddressTokens, ws

(***************************************************************************)
(* The address with its first word moved to the end, or abbreviated, has   *)
(* the same tokens in another order.                                       *)
(***************************************************************************)
LEMMA RephrasedTokens ==
  ASSUME NEW t \in Seq(Chars), Words(t) # <<>>, NEW w,
         \/ w = Words(t)[1]
         \/ w \in DOMAIN substitutions /\ substitutions[w] = Words(t)[1]
  PROVE  LET r == Joined(Tail(Words(t)) \o <<w>>)
         IN  /\ r \in Seq(Chars)
             /\ \E x \in Seq(Word), y \in Seq(Word) :
                  AddressTokens(t) = x \o y /\ AddressTokens(r) = y \o x
<1> DEFINE ws == Words(t)
           first == ws[1]
           rest == Tail(ws)
           o == <<first>>
           p == <<w>>
           vs == rest \o p
           r == Joined(vs)
<1>1. ws \in Seq(Word)
  BY WordsType
<1>2. first \in Word /\ rest \in Seq(Word) /\ o \in Seq(Word) /\ ws = o \o rest
  <2> HIDE DEF ws
  <2>1. Len(ws) \in Nat /\ Len(ws) >= 1
    BY <1>1 DEF ws
  <2>2. first \in Word /\ rest \in Seq(Word) /\ Len(rest) = Len(ws) - 1
        /\ \A k \in 1..Len(ws) - 1 : rest[k] = ws[k + 1]
    BY <1>1, <2>1
  <2> HIDE DEF rest
  <2>3. o \in Seq(Word) /\ Len(o) = 1 /\ o[1] = first
    BY <2>2
  <2> HIDE DEF o
  <2>4. Strung(ws, o, rest)
    <3>1. \A i \in 1..Len(o) : ws[i] = o[i]
      BY <2>3
    <3>2. ASSUME NEW i \in 1..Len(rest) PROVE ws[Len(o) + i] = rest[i]
      <4>1. Len(o) + i = i + 1 /\ i \in 1..Len(ws) - 1
        BY <2>1, <2>2, <2>3
      <4> QED BY <2>2, <4>1
    <3> QED BY <2>1, <2>2, <2>3, <3>1, <3>2 DEF Strung
  <2>5. ws = o \o rest
    BY <1>1, <2>2, <2>3, <2>4, IsConcat
  <2> QED BY <2>2, <2>3, <2>5
<1>3. /\ w \in Word
      /\ Tokens(FoldedWords(w)) = Tokens(FoldedWords(first))
  <2>1. CASE w = first
    BY <1>2, <2>1
  <2>2. CASE w \in DOMAIN substitutions /\ substitutions[w] = first
    <3> HIDE DEF first
    <3>1. w \in Seq(Chars) /\ w # <<>> /\ first # <<>> /\ first \in Seq(Chars)
      BY <1>2, <2>2, WordIsText, WordsAssumption
    <3>2. FoldedWords(w) = <<w>> /\ FoldedWords(first) = <<first>>
      BY <2>2, <3>1, TableWord
    <3>3. w \in Word
      BY <2>2, <3>1, TableWord
    <3>4. Expanded(w) = first /\ Expanded(first) = first
      BY <2>2, FoldingAssumption DEF Expanded
    <3>5. Token[w] = <<first>> /\ Token[first] = <<first>>
      BY <1>2, <3>1, <3>3, <3>4 DEF Token
    <3>6. ASSUME NEW x \in Word PROVE Tokens(<<x>>) = Token[x]
      <4>1. <<x>> \in Seq(Word)
        OBVIOUS
      <4>2. Mapped(Token, <<x>>) = Token[x]
        BY TokensAre, MappedLetter
      <4> QED BY <4>1, <4>2, TokensAre
    <3> QED BY <1>2, <3>2, <3>3, <3>5, <3>6
  <2> QED BY <2>1, <2>2
<1>4. p \in Seq(Word) /\ vs \in Seq(Word)
  <2>1. p \in Seq(Word)
    BY <1>3
  <2> HIDE DEF rest, p
  <2> QED BY <1>2, <2>1, ConcatType
<1>5. r \in Seq(Chars) /\ Words(r) = vs
  <2> HIDE DEF vs
  <2> QED BY <1>4, WordIsText, JoinedType, WordsJoined
<1> DEFINE f == WordFold
           m == Mapped(f, rest)
           x == Tokens(FoldedWords(first))
           y == Tokens(m)
<1>6. f \in [Word -> Seq(Word)] /\ f[first] = FoldedWords(first) /\ f[w] = FoldedWords(w)
  BY <1>2, <1>3, FoldedWordsAre DEF WordFold
<1>7. m \in Seq(Word) /\ FoldedWords(first) \in Seq(Word) /\ FoldedWords(w) \in Seq(Word)
  <2> HIDE DEF rest, f, first
  <2>1. m \in Seq(Word)
    BY <1>2, <1>6, MappedType
  <2> QED BY <1>2, <1>3, <2>1, WordIsText, FoldedWordsType
<1>8. FoldedWords(t) = FoldedWords(first) \o m
  <2>1. FoldedWords(t) = Mapped(f, ws)
    BY FoldedWordsAre
  <2> HIDE DEF ws, o, rest, f
  <2>2. Mapped(f, o \o rest) = Mapped(f, o) \o Mapped(f, rest)
    BY <1>2, <1>6, WordwiseConcat
  <2> HIDE DEF first
  <2>3. Mapped(f, <<first>>) = f[first]
    BY <1>2, <1>6, MappedLetter
  <2> QED BY <1>2, <1>6, <2>1, <2>2, <2>3 DEF o
<1>9. FoldedWords(r) = m \o FoldedWords(w)
  <2>1. FoldedWords(r) = Mapped(f, vs)
    <3> HIDE DEF vs
    <3> QED BY <1>5, FoldedWordsAre
  <2> HIDE DEF rest, p, f, ws
  <2>2. Mapped(f, rest \o p) = Mapped(f, rest) \o Mapped(f, p)
    BY <1>2, <1>4, <1>6, WordwiseConcat
  <2>3. Mapped(f, <<w>>) = f[w]
    BY <1>3, <1>6, MappedLetter
  <2> QED BY <1>6, <2>1, <2>2, <2>3 DEF p
<1> DEFINE a == FoldedWords(first)
           b == FoldedWords(w)
<1> HIDE DEF m, a, b
<1>10. a \in Seq(Word) /\ b \in Seq(Word)
  BY <1>7 DEF a, b
<1>11. Tokens(a \o m) = Tokens(a) \o Tokens(m) /\ Tokens(m \o b) = Tokens(m) \o Tokens(b)
  BY <1>7, <1>10, TokensConcat
<1>12. Tokens(a) \in Seq(Word) /\ Tokens(m) \in Seq(Word) /\ Tokens(a) = Tokens(b)
  BY <1>3, <1>7, <1>10, TokensType DEF a, b
<1>13. AddressTokens(t) = Tokens(a) \o Tokens(m) /\ AddressTokens(r) = Tokens(m) \o Tokens(a)
  BY <1>8, <1>9, <1>11, <1>12 DEF AddressTokens, a, b
<1> HIDE DEF r
<1>14. \E x1 \in Seq(Word), y1 \in Seq(Word) :
         AddressTokens(t) = x1 \o y1 /\ AddressTokens(r) = y1 \o x1
  BY <1>12, <1>13
<1>15. r = Joined(Tail(Words(t)) \o <<w>>)
  BY DEF r
<1> QED BY <1>5, <1>14, <1>15 DEF r

-----------------------------------------------------------------------------
(* Sorting.                                                                *)

\* How many places of x hold a member of W.
Places(x, W) == {i \in DOMAIN x : x[i] \in W}
Count(x, W) == Cardinality(Places(x, W))

(***************************************************************************)
(* A count is a number, at most the length.                                *)
(***************************************************************************)
LEMMA CountBounded ==
  ASSUME NEW S, NEW x \in Seq(S), NEW W
  PROVE  /\ Count(x, W) \in 0..Len(x)
         /\ (\A i \in DOMAIN x : x[i] \in W) => Count(x, W) = Len(x)
         /\ (\A i \in DOMAIN x : x[i] \notin W) => Count(x, W) = 0
<1> DEFINE D == DOMAIN x
           P == Places(x, W)
<1>1. D = 1..Len(x) /\ Len(x) \in Nat
  OBVIOUS
<1>2. IsFiniteSet(D) /\ Cardinality(D) = Len(x)
  <2>1. IsFiniteSet(1..Len(x)) /\ Cardinality(1..Len(x)) = IF 1 > Len(x) THEN 0 ELSE Len(x) - 1 + 1
    BY <1>1, FS_Interval
  <2> HIDE DEF D
  <2> QED BY <1>1, <2>1
<1>3. P \in SUBSET D
  BY DEF Places
<1> HIDE DEF D, P
<1>4. IsFiniteSet(P) /\ Cardinality(P) <= Cardinality(D) /\ (Cardinality(D) = Cardinality(P) => D = P)
  BY <1>2, <1>3, FS_Subset
<1>5. Cardinality(P) \in Nat
  BY <1>4, FS_CardinalityType
<1>6. Cardinality(P) \in 0..Len(x)
  BY <1>1, <1>2, <1>4, <1>5
<1>7. ASSUME \A i \in D : x[i] \in W PROVE Cardinality(P) = Len(x)
  <2>1. P = D
    BY <1>7 DEF P, D, Places
  <2> QED BY <1>2, <2>1
<1>8. ASSUME \A i \in D : x[i] \notin W PROVE Cardinality(P) = 0
  <2>1. P = {}
    BY <1>8 DEF P, D, Places
  <2> QED BY <2>1, FS_EmptySet
<1> QED BY <1>6, <1>7, <1>8 DEF P, D, Count

(***************************************************************************)
(* A larger set counts more.                                               *)
(***************************************************************************)
LEMMA CountGrows ==
  ASSUME NEW S, NEW x \in Seq(S), NEW W, NEW V,
         \A i \in DOMAIN x : x[i] \in W => x[i] \in V
  PROVE  /\ Count(x, W) <= Count(x, V)
         /\ (\E i \in DOMAIN x : x[i] \in V /\ x[i] \notin W) => Count(x, W) < Count(x, V)
<1> DEFINE P == Places(x, W)
           Q == Places(x, V)
<1>1. P \in SUBSET Q
  BY DEF Places
<1>2. IsFiniteSet(Q)
  <2>1. DOMAIN x = 1..Len(x) /\ Len(x) \in Nat
    OBVIOUS
  <2>2. IsFiniteSet(1..Len(x))
    BY <2>1, FS_Interval
  <2>3. Q \in SUBSET (1..Len(x))
    BY <2>1 DEF Places
  <2> HIDE DEF Q
  <2> QED BY <2>2, <2>3, FS_Subset
<1>3. (\E i \in DOMAIN x : x[i] \in V /\ x[i] \notin W) => P # Q
  BY DEF Places
<1> HIDE DEF P, Q
<1>4. IsFiniteSet(P) /\ Cardinality(P) <= Cardinality(Q) /\ (Cardinality(Q) = Cardinality(P) => Q = P)
  BY <1>1, <1>2, FS_Subset
<1>5. Cardinality(P) \in Nat /\ Cardinality(Q) \in Nat
  BY <1>2, <1>4, FS_CardinalityType
<1>6. P # Q => Cardinality(P) < Cardinality(Q)
  BY <1>4, <1>5
<1> QED BY <1>3, <1>4, <1>6 DEF P, Q, Count

(***************************************************************************)
(* Counts add up.                                                          *)
(***************************************************************************)
LEMMA CountAppend ==
  ASSUME NEW S, NEW x \in Seq(S), NEW c \in S, NEW W
  PROVE  Count(x \o <<c>>, W) = Count(x, W) + IF c \in W THEN 1 ELSE 0
<1> DEFINE n == Len(x)
           z == x \o <<c>>
           P == Places(x, W)
           Q == Places(z, W)
<1>1. n \in Nat /\ DOMAIN x = 1..n /\ DOMAIN z = 1..n + 1
      /\ (\A i \in 1..n : z[i] = x[i]) /\ z[n + 1] = c
  OBVIOUS
<1>2. IsFiniteSet(P) /\ n + 1 \notin P /\ Cardinality(P) \in Nat
  <2>1. IsFiniteSet(1..n)
    BY <1>1, FS_Interval
  <2>2. P \in SUBSET (1..n)
    BY <1>1 DEF Places
  <2> HIDE DEF P
  <2>3. IsFiniteSet(P)
    BY <2>1, <2>2, FS_Subset
  <2>4. n + 1 \notin P
    BY <1>1, <2>2
  <2> QED BY <2>3, <2>4, FS_CardinalityType
<1> HIDE DEF n, z
<1>3. Q = IF c \in W THEN P \cup {n + 1} ELSE P
  <2>1. \A i : i \in 1..n + 1 <=> i \in 1..n \/ i = n + 1
    BY <1>1
  <2> QED BY <1>1, <2>1 DEF Places
<1> HIDE DEF P, Q
<1>4. Cardinality(P \cup {n + 1}) = Cardinality(P) + 1
  BY <1>2, FS_AddElement
<1> QED BY <1>2, <1>3, <1>4 DEF P, Q, Count, z

LEMMA CountConcat ==
  ASSUME NEW S, NEW x \in Seq(S), NEW y \in Seq(S), NEW W
  PROVE  Count(x \o y, W) = Count(x, W) + Count(y, W)
<1> DEFINE P == {z \in Seq(S) : Count(x \o z, W) = Count(x, W) + Count(z, W)}
<1>1. <<>> \in P
  <2>1. x \o <<>> = x /\ <<>> \in Seq(S)
    OBVIOUS
  <2>2. Count(x, W) \in Nat
    <3>1. Count(x, W) \in 0..Len(x)
      BY CountBounded
    <3> QED BY <3>1
  <2>3. Count(<<>>, W) = 0
    <3>1. Places(<<>>, W) = {}
      BY DEF Places
    <3> QED BY <3>1, FS_EmptySet DEF Count
  <2> QED BY <2>1, <2>2, <2>3
<1>2. ASSUME NEW z \in Seq(S), NEW c \in S, z \in P PROVE z \o <<c>> \in P
  <2> DEFINE o == <<c>>
             u == x \o z
  <2>1. o \in Seq(S) /\ u \in Seq(S) /\ z \o o \in Seq(S)
    OBVIOUS
  <2>2. x \o (z \o o) = u \o o
    <3> HIDE DEF o
    <3> QED BY <2>1
  <2> HIDE DEF u
  <2>3. Count(u \o <<c>>, W) = Count(u, W) + IF c \in W THEN 1 ELSE 0
    BY <2>1, CountAppend
  <2>4. Count(z \o <<c>>, W) = Count(z, W) + IF c \in W THEN 1 ELSE 0
    BY CountAppend
  <2>5. Count(u, W) = Count(x, W) + Count(z, W)
    BY <1>2 DEF u
  <2>6. Count(x, W) \in Nat /\ Count(z, W) \in Nat
    <3>1. Count(x, W) \in 0..Len(x) /\ Count(z, W) \in 0..Len(z)
      BY CountBounded
    <3> QED BY <3>1
  <2>7. Count(x \o (z \o o), W) = Count(x, W) + Count(z \o o, W)
    <3> DEFINE k == IF c \in W THEN 1 ELSE 0
               m == Count(x, W)
               n == Count(z, W)
    <3>1. k \in Nat /\ m \in Nat /\ n \in Nat
      BY <2>6
    <3> HIDE DEF k, m, n
    <3>2. (m + n) + k = m + (n + k)
      BY <3>1
    <3>3. Count(x \o (z \o o), W) = (m + n) + k
      BY <2>2, <2>3, <2>5 DEF k, m, n
    <3>4. Count(z \o o, W) = n + k
      BY <2>4 DEF k, n
    <3> QED BY <3>2, <3>3, <3>4 DEF m
  <2> QED BY <2>1, <2>7
<1>3. \A z \in Seq(S) : z \in P
  <2> HIDE DEF P
  <2> QED BY <1>1, <1>2, TextInduction
<1> QED BY <1>3

(***************************************************************************)
(* Precedes orders all texts.                                              *)
(***************************************************************************)
LEMMA PrecedesOrders ==
  ASSUME NEW u \in Text, NEW v \in Text, NEW w \in Text
  PROVE  /\ ~Precedes(u, u)
         /\ Precedes(u, v) /\ Precedes(v, w) => Precedes(u, w)
         /\ u # v => Precedes(u, v) \/ Precedes(v, u)
<1> USE DEF Text
<1>0. Len(u) \in Nat /\ Len(v) \in Nat /\ Len(w) \in Nat
  OBVIOUS
<1>1. ~Precedes(u, u)
  <2> SUFFICES ASSUME NEW n \in 0..Len(u), n < Len(u), codepoint[u[n + 1]] < codepoint[u[n + 1]]
               PROVE  FALSE
    BY DEF Precedes
  <2>1. n + 1 \in 1..Len(u)
    BY <1>0
  <2>2. codepoint[u[n + 1]] \in Nat
    BY <2>1, WordsAssumption
  <2> QED BY <2>2
<1>2. ASSUME Precedes(u, v), Precedes(v, w) PROVE Precedes(u, w)
  <2>1. PICK m \in 0..Len(u) :
          /\ m <= Len(v) /\ \A i \in 1..m : u[i] = v[i]
          /\ \/ m = Len(u) /\ m < Len(v)
             \/ m < Len(u) /\ m < Len(v) /\ codepoint[u[m + 1]] < codepoint[v[m + 1]]
    BY <1>2 DEF Precedes
  <2>2. PICK n \in 0..Len(v) :
          /\ n <= Len(w) /\ \A i \in 1..n : v[i] = w[i]
          /\ \/ n = Len(v) /\ n < Len(w)
             \/ n < Len(v) /\ n < Len(w) /\ codepoint[v[n + 1]] < codepoint[w[n + 1]]
    BY <1>2 DEF Precedes
  <2>3. m \in Nat /\ n \in Nat
    OBVIOUS
  <2>4. CASE m < n
    <3>1. \A i \in 1..m : i \in 1..n
      BY <2>3, <2>4
    <3>2. m + 1 \in 1..n
      BY <2>3, <2>4
    <3>3. v[m + 1] = w[m + 1]
      BY <2>2, <3>2
    <3>4. m < Len(w) /\ m <= Len(w)
      BY <1>0, <2>2, <2>3, <2>4
    <3>5. \A i \in 1..m : u[i] = w[i]
      BY <2>1, <2>2, <3>1
    <3> QED BY <2>1, <3>3, <3>4, <3>5 DEF Precedes
  <2>5. CASE m = n
    <3>1. m + 1 \in 1..Len(v) /\ m < Len(w) /\ m <= Len(w)
      BY <1>0, <2>1, <2>2, <2>3, <2>5
    <3>2. \A i \in 1..m : u[i] = w[i]
      BY <2>1, <2>2, <2>5
    <3>3. CASE m = Len(u)
      BY <3>1, <3>2, <3>3 DEF Precedes
    <3>4. CASE m # Len(u)
      <4> DEFINE a == u[m + 1]
                 b == v[m + 1]
                 c == w[m + 1]
      <4>1. a \in Chars /\ b \in Chars /\ c \in Chars
        <5>1. m + 1 \in 1..Len(u) /\ m + 1 \in 1..Len(w)
          BY <1>0, <2>3, <3>1, <3>4
        <5> QED BY <3>1, <5>1
      <4>2. codepoint[a] < codepoint[b] /\ codepoint[b] < codepoint[c]
        BY <1>0, <2>1, <2>2, <2>5, <3>1, <3>4
      <4> HIDE DEF a, b, c
      <4>3. codepoint[a] \in Nat /\ codepoint[b] \in Nat /\ codepoint[c] \in Nat
        BY <4>1, WordsAssumption
      <4>4. codepoint[a] < codepoint[c]
        BY <4>2, <4>3
      <4>5. codepoint[u[m + 1]] < codepoint[w[m + 1]]
        BY <4>4 DEF a, c
      <4> QED BY <1>0, <3>1, <3>2, <3>4, <4>5 DEF Precedes
    <3> QED BY <3>3, <3>4
  <2>6. CASE m > n
    <3>1. \A i \in 1..n : i \in 1..m
      BY <2>3, <2>6
    <3>2. n + 1 \in 1..m
      BY <2>3, <2>6
    <3>3. u[n + 1] = v[n + 1]
      BY <2>1, <3>2
    <3>4. n \in 0..Len(u) /\ n < Len(u) /\ n < Len(v)
      BY <1>0, <2>1, <2>3, <2>6
    <3>5. \A i \in 1..n : u[i] = w[i]
      BY <2>1, <2>2, <3>1
    <3>6. n < Len(w) /\ codepoint[v[n + 1]] < codepoint[w[n + 1]]
      BY <1>0, <2>2, <2>3, <3>4
    <3> QED BY <2>2, <3>3, <3>4, <3>5, <3>6 DEF Precedes
  <2> QED BY <2>3, <2>4, <2>5, <2>6
<1>3. ASSUME u # v PROVE Precedes(u, v) \/ Precedes(v, u)
  <2> DEFINE m == Len(u)
             n == Len(v)
             D == {k \in Nat : k >= 1 /\ k <= m /\ k <= n /\ u[k] # v[k]}
  <2>1. CASE D = {}
    <3>1. \A i \in 1..m : i <= n => u[i] = v[i]
      BY <1>0, <2>1
    <3>2. \A i \in 1..n : i <= m => u[i] = v[i]
      BY <1>0, <2>1
    <3>3. CASE m < n
      <4>1. m \in 0..m /\ m <= n /\ \A i \in 1..m : u[i] = v[i]
        BY <1>0, <3>1, <3>3
      <4> QED BY <3>3, <4>1 DEF Precedes
    <3>4. CASE n < m
      <4>1. n \in 0..n /\ n <= m /\ \A i \in 1..n : v[i] = u[i]
        BY <1>0, <3>2, <3>4
      <4> QED BY <3>4, <4>1 DEF Precedes
    <3>5. CASE m = n
      <4>1. u = v
        BY <1>0, <3>1, <3>5, SameText
      <4> QED BY <1>3, <4>1
    <3> QED BY <1>0, <3>3, <3>4, <3>5
  <2>2. CASE D # {}
    <3>1. D \in SUBSET Nat
      OBVIOUS
    <3>2. PICK k \in D : \A j \in D : k <= j
      <4> HIDE DEF D
      <4> QED BY <2>2, <3>1, LeastNatural
    <3>3. k \in Nat /\ k >= 1 /\ k <= m /\ k <= n /\ u[k] # v[k]
      OBVIOUS
    <3>4. \A i \in 1..k - 1 : u[i] = v[i]
      <4> SUFFICES ASSUME NEW i \in 1..k - 1, u[i] # v[i] PROVE FALSE
        OBVIOUS
      <4>1. i \in Nat /\ i >= 1 /\ i <= m /\ i <= n /\ ~(k <= i)
        BY <1>0, <3>3
      <4>2. i \in D
        BY <4>1
      <4> QED BY <3>2, <4>1, <4>2
    <3>5. u[k] \in Chars /\ v[k] \in Chars
      <4>1. k \in 1..Len(u) /\ k \in 1..Len(v)
        BY <1>0, <3>3
      <4> QED BY <4>1
    <3>6. codepoint[u[k]] \in Nat /\ codepoint[v[k]] \in Nat /\ codepoint[u[k]] # codepoint[v[k]]
      BY <3>3, <3>5, WordsAssumption
    <3>7. /\ (k - 1) + 1 = k /\ k - 1 < m /\ k - 1 < n /\ k - 1 <= m /\ k - 1 <= n
          /\ k - 1 \in 0..m /\ k - 1 \in 0..n
      BY <1>0, <3>3
    <3>8. CASE codepoint[u[k]] < codepoint[v[k]]
      BY <3>4, <3>7, <3>8 DEF Precedes
    <3>9. CASE codepoint[v[k]] < codepoint[u[k]]
      BY <3>4, <3>7, <3>9 DEF Precedes
    <3> QED BY <3>6, <3>8, <3>9
  <2> QED BY <2>1, <2>2
<1> QED BY <1>1, <1>2, <1>3

\* What precedes w, and what does not come after it.
Before(w) == {v \in Text : Precedes(v, w)}
NotAfter(w) == {v \in Text : ~Precedes(w, v)}

\* w belongs in place k when x is sorted.
IsPlace(x, k, w) ==
  w \in ToSet(x) /\ Count(x, Before(w)) < k /\ k <= Count(x, NotAfter(w))

(***************************************************************************)
(* The places of a word are a range of at least one, and those of a later  *)
(* word come after them.                                                   *)
(***************************************************************************)
LEMMA PlacesAre ==
  ASSUME NEW x \in Seq(Text)
  PROVE  /\ \A w \in Text : Count(x, Before(w)) \in 0..Len(x) /\ Count(x, NotAfter(w)) \in 0..Len(x)
         /\ \A w \in ToSet(x) : w \in Text /\ Count(x, Before(w)) < Count(x, NotAfter(w))
         /\ \A v, w \in Text : Precedes(v, w) => Count(x, NotAfter(v)) <= Count(x, Before(w))
<1>1. \A i \in DOMAIN x : x[i] \in Text
  OBVIOUS
<1>2. ASSUME NEW w \in Text
      PROVE  Count(x, Before(w)) \in 0..Len(x) /\ Count(x, NotAfter(w)) \in 0..Len(x)
  BY CountBounded
<1>3. ASSUME NEW w \in ToSet(x) PROVE w \in Text /\ Count(x, Before(w)) < Count(x, NotAfter(w))
  <2>1. PICK k \in DOMAIN x : x[k] = w
    BY DEF ToSet
  <2>2. w \in Text
    BY <1>1, <2>1
  <2>3. ASSUME NEW i \in DOMAIN x, x[i] \in Before(w) PROVE x[i] \in NotAfter(w)
    <3> DEFINE v == x[i]
    <3>1. v \in Text /\ Precedes(v, w)
      BY <2>3 DEF Before
    <3> HIDE DEF v
    <3>2. ~Precedes(w, v)
      BY <2>2, <3>1, PrecedesOrders
    <3> QED BY <3>1, <3>2 DEF NotAfter, v
  <2>4. w \notin Before(w) /\ w \in NotAfter(w)
    BY <2>2, PrecedesOrders DEF Before, NotAfter
  <2>5. \E i \in DOMAIN x : x[i] \in NotAfter(w) /\ x[i] \notin Before(w)
    BY <2>1, <2>4
  <2> QED BY <2>2, <2>3, <2>5, CountGrows
<1>4. ASSUME NEW v \in Text, NEW w \in Text, Precedes(v, w)
      PROVE  Count(x, NotAfter(v)) <= Count(x, Before(w))
  <2>1. ASSUME NEW i \in DOMAIN x, x[i] \in NotAfter(v) PROVE x[i] \in Before(w)
    <3> DEFINE z == x[i]
    <3>1. z \in Text /\ ~Precedes(v, z)
      BY <2>1 DEF NotAfter
    <3> HIDE DEF z
    <3>2. z = v \/ Precedes(z, v)
      BY <3>1, PrecedesOrders
    <3>3. Precedes(z, w)
      BY <1>4, <3>1, <3>2, PrecedesOrders
    <3> QED BY <3>1, <3>3 DEF Before, z
  <2> QED BY <2>1, CountGrows
<1> QED BY <1>2, <1>3, <1>4

(***************************************************************************)
(* Among the words of x there is a first.                                  *)
(***************************************************************************)
LEMMA FirstExists ==
  ASSUME NEW x \in Seq(Text), NEW V, V \subseteq ToSet(x), V # {}
  PROVE  \E w \in V : \A v \in V : ~Precedes(v, w)
<1> DEFINE D == {Count(x, Before(v)) : v \in V}
<1>1. \A v \in V : v \in Text /\ v \in ToSet(x) /\ Count(x, Before(v)) \in Nat
                   /\ Count(x, NotAfter(v)) \in Nat
  BY PlacesAre
<1>2. D \in SUBSET Nat /\ D # {}
  BY <1>1
<1>3. PICK n \in D : \A m \in D : n <= m
  <2> HIDE DEF D
  <2> QED BY <1>2, LeastNatural
<1>4. PICK w \in V : n = Count(x, Before(w))
  OBVIOUS
<1>5. ASSUME NEW v \in V, Precedes(v, w) PROVE FALSE
  <2>1. Count(x, Before(v)) < Count(x, NotAfter(v))
    BY <1>1, PlacesAre
  <2>2. Count(x, NotAfter(v)) <= Count(x, Before(w))
    BY <1>1, <1>5, PlacesAre
  <2>3. Count(x, Before(w)) <= Count(x, Before(v))
    BY <1>3, <1>4
  <2>4. Count(x, Before(w)) \in Nat /\ Count(x, Before(v)) \in Nat /\ Count(x, NotAfter(v)) \in Nat
    BY <1>1
  <2> QED BY <2>1, <2>2, <2>3, <2>4
<1> QED BY <1>5

LEMMA LastExists ==
  ASSUME NEW x \in Seq(Text), NEW V, V \subseteq ToSet(x), V # {}
  PROVE  \E w \in V : \A v \in V : ~Precedes(w, v)
<1> DEFINE D == {Count(x, Before(v)) : v \in V}
<1>1. \A v \in V : v \in Text /\ v \in ToSet(x) /\ Count(x, Before(v)) \in 0..Len(x)
                   /\ Count(x, NotAfter(v)) \in 0..Len(x)
  BY PlacesAre
<1>2. D \subseteq 0..Len(x) /\ D # {} /\ Len(x) \in Nat
  BY <1>1
<1>3. PICK n \in D : \A m \in D : m <= n
  <2> HIDE DEF D
  <2> QED BY <1>2, GreatestExists
<1>4. PICK w \in V : n = Count(x, Before(w))
  OBVIOUS
<1>5. ASSUME NEW v \in V, Precedes(w, v) PROVE FALSE
  <2>1. Count(x, Before(w)) < Count(x, NotAfter(w))
    BY <1>1, PlacesAre
  <2>2. Count(x, NotAfter(w)) <= Count(x, Before(v))
    BY <1>1, <1>5, PlacesAre
  <2>3. Count(x, Before(v)) <= Count(x, Before(w))
    BY <1>3, <1>4
  <2>4. Count(x, Before(w)) \in Nat /\ Count(x, Before(v)) \in Nat /\ Count(x, NotAfter(w)) \in Nat
    BY <1>1
  <2> QED BY <2>1, <2>2, <2>3, <2>4
<1> QED BY <1>5

(***************************************************************************)
(* One word belongs in each place.                                         *)
(***************************************************************************)
LEMMA PlaceUnique ==
  ASSUME NEW x \in Seq(Text), NEW k \in Nat, NEW v, NEW w, IsPlace(x, k, v), IsPlace(x, k, w)
  PROVE  v = w
<1>1. v \in Text /\ w \in Text
  BY PlacesAre DEF IsPlace
<1>2. /\ Count(x, Before(v)) \in Nat /\ Count(x, NotAfter(v)) \in Nat
      /\ Count(x, Before(w)) \in Nat /\ Count(x, NotAfter(w)) \in Nat
  BY <1>1, PlacesAre
<1>3. /\ Count(x, Before(v)) < k /\ k <= Count(x, NotAfter(v))
      /\ Count(x, Before(w)) < k /\ k <= Count(x, NotAfter(w))
  BY DEF IsPlace
<1>4. ~Precedes(v, w)
  <2> SUFFICES ASSUME Precedes(v, w) PROVE FALSE
    OBVIOUS
  <2>1. Count(x, NotAfter(v)) <= Count(x, Before(w))
    BY <1>1, PlacesAre
  <2> QED BY <1>2, <1>3, <2>1
<1>5. ~Precedes(w, v)
  <2> SUFFICES ASSUME Precedes(w, v) PROVE FALSE
    OBVIOUS
  <2>1. Count(x, NotAfter(w)) <= Count(x, Before(v))
    BY <1>1, PlacesAre
  <2> QED BY <1>2, <1>3, <2>1
<1> QED BY <1>1, <1>4, <1>5, PrecedesOrders

LEMMA PlaceExists ==
  ASSUME NEW x \in Seq(Text), NEW k \in 1..Len(x)
  PROVE  \E w : IsPlace(x, k, w)
<1> DEFINE T == ToSet(x)
           V == {w \in T : Count(x, Before(w)) < k}
<1>1. k \in Nat /\ k >= 1 /\ k <= Len(x) /\ Len(x) \in Nat
  OBVIOUS
<1>2. \A i \in DOMAIN x : x[i] \in T /\ x[i] \in Text
  BY DEF ToSet
<1>3. \A v \in T : v \in Text /\ Count(x, Before(v)) \in Nat /\ Count(x, NotAfter(v)) \in Nat
  BY PlacesAre
<1>4. T # {}
  <2>1. 1 \in DOMAIN x
    BY <1>1
  <2> QED BY <1>2, <2>1
<1>5. V # {}
  <2>1. PICK w \in T : \A v \in T : ~Precedes(v, w)
    BY <1>4, FirstExists
  <2>2. \A i \in DOMAIN x : x[i] \notin Before(w)
    BY <1>2, <2>1 DEF Before
  <2>3. Count(x, Before(w)) = 0
    BY <2>2, CountBounded
  <2> QED BY <1>1, <2>3
<1>6. PICK w \in V : \A v \in V : ~Precedes(w, v)
  <2>1. V \subseteq ToSet(x)
    OBVIOUS
  <2> HIDE DEF V
  <2> QED BY <1>5, <2>1, LastExists
<1>7. w \in T /\ Count(x, Before(w)) < k
  OBVIOUS
<1>8. k <= Count(x, NotAfter(w))
  <2> SUFFICES ASSUME ~(k <= Count(x, NotAfter(w))) PROVE FALSE
    OBVIOUS
  <2> DEFINE U == {v \in T : Precedes(w, v)}
  <2>1. U # {}
    <3> SUFFICES ASSUME U = {} PROVE FALSE
      OBVIOUS
    <3>1. \A i \in DOMAIN x : x[i] \in NotAfter(w)
      BY <1>2 DEF NotAfter
    <3>2. Count(x, NotAfter(w)) = Len(x)
      BY <3>1, CountBounded
    <3> QED BY <1>1, <3>2
  <2>2. PICK v \in U : \A u \in U : ~Precedes(u, v)
    <3>1. U \subseteq ToSet(x)
      OBVIOUS
    <3> HIDE DEF U
    <3> QED BY <2>1, <3>1, FirstExists
  <2>3. \A i \in DOMAIN x : x[i] \in Before(v) => x[i] \in NotAfter(w)
    BY <1>2, <2>2 DEF Before, NotAfter
  <2>4. Count(x, Before(v)) <= Count(x, NotAfter(w))
    BY <2>3, CountGrows
  <2>5. v \in T /\ Precedes(w, v)
    OBVIOUS
  <2>6. Count(x, Before(v)) < k
    BY <1>1, <1>3, <1>7, <2>4, <2>5
  <2> QED BY <1>6, <2>5, <2>6
<1> QED BY <1>7, <1>8 DEF IsPlace

(***************************************************************************)
(* Sorted puts in every place the word that belongs there.                 *)
(***************************************************************************)
LEMMA SortedIs ==
  ASSUME NEW x \in Seq(Text)
  PROVE  /\ DOMAIN Sorted(x) = 1..Len(x)
         /\ \A k \in 1..Len(x) : IsPlace(x, k, Sorted(x)[k])
<1>1. DOMAIN x = 1..Len(x) /\ Len(x) \in Nat
  OBVIOUS
<1>2. DOMAIN Sorted(x) = 1..Len(x)
  BY <1>1 DEF Sorted
<1>3. ASSUME NEW k \in 1..Len(x) PROVE IsPlace(x, k, Sorted(x)[k])
  <2> DEFINE Q(w) == /\ Cardinality({i \in DOMAIN x : Precedes(x[i], w)}) < k
                     /\ Cardinality({i \in DOMAIN x : ~Precedes(w, x[i])}) >= k
             c == CHOOSE w \in ToSet(x) : Q(w)
  <2>1. ASSUME NEW w PROVE Q(w) <=> Count(x, Before(w)) < k /\ k <= Count(x, NotAfter(w))
    <3>1. \A i \in DOMAIN x : x[i] \in Text
      OBVIOUS
    <3>2. {i \in DOMAIN x : Precedes(x[i], w)} = Places(x, Before(w))
      BY <3>1 DEF Places, Before
    <3>3. {i \in DOMAIN x : ~Precedes(w, x[i])} = Places(x, NotAfter(w))
      BY <3>1 DEF Places, NotAfter
    <3>4. Count(x, NotAfter(w)) \in Nat
      <4>1. Count(x, NotAfter(w)) \in 0..Len(x)
        BY CountBounded
      <4> QED BY <4>1
    <3>5. Count(x, NotAfter(w)) >= k <=> k <= Count(x, NotAfter(w))
      BY <3>4
    <3> QED BY <3>2, <3>3, <3>5 DEF Count
  <2>2. Sorted(x)[k] = c
    BY <1>1 DEF Sorted
  <2> HIDE DEF Q
  <2>3. PICK w : IsPlace(x, k, w)
    BY PlaceExists
  <2>4. w \in ToSet(x) /\ Q(w)
    BY <2>1, <2>3 DEF IsPlace
  <2>5. c \in ToSet(x) /\ Q(c)
    BY <2>4
  <2> HIDE DEF c
  <2> QED BY <2>1, <2>2, <2>5 DEF IsPlace
<1> QED BY <1>2, <1>3

LEMMA SortedType ==
  ASSUME NEW C, C \subseteq Text, NEW x \in Seq(C)
  PROVE  Sorted(x) \in Seq(C) /\ Len(Sorted(x)) = Len(x)
<1> DEFINE s == Sorted(x)
<1>1. x \in Seq(Text) /\ \A i \in DOMAIN x : x[i] \in C
  OBVIOUS
<1>2. DOMAIN s = 1..Len(x) /\ \A k \in 1..Len(x) : s[k] \in ToSet(x)
  BY <1>1, SortedIs DEF IsPlace
<1>3. \A w \in ToSet(x) : w \in C
  BY <1>1 DEF ToSet
<1>4. s = [k \in 1..Len(x) |-> s[k]]
  <2> DEFINE F(k) == CHOOSE w \in ToSet(x) :
                       /\ Cardinality({i \in DOMAIN x : Precedes(x[i], w)}) < k
                       /\ Cardinality({i \in DOMAIN x : ~Precedes(w, x[i])}) >= k
             D == DOMAIN x
  <2>1. s = [k \in D |-> F(k)]
    BY DEF Sorted
  <2>2. D = 1..Len(x)
    OBVIOUS
  <2> HIDE DEF F, s, D
  <2> QED BY <2>1, <2>2
<1> HIDE DEF s
<1>5. \A k \in 1..Len(x) : s[k] \in C
  BY <1>2, <1>3
<1>6. Len(x) \in Nat
  OBVIOUS
<1> QED BY <1>4, <1>5, <1>6 DEF s

(***************************************************************************)
(* Whatever an identity holds, its canonical parts are texts.              *)
(***************************************************************************)
LEMMA TokensAreTexts ==
  ASSUME NEW ws \in Seq(Text)
  PROVE  Tokens(ws) \in Seq(Text)
<1> DEFINE R == Seq(Text)
           e(i) == IF Expanded(ws[i]) = <<>> THEN <<>> ELSE <<Expanded(ws[i])>>
<1>1. DOMAIN ws = 1..Len(ws) /\ Len(ws) \in Nat /\ \A i \in 1..Len(ws) : ws[i] \in Text
  OBVIOUS
<1>2. ASSUME NEW w \in Text PROVE Expanded(w) \in Text
  BY WordsAssumption DEF Expanded, Text
<1>3. \A v \in Text : <<v>> \in Seq(Text)
  OBVIOUS
<1>4. <<>> \in R
  OBVIOUS
<1>5. \A i \in 1..Len(ws) : e(i) \in R
  BY <1>1, <1>2, <1>3, <1>4
<1>6. [i \in DOMAIN ws |-> e(i)] \in Seq(R)
  <2> HIDE DEF R, e
  <2>1. [i \in 1..Len(ws) |-> e(i)] \in Seq(R)
    BY <1>1, <1>5
  <2> QED BY <1>1, <2>1
<1>7. FlattenSeq([i \in DOMAIN ws |-> e(i)]) \in Seq(Text)
  <2> HIDE DEF e
  <2> QED BY <1>4, <1>6, FlattenIs DEF R
<1> QED BY <1>7 DEF Tokens

LEMMA CanonicalTexts ==
  ASSUME NEW version, NEW h \in Identity
  PROVE  AreTexts(CanonicalisedAt(version, h), Chars)
<1>1. h.given_name \in Seq(Chars) /\ h.family_name \in Seq(Chars)
      /\ h.address \in Seq(Chars) /\ h.postcode \in Seq(Chars)
  BY DEF Identity, Text
<1>2. ASSUME NEW t \in Seq(Chars)
      PROVE  Words(Folded(t)) \in Seq(Word) /\ Words(Folded(t)) \in Seq(Text)
  <2>1. Words(Folded(t)) \in Seq(Word)
    BY FoldedType, WordsType
  <2> QED BY <2>1, WordIsText DEF Text
<1>3. ASSUME NEW t \in Seq(Chars) PROVE canonicalise_name(t) \in Seq(Chars)
  BY <1>2, JoinedType DEF canonicalise_name, Text
<1>4. ASSUME NEW t \in Seq(Chars) PROVE canonicalise_address(t) \in Seq(Chars)
  <2> DEFINE x == Tokens(Words(Folded(t)))
  <2>1. x \in Seq(Text)
    BY <1>2, TokensAreTexts
  <2> HIDE DEF x
  <2>2. Sorted(x) \in Seq(Text)
    BY <2>1, SortedType
  <2>3. Sorted(x) \in Seq(Seq(Chars))
    BY <2>2 DEF Text
  <2>4. Joined(Sorted(x)) \in Seq(Chars)
    BY <2>3, JoinedType
  <2> QED BY <2>4 DEF canonicalise_address, x
<1>5. canonicalise_postcode(h.postcode) \in Seq(Chars)
  BY <1>1, PostcodeType
<1> QED BY <1>1, <1>3, <1>4, <1>5 DEF AreTexts, parts, CanonicalisedAt

(***************************************************************************)
(* The order in which the words come does not matter.                      *)
(***************************************************************************)
LEMMA SortedSwap ==
  ASSUME NEW x \in Seq(Text), NEW y \in Seq(Text)
  PROVE  Sorted(x \o y) = Sorted(y \o x)
<1> DEFINE u == x \o y
           v == y \o x
           s == Sorted(u)
           t == Sorted(v)
<1>1. u \in Seq(Text) /\ v \in Seq(Text) /\ Len(u) = Len(v)
  OBVIOUS
<1>2. ASSUME NEW W PROVE Count(u, W) = Count(v, W)
  <2>1. Count(u, W) = Count(x, W) + Count(y, W) /\ Count(v, W) = Count(y, W) + Count(x, W)
    BY CountConcat
  <2>2. Count(x, W) \in 0..Len(x) /\ Count(y, W) \in 0..Len(y)
    BY CountBounded
  <2>3. Count(x, W) \in Nat /\ Count(y, W) \in Nat
    BY <2>2
  <2> HIDE DEF u, v
  <2> QED BY <2>1, <2>3
<1>3. ToSet(u) = ToSet(v)
  <2>1. ASSUME NEW a \in Seq(Text), NEW b \in Seq(Text), NEW w \in ToSet(a \o b)
        PROVE  w \in ToSet(b \o a)
    <3>1. PICK i \in 1..Len(a) + Len(b) : w = (a \o b)[i]
      BY DEF ToSet
    <3>2. CASE i <= Len(a)
      <4>1. (b \o a)[Len(b) + i] = a[i] /\ (a \o b)[i] = a[i] /\ Len(b) + i \in DOMAIN (b \o a)
        BY <3>2
      <4> QED BY <3>1, <4>1 DEF ToSet
    <3>3. CASE i > Len(a)
      <4>1. (b \o a)[i - Len(a)] = b[i - Len(a)] /\ (a \o b)[i] = b[i - Len(a)]
            /\ i - Len(a) \in DOMAIN (b \o a)
        BY <3>3
      <4> QED BY <3>1, <4>1 DEF ToSet
    <3> QED BY <3>2, <3>3
  <2>2. \A w \in ToSet(u) : w \in ToSet(v)
    BY <2>1
  <2>3. \A w \in ToSet(v) : w \in ToSet(u)
    BY <2>1
  <2> QED BY <2>2, <2>3
<1> HIDE DEF u, v
<1>4. s \in Seq(Text) /\ t \in Seq(Text) /\ Len(s) = Len(u) /\ Len(t) = Len(u)
  BY <1>1, SortedType
<1>5. ASSUME NEW k \in 1..Len(u) PROVE s[k] = t[k]
  <2>1. IsPlace(u, k, s[k]) /\ IsPlace(v, k, t[k])
    BY <1>1, SortedIs
  <2>2. IsPlace(v, k, s[k])
    BY <1>2, <1>3, <2>1 DEF IsPlace
  <2>3. k \in Nat
    BY <1>1
  <2> HIDE DEF s, t
  <2> QED BY <1>1, <2>1, <2>2, <2>3, PlaceUnique
<1>6. s = t
  <2> HIDE DEF s, t
  <2> QED BY <1>4, <1>5, SameText
<1> QED BY <1>6 DEF u, v

(***************************************************************************)
(* Sorting what is sorted changes nothing.                                 *)
(***************************************************************************)
LEMMA SortedAgain ==
  ASSUME NEW x \in Seq(Text)
  PROVE  Sorted(Sorted(x)) = Sorted(x)
<1> DEFINE n == Len(x)
           s == Sorted(x)
           t == Sorted(s)
<1>1. s \in Seq(Text) /\ Len(s) = n /\ n \in Nat
  BY SortedType
<1>2. \A k \in 1..n : IsPlace(x, k, s[k])
  BY SortedIs
<1> HIDE DEF s
<1>3. t \in Seq(Text) /\ Len(t) = n /\ \A k \in 1..n : IsPlace(s, k, t[k])
  BY <1>1, SortedType, SortedIs
<1> HIDE DEF t
<1>4. ASSUME NEW i \in 1..n, NEW j \in 1..n, i < j PROVE ~Precedes(s[j], s[i])
  <2> SUFFICES ASSUME Precedes(s[j], s[i]) PROVE FALSE
    OBVIOUS
  <2> DEFINE v == s[j]
             w == s[i]
  <2>1. v \in Text /\ w \in Text
    BY <1>1
  <2>2. Count(x, Before(w)) < i /\ j <= Count(x, NotAfter(v))
    BY <1>2 DEF IsPlace
  <2> HIDE DEF v, w
  <2>3. Count(x, NotAfter(v)) <= Count(x, Before(w))
    BY <2>1, PlacesAre DEF v, w
  <2>4. Count(x, NotAfter(v)) \in 0..n /\ Count(x, Before(w)) \in 0..n
    BY <2>1, PlacesAre
  <2>5. i \in Nat /\ j \in Nat
    BY <1>1
  <2> QED BY <1>1, <1>4, <2>2, <2>3, <2>4, <2>5
<1>5. ASSUME NEW k \in 1..n PROVE IsPlace(s, k, s[k])
  <2> DEFINE w == s[k]
             B == Places(s, Before(w))
             N == Places(s, NotAfter(w))
  <2>1. DOMAIN s = 1..n /\ k \in Nat /\ k - 1 \in Nat /\ w \in Text
    BY <1>1
  <2>2. ~Precedes(w, w)
    BY <2>1, PrecedesOrders
  <2>3. B \in SUBSET (1..k - 1)
    <3> SUFFICES ASSUME NEW i \in B PROVE i \in 1..k - 1
      OBVIOUS
    <3>1. i \in 1..n /\ Precedes(s[i], w)
      BY <2>1 DEF Places, Before
    <3>2. ~(k < i) /\ k # i
      BY <1>4, <2>2, <3>1
    <3> QED BY <1>1, <3>1, <3>2
  <2>4. 1..k \in SUBSET N
    <3> SUFFICES ASSUME NEW i \in 1..k PROVE i \in N
      OBVIOUS
    <3>1. i \in 1..n /\ (i < k \/ i = k) /\ s[i] \in Text
      BY <1>1
    <3>2. ~Precedes(w, s[i])
      BY <1>4, <2>2, <3>1
    <3> QED BY <2>1, <3>1, <3>2 DEF Places, NotAfter
  <2>5. N \in SUBSET (1..n)
    BY <2>1 DEF Places
  <2>6. w \in ToSet(s)
    BY <2>1 DEF ToSet
  <2> HIDE DEF B, N, w
  <2>7. /\ IsFiniteSet(1..k - 1) /\ Cardinality(1..k - 1) = k - 1
        /\ IsFiniteSet(1..k) /\ Cardinality(1..k) = k /\ IsFiniteSet(1..n)
    <3> DEFINE m == k - 1
    <3> HIDE DEF m
    <3>1. m \in Nat /\ k \in Nat
      BY <2>1 DEF m
    <3>2. IsFiniteSet(1..m) /\ Cardinality(1..m) = IF 1 > m THEN 0 ELSE m - 1 + 1
      BY <3>1, FS_Interval
    <3>3. IsFiniteSet(1..k) /\ Cardinality(1..k) = IF 1 > k THEN 0 ELSE k - 1 + 1
      BY <3>1, FS_Interval
    <3>4. Cardinality(1..m) = m /\ Cardinality(1..k) = k
      BY <3>1, <3>2, <3>3
    <3>5. IsFiniteSet(1..n)
      BY <1>1, FS_Interval
    <3> QED BY <3>2, <3>3, <3>4, <3>5 DEF m
  <2>8. Cardinality(B) <= k - 1
    <3> DEFINE m == k - 1
    <3> HIDE DEF m
    <3>1. B \in SUBSET (1..m) /\ IsFiniteSet(1..m) /\ Cardinality(1..m) = m
      BY <2>3, <2>7 DEF m
    <3>2. Cardinality(B) <= m
      BY <3>1, FS_Subset
    <3> QED BY <3>2 DEF m
  <2>9. k <= Cardinality(N)
    <3>1. IsFiniteSet(N)
      BY <2>5, <2>7, FS_Subset
    <3> QED BY <2>4, <2>7, <3>1, FS_Subset
  <2>10. Count(s, Before(w)) \in 0..n
    BY <1>1, CountBounded
  <2>11. Count(s, Before(w)) < k
    <3>1. Count(s, Before(w)) <= k - 1
      BY <2>8 DEF Count, B
    <3> QED BY <1>1, <2>1, <2>10, <3>1
  <2>12. k <= Count(s, NotAfter(w))
    BY <2>9 DEF Count, N
  <2> QED BY <2>6, <2>11, <2>12 DEF IsPlace, w
<1>6. ASSUME NEW k \in 1..n PROVE t[k] = s[k]
  <2>1. k \in Nat
    BY <1>1
  <2>2. IsPlace(s, k, t[k]) /\ IsPlace(s, k, s[k])
    BY <1>3, <1>5
  <2> QED BY <1>1, <2>1, <2>2, PlaceUnique
<1>7. t = s
  <2> HIDE DEF n
  <2> QED BY <1>1, <1>3, <1>6, SameText
<1> QED BY <1>7 DEF t, s

-----------------------------------------------------------------------------
(* What canonicalisation makes of a field.                                 *)

(***************************************************************************)
(* Joining words over an alphabet with a space gives a text over it.       *)
(***************************************************************************)
LEMMA JoinedOver ==
  ASSUME NEW K, K \subseteq Chars, Space \in K, NEW ws \in Seq(Seq(K))
  PROVE  Joined(ws) \in Seq(K)
<1> DEFINE R == Seq(K)
           s == Spacer(ws)
           n == Len(ws)
           o == <<Space>>
<1>1. DOMAIN ws = 1..n /\ n \in Nat /\ (\A i \in 1..n : ws[i] \in R) /\ o \in R /\ <<>> \in R
  OBVIOUS
<1>2. ASSUME NEW w \in R PROVE o \o w \in R
  <2> HIDE DEF o
  <2> QED BY <1>1, <1>2, ConcatType
<1> HIDE DEF o
<1>3. s = [i \in 1..n |-> IF i = 1 THEN ws[i] ELSE o \o ws[i]]
  BY <1>1 DEF Spacer, o
<1>4. \A i \in 1..n : (IF i = 1 THEN ws[i] ELSE o \o ws[i]) \in R
  BY <1>1, <1>2
<1>5. s \in Seq(R)
  <2> HIDE DEF R, n, s
  <2> QED BY <1>1, <1>3, <1>4
<1>6. FlattenSeq(s) \in Seq(K)
  <2> HIDE DEF s
  <2> QED BY <1>1, <1>5, FlattenIs DEF R
<1> QED BY <1>6 DEF Joined, Spacer

(***************************************************************************)
(* The canonical form of a text is a text; the family name's words and the *)
(* address's tokens are all that it depends on.                            *)
(***************************************************************************)
LEMMA NameIs ==
  ASSUME NEW t \in Seq(Chars)
  PROVE  /\ canonicalise_name(t) = Joined(FoldedWords(t))
         /\ canonicalise_name(t) \in Seq(Chars)
<1>1. canonicalise_name(t) = Joined(FoldedWords(t))
  BY DEF canonicalise_name, FoldedWords
<1>2. FoldedWords(t) \in Seq(Seq(Chars))
  BY FoldedWordsType, WordIsText
<1> QED BY <1>1, <1>2, JoinedType

LEMMA SettledAre ==
  ASSUME NEW ws \in Seq(Settled)
  PROVE  /\ ws \in Seq(Word) /\ ws \in Seq(Text) /\ ws \in Seq(Seq(FoldsNoMore))
         /\ \A i \in DOMAIN ws : ws[i] \in Word /\ Expanded(ws[i]) = ws[i]
<1>1. \A i \in 1..Len(ws) : ws[i] \in Settled
  OBVIOUS
<1>2. \A i \in 1..Len(ws) : ws[i] \in Word /\ ws[i] \in Seq(FoldsNoMore) /\ Expanded(ws[i]) = ws[i]
  BY <1>1 DEF Settled
<1>3. \A i \in 1..Len(ws) : ws[i] \in Text
  BY <1>2, WordIsText DEF Text
<1>4. ws \in Seq(Word)
  BY <1>2, Retyped
<1>5. ws \in Seq(Text)
  BY <1>3, Retyped
<1>6. ws \in Seq(Seq(FoldsNoMore))
  <2> DEFINE R == Seq(FoldsNoMore)
  <2>1. \A i \in 1..Len(ws) : ws[i] \in R
    BY <1>2
  <2> HIDE DEF R
  <2>2. ws \in Seq(R)
    BY <2>1, Retyped
  <2> QED BY <2>2 DEF R
<1>7. DOMAIN ws = 1..Len(ws)
  OBVIOUS
<1> QED BY <1>2, <1>4, <1>5, <1>6, <1>7

LEMMA AddressIs ==
  ASSUME NEW t \in Seq(Chars)
  PROVE  LET s == Sorted(AddressTokens(t))
         IN  /\ canonicalise_address(t) = Joined(s)
             /\ s \in Seq(Settled) /\ Sorted(s) = s
             /\ canonicalise_address(t) \in Seq(Chars)
<1> DEFINE u == AddressTokens(t)
           s == Sorted(u)
<1>1. canonicalise_address(t) = Joined(s)
  BY DEF canonicalise_address, AddressTokens, FoldedWords
<1>2. u \in Seq(Settled) /\ u \in Seq(Text)
  <2>1. u \in Seq(Settled)
    BY TokensSettled
  <2> HIDE DEF u
  <2> QED BY <2>1, SettledAre
<1> HIDE DEF u
<1>3. s \in Seq(Settled)
  <2>1. Settled \subseteq Text
    BY WordIsText DEF Settled, Text
  <2> QED BY <1>2, <2>1, SortedType
<1>4. Sorted(s) = s
  BY <1>2, SortedAgain
<1> HIDE DEF s
<1>5. Joined(s) \in Seq(Chars)
  <2>1. s \in Seq(Seq(Chars))
    BY <1>3, SettledAre, WordIsText
  <2> QED BY <2>1, JoinedType
<1> QED BY <1>1, <1>3, <1>4, <1>5 DEF s, u

(***************************************************************************)
(* Canonicalising a name or an address a second time changes nothing.      *)
(***************************************************************************)
LEMMA SpaceStays ==
  Space \in FoldsNoMore /\ FoldsNoMore \subseteq Chars
BY CharsAssumption, FoldingLaws DEF FoldsNoMore, Fold

LEMMA NameStable ==
  ASSUME NEW t \in Seq(Chars)
  PROVE  canonicalise_name(canonicalise_name(t)) = canonicalise_name(t)
<1> DEFINE ws == FoldedWords(t)
           n == Joined(ws)
<1>1. canonicalise_name(t) = n
  BY NameIs
<1>2. ws \in Seq(Word) /\ ws \in Seq(Seq(FoldsNoMore))
  BY FoldedWordsType
<1> HIDE DEF ws
<1>3. Words(n) = ws
  BY <1>2, WordsJoined
<1>4. n \in Seq(FoldsNoMore)
  BY <1>2, SpaceStays, JoinedOver
<1> HIDE DEF n
<1>5. Folded(n) = n
  BY <1>4, FoldedStays
<1>6. canonicalise_name(n) = Joined(Words(n))
  BY <1>5 DEF canonicalise_name
<1> QED BY <1>1, <1>3, <1>6 DEF n

LEMMA AddressStable ==
  ASSUME NEW t \in Seq(Chars)
  PROVE  canonicalise_address(canonicalise_address(t)) = canonicalise_address(t)
<1> DEFINE s == Sorted(AddressTokens(t))
           a == Joined(s)
<1>1. canonicalise_address(t) = a /\ s \in Seq(Settled) /\ Sorted(s) = s
  BY AddressIs
<1> HIDE DEF s
<1>2. /\ s \in Seq(Word) /\ s \in Seq(Seq(FoldsNoMore))
      /\ \A i \in DOMAIN s : s[i] \in Word /\ Expanded(s[i]) = s[i]
  BY <1>1, SettledAre
<1>3. Words(a) = s
  BY <1>2, WordsJoined
<1>4. a \in Seq(FoldsNoMore)
  BY <1>2, SpaceStays, JoinedOver
<1> HIDE DEF a
<1>5. Folded(a) = a
  BY <1>4, FoldedStays
<1>6. Tokens(s) = s
  <2>1. \A i \in DOMAIN s : s[i] # <<>>
    BY <1>2, WordIsText
  <2>2. Fixes(Token, s)
    BY <1>2, <2>1 DEF Fixes, Token
  <2>3. Mapped(Token, s) = s
    BY <1>2, <2>2, TokensAre, MappedSame
  <2> QED BY <1>2, <2>3, TokensAre
<1>7. canonicalise_address(a) = Joined(Sorted(Tokens(Words(a))))
  BY <1>5 DEF canonicalise_address
<1> QED BY <1>1, <1>3, <1>6, <1>7 DEF a

(***************************************************************************)
(* One letter for another, or one letter more before another: the          *)
(* canonical names differ by one character.                                *)
(***************************************************************************)
LEMMA LetterFolds ==
  ASSUME NEW c \in Letters
  PROVE  c \in Chars /\ \E x \in Chars : Folded(<<c>>) = <<x>> /\ <<x>> \in Word /\ <<x>> \in Spaceless
<1>1. c \in Chars
  BY OriginalsAssumption
<1>2. PICK x \in Chars \ Spaces : Folded(<<c>>) = <<x>>
  BY FoldingLaws
<1>3. <<x>> \in Spaceless /\ <<x>> # <<>>
  BY <1>2, SpacelessIs
<1> QED BY <1>1, <1>2, <1>3 DEF Word

\* Characters x, y of the canonical name, between p and q, spell letters c, d of
\* the name, between u and v.
Spelt(u, v, c, d, p, q, x, y) ==
  /\ p \in Seq(Chars) /\ q \in Seq(Chars) /\ x \in Chars /\ y \in Chars
  /\ canonicalise_name(u \o <<c>> \o v) = p \o <<x>> \o q
  /\ canonicalise_name(u \o <<d>> \o v) = p \o <<y>> \o q
  /\ canonicalise_name(u \o <<c, d>> \o v) = p \o <<x, y>> \o q

LEMMA LetterAround ==
  ASSUME NEW u \in Seq(Chars), NEW v \in Seq(Chars), NEW c \in Letters, NEW d \in Letters
  PROVE  \E p, q, x, y : Spelt(u, v, c, d, p, q, x, y)
<1> DEFINE U == Folded(u)
           V == Folded(v)
<1>1. U \in Seq(Chars) /\ V \in Seq(Chars)
  BY FoldedType
<1>2. PICK x \in Chars : Folded(<<c>>) = <<x>> /\ <<x>> \in Word /\ <<x>> \in Spaceless
  BY LetterFolds
<1>3. PICK y \in Chars : Folded(<<d>>) = <<y>> /\ <<y>> \in Word /\ <<y>> \in Spaceless
  BY LetterFolds
<1>4. c \in Chars /\ d \in Chars
  BY LetterFolds
<1>5. Folded(<<c, d>>) = <<x, y>> /\ <<x, y>> \in Word
  <2>1. Folded(<<c, d>>) = <<x>> \o <<y>>
    BY <1>2, <1>3, <1>4, FoldedTwo
  <2>2. <<x>> \o <<y>> = <<x, y>>
    BY TwoLetters
  <2>3. <<x, y>> \in Spaceless
    BY <1>2, <1>3, <2>2, SpacelessIs
  <2>4. <<x, y>> # <<>>
    OBVIOUS
  <2> QED BY <2>1, <2>2, <2>3, <2>4 DEF Word
<1> HIDE DEF U, V
<1>6. PICK p \in Seq(Chars), q \in Seq(Chars) :
        \A m \in Word : Joined(Words(U \o m \o V)) = p \o m \o q
  BY <1>1, NameAround
<1>7. ASSUME NEW t \in Seq(Chars), Folded(t) \in Word
      PROVE  canonicalise_name(u \o t \o v) = p \o Folded(t) \o q
  <2>1. Folded(u \o t \o v) = U \o Folded(t) \o V
    BY FoldedAround DEF U, V
  <2> QED BY <1>6, <1>7, <2>1 DEF canonicalise_name
<1>8. canonicalise_name(u \o <<c>> \o v) = p \o <<x>> \o q
  <2> DEFINE t == <<c>>
  <2>1. t \in Seq(Chars)
    BY <1>4
  <2> QED BY <1>2, <1>7, <2>1
<1>9. canonicalise_name(u \o <<d>> \o v) = p \o <<y>> \o q
  <2> DEFINE t == <<d>>
  <2>1. t \in Seq(Chars)
    BY <1>4
  <2> QED BY <1>3, <1>7, <2>1
<1>10. canonicalise_name(u \o <<c, d>> \o v) = p \o <<x, y>> \o q
  <2> DEFINE t == <<c, d>>
  <2>1. t \in Seq(Chars)
    BY <1>4, TwoLetters
  <2> QED BY <1>5, <1>7, <2>1
<1> QED BY <1>2, <1>3, <1>8, <1>9, <1>10 DEF Spelt

(***************************************************************************)
(* A wrong letter costs one, and leaves the length of the name as it is.   *)
(***************************************************************************)
LEMMA WrongLetter ==
  ASSUME NEW t \in Seq(Chars), NEW i \in 1..Len(t), t[i] \in Letters, NEW c \in Letters
  PROVE  LET b == canonicalise_name(t)
             d == canonicalise_name(ReplaceAt(t, i, c))
         IN  /\ b \in Seq(Chars) /\ d \in Seq(Chars)
             /\ Len(d) = Len(b)
             /\ \A a \in Seq(Chars) : edit_distance(a, d) <= edit_distance(a, b) + 1
<1> DEFINE l == t[i]
<1>0. PICK u, v : CutAt(t, i, u, v, Chars)
  BY CutExists
<1>1. /\ u \in Seq(Chars) /\ v \in Seq(Chars)
      /\ t = u \o <<l>> \o v
      /\ \A e \in Chars : ReplaceAt(t, i, e) = u \o <<e>> \o v
  BY <1>0 DEF CutAt
<1>2. c \in Chars /\ l \in Chars
  BY LetterFolds
<1>3. ReplaceAt(t, i, c) = u \o <<c>> \o v
  BY <1>1, <1>2
<1> HIDE DEF l
<1>4. l \in Letters
  BY DEF l
<1>5. PICK p, q, x, y : Spelt(u, v, l, c, p, q, x, y)
  <2>1. u \in Seq(Chars) /\ v \in Seq(Chars) /\ l \in Letters
    BY <1>1, <1>4
  <2> QED BY <2>1, LetterAround
<1> DEFINE b == p \o <<x>> \o q
           d == p \o <<y>> \o q
<1>6. canonicalise_name(t) = b /\ canonicalise_name(ReplaceAt(t, i, c)) = d
      /\ p \in Seq(Chars) /\ q \in Seq(Chars) /\ x \in Chars /\ y \in Chars
  BY <1>1, <1>3, <1>5 DEF Spelt
<1>7. b \in Seq(Chars) /\ d \in Seq(Chars)
  <2>1. <<x>> \in Seq(Chars) /\ <<y>> \in Seq(Chars)
    BY <1>6
  <2> QED BY <1>6, <2>1, AroundType
<1>8. IsReplacement(b, d, Len(p) + 1)
  BY <1>6, ReplacedAround
<1> HIDE DEF b, d
<1>9. Len(d) = Len(b)
  BY <1>8 DEF IsReplacement
<1>10. \A a \in Seq(Chars) : edit_distance(a, d) <= edit_distance(a, b) + 1
  BY <1>7, <1>8, CloseCostsOne
<1> QED BY <1>6, <1>7, <1>9, <1>10

(***************************************************************************)
(* A letter more before another, or one that is missing there, costs one.  *)
(***************************************************************************)
LEMMA ExtraLetter ==
  ASSUME NEW t \in Seq(Chars), NEW i \in 1..Len(t), t[i] \in Letters, NEW c \in Letters,
         NEW a \in Seq(Chars)
  PROVE  LET b == canonicalise_name(t)
             d == canonicalise_name(InsertAt(t, i, c))
         IN  /\ edit_distance(a, d) <= edit_distance(a, b) + 1
             /\ edit_distance(a, b) <= edit_distance(a, d) + 1
<1> DEFINE l == t[i]
<1>0. PICK u, v : CutAt(t, i, u, v, Chars)
  BY CutExists
<1>1. /\ u \in Seq(Chars) /\ v \in Seq(Chars)
      /\ t = u \o <<l>> \o v
      /\ \A e \in Chars : InsertAt(t, i, e) = u \o <<e, l>> \o v
  BY <1>0 DEF CutAt
<1>2. c \in Chars /\ l \in Chars
  BY LetterFolds
<1>3. InsertAt(t, i, c) = u \o <<c, l>> \o v
  BY <1>1, <1>2
<1> HIDE DEF l
<1>4. l \in Letters
  BY DEF l
<1>5. PICK p, q, x, y : Spelt(u, v, c, l, p, q, x, y)
  <2>1. u \in Seq(Chars) /\ v \in Seq(Chars) /\ l \in Letters
    BY <1>1, <1>4
  <2> QED BY <2>1, LetterAround
<1> DEFINE b == p \o <<y>> \o q
           d == p \o <<x, y>> \o q
<1>6. canonicalise_name(t) = b /\ canonicalise_name(InsertAt(t, i, c)) = d
      /\ p \in Seq(Chars) /\ q \in Seq(Chars) /\ x \in Chars /\ y \in Chars
  BY <1>1, <1>3, <1>5 DEF Spelt
<1>7. b \in Seq(Chars) /\ d \in Seq(Chars)
  <2>1. <<y>> \in Seq(Chars) /\ <<x, y>> \in Seq(Chars)
    BY <1>6, TwoLetters
  <2> QED BY <1>6, <2>1, AroundType
<1>8. IsInsertion(b, d, Len(p) + 1)
  BY <1>6, InsertedAround
<1> HIDE DEF b, d
<1>9. edit_distance(a, d) <= edit_distance(a, b) + 1 /\ edit_distance(a, b) <= edit_distance(a, d) + 1
  BY <1>7, <1>8, CloseCostsOne
<1> QED BY <1>6, <1>9

LEMMA MissingLetter ==
  ASSUME NEW t \in Seq(Chars), NEW i \in 1..Len(t), t[i] \in Letters,
         i + 1 \in 1..Len(t), t[i + 1] \in Letters, NEW a \in Seq(Chars)
  PROVE  edit_distance(a, canonicalise_name(RemoveAt(t, i)))
           <= edit_distance(a, canonicalise_name(t)) + 1
<1> DEFINE l == t[i]
           s == RemoveAt(t, i)
           z == InsertAt(s, i, l)
<1>1. s \in Seq(Chars) /\ IsInsertion(s, t, i) /\ l \in Chars
  BY RemovedIs
<1> HIDE DEF s, l
<1>2. /\ Len(t) = Len(s) + 1 /\ i \in 1..Len(s)
      /\ \A k \in 1..i - 1 : s[k] = t[k]
      /\ \A k \in i..Len(s) : s[k] = t[k + 1]
  BY <1>1 DEF IsInsertion
<1>3. z \in Seq(Chars) /\ IsInsertion(s, z, i) /\ z[i] = l
  <2>1. i \in 1..Len(s) + 1
    BY <1>1, <1>2
  <2> QED BY <1>1, <2>1, InsertedIs
<1> HIDE DEF z
<1>4. /\ Len(z) = Len(s) + 1
      /\ \A k \in 1..i - 1 : s[k] = z[k]
      /\ \A k \in i..Len(s) : s[k] = z[k + 1]
  BY <1>3 DEF IsInsertion
<1>5. ASSUME NEW k \in 1..Len(z) PROVE z[k] = t[k]
  <2>1. CASE k < i
    <3>1. k \in 1..i - 1
      BY <2>1
    <3> QED BY <1>2, <1>4, <3>1
  <2>2. CASE k = i
    BY <1>3, <2>2 DEF l
  <2>3. CASE k > i
    <3>1. k - 1 \in i..Len(s) /\ (k - 1) + 1 = k
      BY <1>1, <1>4, <2>3
    <3> QED BY <1>2, <1>4, <3>1
  <2> QED BY <2>1, <2>2, <2>3
<1>6. z = t
  BY <1>2, <1>3, <1>4, <1>5, SameText
<1>7. s[i] \in Letters /\ l \in Letters
  <2>1. i \in i..Len(s)
    BY <1>2
  <2> QED BY <1>2, <2>1 DEF l
<1>8. edit_distance(a, canonicalise_name(s)) <= edit_distance(a, canonicalise_name(z)) + 1
  BY <1>1, <1>2, <1>7, ExtraLetter DEF z
<1> QED BY <1>6, <1>8 DEF s

(***************************************************************************)
(* A wrong letter behind another letter leaves the first as it is.         *)
(***************************************************************************)
LEMMA LastLetter ==
  ASSUME NEW S, NEW u \in Seq(S), NEW n \in Nat, n >= 1, Len(u) = n
  PROVE  \E w \in Seq(S) : u = w \o <<u[n]>>
<1> DEFINE k == u[n]
           w == SubSeq(u, 1, n - 1)
           o == <<k>>
<1>1. n \in 1..Len(u) /\ k \in S
  OBVIOUS
<1>2. w \in Seq(S) /\ Len(w) = n - 1 /\ \A j \in 1..n - 1 : w[j] = u[j]
  <2>1. \A j \in 1..n - 1 : j \in 1..Len(u)
    OBVIOUS
  <2> QED BY <2>1
<1> HIDE DEF w, k
<1>3. o \in Seq(S) /\ Len(o) = 1 /\ o[1] = k
  BY <1>1
<1> HIDE DEF o
<1>4. Strung(u, w, o)
  <2>1. \A j \in 1..Len(w) : u[j] = w[j]
    BY <1>2
  <2>2. ASSUME NEW j \in 1..Len(o) PROVE u[Len(w) + j] = o[j]
    <3>1. j = 1 /\ Len(w) + j = n
      BY <1>2, <1>3
    <3> QED BY <1>3, <3>1 DEF k
  <2> QED BY <1>2, <1>3, <2>1, <2>2 DEF Strung
<1>5. u = w \o o
  BY <1>2, <1>3, <1>4, IsConcat
<1> QED BY <1>2, <1>5 DEF o, k

\* A letter d behind a letter k, which folds to z, adds one character to its word.
Behind(w, k, d, v, z) ==
  \E x \in Chars :
    /\ Folded((w \o <<k>>) \o <<d>> \o v) = Folded(w) \o <<z, x>> \o Folded(v)
    /\ <<z, x>> \in Word

LEMMA BehindFolds ==
  ASSUME NEW w \in Seq(Chars), NEW v \in Seq(Chars), NEW k \in Letters, NEW z \in Chars,
         Folded(<<k>>) = <<z>>, <<z>> \in Spaceless, NEW d \in Letters
  PROVE  Behind(w, k, d, v, z)
<1>1. PICK x \in Chars : Folded(<<d>>) = <<x>> /\ <<x>> \in Word /\ <<x>> \in Spaceless
  BY LetterFolds
<1>2. d \in Chars /\ k \in Chars
  BY LetterFolds
<1>3. <<z>> \o <<x>> = <<z, x>> /\ <<z, x>> # <<>> /\ <<z, x>> \in Seq(Chars)
  BY TwoLetters
<1>4. <<z, x>> \in Word
  <2>1. <<z, x>> \in Spaceless
    BY <1>1, <1>3, SpacelessIs
  <2> QED BY <1>3, <2>1 DEF Word
<1> DEFINE r == <<d>>
           e == <<k>>
           f == <<z>>
           g == <<x>>
           h == <<z, x>>
           u == w \o e
           U == Folded(w)
           V == Folded(v)
<1>5. r \in Seq(Chars) /\ e \in Seq(Chars) /\ f \in Seq(Chars) /\ g \in Seq(Chars) /\ h \in Seq(Chars)
  BY <1>2, <1>3
<1>6. Folded(e) = f /\ Folded(r) = g /\ f \o g = h
  BY <1>1, <1>3
<1> HIDE DEF r, e, f, g, h
<1>7. u \in Seq(Chars)
  BY <1>5, ConcatType
<1>8. Folded(u) = U \o f
  BY <1>5, <1>6, FoldedConcat
<1> HIDE DEF u
<1>9. Folded(u \o r \o v) = Folded(u) \o Folded(r) \o V
  BY <1>5, <1>7, FoldedAround
<1>10. U \in Seq(Chars)
  BY FoldedType
<1> HIDE DEF U, V
<1>11. (U \o f) \o g = U \o (f \o g)
  BY <1>5, <1>10
<1>12. Folded(u \o r \o v) = U \o h \o V
  BY <1>6, <1>8, <1>9, <1>11
<1> QED BY <1>4, <1>12 DEF u, r, e, h, U, V, Behind

LEMMA FirstLetter ==
  ASSUME NEW p \in Seq(Chars), NEW q \in Seq(Chars), NEW z \in Chars, NEW x \in Chars
  PROVE  LET s == p \o <<z, x>> \o q
         IN  /\ s \in Seq(Chars) /\ Len(s) >= 1
             /\ s[1] = IF Len(p) >= 1 THEN p[1] ELSE z
<1> DEFINE h == <<z, x>>
           s == p \o h \o q
<1>1. h \in Seq(Chars) /\ Len(h) = 2 /\ h[1] = z
  BY TwoLetters
<1> HIDE DEF h
<1>2. p \in Seq(Chars) /\ h \in Seq(Chars) /\ q \in Seq(Chars)
  BY <1>1
<1>3. s \in Seq(Chars) /\ Len(s) = Len(p) + Len(h) + Len(q)
  BY <1>2, AroundType
<1>4. \A j \in 1..Len(p) : s[j] = p[j]
  BY <1>2, AroundPlaces
<1>5. \A j \in 1..Len(h) : s[Len(p) + j] = h[j]
  BY <1>2, AroundPlaces
<1> HIDE DEF s
<1>6. Len(p) \in Nat /\ Len(q) \in Nat
  OBVIOUS
<1>7. Len(s) >= 1
  BY <1>1, <1>3, <1>6
<1>8. s[1] = IF Len(p) >= 1 THEN p[1] ELSE z
  <2>1. CASE Len(p) >= 1
    <3>1. 1 \in 1..Len(p)
      BY <1>6, <2>1
    <3> QED BY <1>4, <2>1, <3>1
  <2>2. CASE Len(p) = 0
    <3>1. 1 \in 1..Len(h) /\ Len(p) + 1 = 1
      BY <1>1, <2>2
    <3>2. s[1] = z
      BY <1>1, <1>5, <3>1
    <3> QED BY <2>2, <3>2
  <2> QED BY <1>6, <2>1, <2>2
<1> QED BY <1>3, <1>7, <1>8 DEF s, h

LEMMA WrongLetterBehind ==
  ASSUME NEW t \in Seq(Chars), NEW i \in 1..Len(t), t[i] \in Letters, NEW c \in Letters,
         i > 1, t[i - 1] \in Letters
  PROVE  SubSeq(canonicalise_name(ReplaceAt(t, i, c)), 1, 1) = SubSeq(canonicalise_name(t), 1, 1)
<1> DEFINE l == t[i]
           k == t[i - 1]
<1>0. PICK u, v : CutAt(t, i, u, v, Chars)
  BY CutExists
<1>1. /\ u \in Seq(Chars) /\ v \in Seq(Chars)
      /\ t = u \o <<l>> \o v
      /\ Len(u) = i - 1
      /\ \A e \in Chars : ReplaceAt(t, i, e) = u \o <<e>> \o v
  BY <1>0 DEF CutAt
<1>2. c \in Letters /\ l \in Letters /\ k \in Letters /\ c \in Chars /\ l \in Chars /\ k \in Chars
  BY LetterFolds
<1>3. ReplaceAt(t, i, c) = u \o <<c>> \o v
  BY <1>1, <1>2
<1>4. i - 1 \in 1..Len(u) /\ i - 1 \in Nat /\ i - 1 >= 1
  BY <1>1
<1> HIDE DEF l
<1>5. u[i - 1] = k
  <2> DEFINE m == <<l>>
  <2>1. m \in Seq(Chars)
    BY <1>2
  <2> HIDE DEF m
  <2>2. u \in Seq(Chars) /\ m \in Seq(Chars) /\ v \in Seq(Chars)
    BY <1>1, <2>1
  <2>3. \A j \in 1..Len(u) : (u \o m \o v)[j] = u[j]
    BY <2>2, AroundPlaces
  <2>4. t = u \o m \o v
    BY <1>1 DEF m
  <2> QED BY <1>4, <2>3, <2>4
<1>6. PICK w \in Seq(Chars) : u = w \o <<k>>
  <2> DEFINE n == i - 1
  <2>1. u \in Seq(Chars) /\ Len(u) = n /\ n \in Nat /\ n >= 1 /\ u[n] = k
    BY <1>1, <1>4, <1>5
  <2> HIDE DEF n, k
  <2> QED BY <2>1, LastLetter
<1> HIDE DEF k
<1>7. PICK z \in Chars : Folded(<<k>>) = <<z>> /\ <<z>> \in Word /\ <<z>> \in Spaceless
  BY <1>2, LetterFolds
<1> DEFINE U == Folded(w)
           V == Folded(v)
<1>8. U \in Seq(Chars) /\ V \in Seq(Chars)
  BY <1>1, FoldedType
<1>9. ASSUME NEW d \in Letters
      PROVE  \E x \in Chars : Folded(u \o <<d>> \o v) = U \o <<z, x>> \o V /\ <<z, x>> \in Word
  <2>1. v \in Seq(Chars) /\ w \in Seq(Chars)
    BY <1>1
  <2> HIDE DEF U, V
  <2>2. Behind(w, k, d, v, z)
    BY <1>2, <1>7, <2>1, BehindFolds
  <2>3. PICK x \in Chars :
          /\ Folded((w \o <<k>>) \o <<d>> \o v) = Folded(w) \o <<z, x>> \o Folded(v)
          /\ <<z, x>> \in Word
    BY <2>2 DEF Behind
  <2> QED BY <1>6, <2>3 DEF U, V
<1> HIDE DEF U, V
<1>10. PICK p \in Seq(Chars), q \in Seq(Chars) :
        \A m \in Word : Joined(Words(U \o m \o V)) = p \o m \o q
  BY <1>8, NameAround
<1>11. ASSUME NEW d \in Letters
       PROVE  \E x \in Chars : canonicalise_name(u \o <<d>> \o v) = p \o <<z, x>> \o q
  BY <1>9, <1>10 DEF canonicalise_name
<1>12. PICK x \in Chars : canonicalise_name(u \o <<l>> \o v) = p \o <<z, x>> \o q
  BY <1>2, <1>11
<1>13. PICK y \in Chars : canonicalise_name(u \o <<c>> \o v) = p \o <<z, y>> \o q
  BY <1>2, <1>11
<1> DEFINE b == p \o <<z, x>> \o q
           d == p \o <<z, y>> \o q
<1>14. b \in Seq(Chars) /\ d \in Seq(Chars) /\ Len(b) >= 1 /\ Len(d) >= 1 /\ b[1] = d[1]
  <2> DEFINE f == IF Len(p) >= 1 THEN p[1] ELSE z
  <2>1. z \in Chars
    BY <1>1
  <2> HIDE DEF f
  <2>2. b \in Seq(Chars) /\ Len(b) >= 1 /\ b[1] = f
    BY <2>1, FirstLetter, SMTT(30) DEF f
  <2>3. d \in Seq(Chars) /\ Len(d) >= 1 /\ d[1] = f
    BY <2>1, FirstLetter, SMTT(30) DEF f
  <2> HIDE DEF b, d
  <2> QED BY <2>2, <2>3
<1>15. canonicalise_name(t) = b /\ canonicalise_name(ReplaceAt(t, i, c)) = d
  BY <1>1, <1>3, <1>12, <1>13
<1> HIDE DEF b, d
<1>16. SubSeq(d, 1, 1) = SubSeq(b, 1, 1)
  BY <1>14
<1> QED BY <1>15, <1>16

-----------------------------------------------------------------------------
(* Formatting.                                                             *)

Fields == {"given_name", "family_name", "address", "postcode"}

CanonicalField(f, t) ==
  IF f = "address" THEN canonicalise_address(t)
  ELSE IF f = "postcode" THEN canonicalise_postcode(t)
  ELSE canonicalise_name(t)

(***************************************************************************)
(* A canonical identity is its canonical fields.                           *)
(***************************************************************************)
LEMMA FieldSet ==
  ASSUME NEW h \in Identity, NEW f \in Fields, NEW t \in Text
  PROVE  LET g == [h EXCEPT ![f] = t]
         IN  /\ g \in Identity /\ g[f] = t
             /\ \A e \in Fields \ {f} : g[e] = h[e]
BY DEF Identity, Fields

LEMMA CanonicalIdentity ==
  ASSUME NEW h \in Identity
  PROVE  /\ DOMAIN h = Fields /\ \A f \in Fields : h[f] \in Text
         /\ canonicalise_identity(h) =
              [given_name |-> CanonicalField("given_name", h["given_name"]),
               family_name |-> CanonicalField("family_name", h["family_name"]),
               address |-> CanonicalField("address", h["address"]),
               postcode |-> CanonicalField("postcode", h["postcode"]),
               version |-> CANONICALISATION_VERSION]
<1>1. DOMAIN h = Fields /\ \A f \in Fields : h[f] \in Text
  BY DEF Identity, Fields
<1>2. /\ CanonicalField("given_name", h["given_name"]) = canonicalise_name(h.given_name)
      /\ CanonicalField("family_name", h["family_name"]) = canonicalise_name(h.family_name)
      /\ CanonicalField("address", h["address"]) = canonicalise_address(h.address)
      /\ CanonicalField("postcode", h["postcode"]) = canonicalise_postcode(h.postcode)
  BY DEF CanonicalField
<1> QED BY <1>1, <1>2 DEF canonicalise_identity, CanonicalisedAt

LEMMA SameIdentity ==
  ASSUME NEW h \in Identity, NEW f \in Fields, NEW t \in Text,
         CanonicalField(f, t) = CanonicalField(f, h[f])
  PROVE  canonicalise_identity([h EXCEPT ![f] = t]) = canonicalise_identity(h)
<1> DEFINE g == [h EXCEPT ![f] = t]
<1>1. g \in Identity /\ g[f] = t /\ \A e \in Fields \ {f} : g[e] = h[e]
  BY FieldSet
<1> HIDE DEF g
<1>2. \A e \in Fields : CanonicalField(e, g[e]) = CanonicalField(e, h[e])
  BY <1>1
<1>3. "given_name" \in Fields /\ "family_name" \in Fields /\ "address" \in Fields
      /\ "postcode" \in Fields
  BY DEF Fields
<1>4. canonicalise_identity(g) = canonicalise_identity(h)
  BY <1>1, <1>2, <1>3, CanonicalIdentity
<1> QED BY <1>4 DEF g

(***************************************************************************)
(* A name or an address whose folded words stay is the same to the program.*)
(***************************************************************************)
LEMMA SameWords ==
  ASSUME NEW f \in Fields, f # "postcode", NEW s, NEW t, Words(Folded(s)) = Words(Folded(t))
  PROVE  CanonicalField(f, s) = CanonicalField(f, t)
BY DEF CanonicalField, canonicalise_name, canonicalise_address, Fields

(***************************************************************************)
(* A character for one that looks like it.                                 *)
(***************************************************************************)
LEMMA Restyled ==
  ASSUME NEW f \in Fields, NEW s \in Seq(Chars), NEW i \in 1..Len(s), NEW c \in Chars,
         <<s[i], c>> \in lookalikes[f]
  PROVE  LET t == ReplaceAt(s, i, c)
         IN  /\ t \in Seq(Chars)
             /\ CanonicalField(f, t) = CanonicalField(f, s)
             /\ f = "postcode" /\ s \in Seq(PostcodeChars) => t \in Seq(PostcodeChars)
<1> DEFINE l == s[i]
           t == ReplaceAt(s, i, c)
           pair == <<l, c>>
<1>1. PICK u, v : CutAt(s, i, u, v, Chars)
  BY CutExists
<1>2. /\ u \in Seq(Chars) /\ v \in Seq(Chars) /\ l \in Chars
      /\ s = u \o <<l>> \o v /\ t = u \o <<c>> \o v
  BY <1>1 DEF CutAt
<1>3. pair[1] = l /\ pair[2] = c /\ pair \in lookalikes[f]
  OBVIOUS
<1>4. t \in Seq(Chars)
  BY ReplacedIs
<1>5. ASSUME s \in Seq(PostcodeChars), f = "postcode" PROVE t \in Seq(PostcodeChars)
  <2> HIDE DEF pair
  <2>1. pair \in lookalikes["postcode"]
    BY <1>3, <1>5
  <2>2. c \in PostcodeChars
    <3>1. pair[2] \in PostcodeChars
      BY <2>1 DEF PostcodeChars
    <3> QED BY <1>3, <3>1
  <2> QED BY <1>5, <2>2, ReplacedIs
<1> HIDE DEF l, t, pair
<1>6. CASE f = "postcode"
  <2>1. Bare(pair[1]) = Bare(pair[2])
    BY <1>3, <1>6, LookalikesAssumption
  <2>2. canonicalise_postcode(<<l>>) = canonicalise_postcode(<<c>>)
    BY <1>2, <1>3, <2>1, PostcodeIsBare
  <2>3. canonicalise_postcode(t) = canonicalise_postcode(s)
    BY <1>2, <2>2, LookalikePosts
  <2>4. CanonicalField(f, t) = CanonicalField(f, s)
    BY <1>6, <2>3 DEF CanonicalField
  <2> QED BY <1>4, <1>5, <2>4 DEF t
<1>7. CASE f # "postcode"
  <2>1. f \in {"given_name", "family_name", "address"}
    BY <1>7 DEF Fields
  <2>2. Plain(pair[1]) = Plain(pair[2])
    BY <1>3, <2>1, LookalikesAssumption
  <2>3. Folded(<<l>>) = Folded(<<c>>)
    BY <1>2, <1>3, <2>2, FoldedIsPlain
  <2>4. Folded(t) = Folded(s)
    BY <1>2, <2>3, LookalikeFolds
  <2>5. CanonicalField(f, t) = CanonicalField(f, s)
    BY <1>7, <2>4, SameWords
  <2> QED BY <1>4, <1>5, <2>5 DEF t
<1> QED BY <1>6, <1>7

(***************************************************************************)
(* An apostrophe more, or a space where it only widens another gap.        *)
(***************************************************************************)
LEMMA Apostrophised ==
  ASSUME NEW f \in Fields, NEW s \in Seq(Chars), NEW i \in 1..Len(s), NEW c \in Marks
  PROVE  LET t == InsertAt(s, i, c)
         IN  /\ t \in Seq(Chars)
             /\ CanonicalField(f, t) = CanonicalField(f, s)
             /\ f = "postcode" /\ s \in Seq(PostcodeChars) => t \in Seq(PostcodeChars)
<1> DEFINE l == s[i]
           t == InsertAt(s, i, c)
<1>0. c \in Chars /\ c \in PostcodeChars /\ i \in 1..Len(s) + 1
  <2>1. c \in Chars /\ c \in PostcodeChars
    BY OriginalsAssumption DEF PostcodeChars
  <2> QED BY <2>1
<1>1. PICK u, v : CutAt(s, i, u, v, Chars)
  BY CutExists
<1>2. /\ u \in Seq(Chars) /\ v \in Seq(Chars) /\ l \in Chars
      /\ s = u \o <<l>> \o v /\ t = u \o <<c, l>> \o v
  BY <1>0, <1>1 DEF CutAt
<1>3. t \in Seq(Chars)
  BY <1>0, InsertedIs
<1>4. ASSUME s \in Seq(PostcodeChars) PROVE t \in Seq(PostcodeChars)
  BY <1>0, <1>4, InsertedIs
<1> HIDE DEF l, t
<1>5. CASE f = "postcode"
  <2>1. canonicalise_postcode(<<c>>) = <<>>
    BY BlanksVanish
  <2>2. canonicalise_postcode(t) = canonicalise_postcode(s)
    BY <1>0, <1>2, <2>1, MarkPosts
  <2>3. CanonicalField(f, t) = CanonicalField(f, s)
    BY <1>5, <2>2 DEF CanonicalField
  <2> QED BY <1>3, <1>4, <2>3 DEF t
<1>6. CASE f # "postcode"
  <2>1. Folded(<<c>>) = <<>>
    BY FoldingLaws
  <2>2. Folded(t) = Folded(s)
    BY <1>0, <1>2, <2>1, MarkFolds
  <2>3. CanonicalField(f, t) = CanonicalField(f, s)
    BY <1>6, <2>2, SameWords
  <2> QED BY <1>3, <1>4, <2>3 DEF t
<1> QED BY <1>5, <1>6

LEMMA SpacedOut ==
  ASSUME NEW f \in Fields, NEW s \in Seq(Chars), NEW i \in 1..Len(s),
         f = "postcode" \/ i = 1 \/ s[i] \in Spaces
  PROVE  LET t == InsertAt(s, i, Space)
         IN  /\ t \in Seq(Chars)
             /\ CanonicalField(f, t) = CanonicalField(f, s)
             /\ f = "postcode" /\ s \in Seq(PostcodeChars) => t \in Seq(PostcodeChars)
<1> DEFINE l == s[i]
           t == InsertAt(s, i, Space)
<1>0. Space \in Chars /\ Space \in PostcodeChars /\ i \in 1..Len(s) + 1
  <2>1. Space \in Chars /\ Space \in PostcodeChars
    BY CharsAssumption DEF PostcodeChars
  <2> QED BY <2>1
<1>1. PICK u, v : CutAt(s, i, u, v, Chars)
  BY CutExists
<1>2. /\ u \in Seq(Chars) /\ v \in Seq(Chars) /\ l \in Chars /\ Len(u) = i - 1
      /\ s = u \o <<l>> \o v /\ t = u \o <<Space, l>> \o v
  BY <1>0, <1>1 DEF CutAt
<1>3. t \in Seq(Chars)
  BY <1>0, InsertedIs
<1>4. ASSUME s \in Seq(PostcodeChars) PROVE t \in Seq(PostcodeChars)
  BY <1>0, <1>4, InsertedIs
<1>5. f = "postcode" \/ u = <<>> \/ l \in Spaces
  <2>1. i = 1 => u = <<>>
    BY <1>2
  <2> QED BY <2>1
<1> HIDE DEF l, t
<1>6. CASE f = "postcode"
  <2>1. canonicalise_postcode(<<Space>>) = <<>>
    BY BlanksVanish
  <2>2. canonicalise_postcode(t) = canonicalise_postcode(s)
    BY <1>0, <1>2, <2>1, MarkPosts
  <2>3. CanonicalField(f, t) = CanonicalField(f, s)
    BY <1>6, <2>2 DEF CanonicalField
  <2> QED BY <1>3, <1>4, <2>3 DEF t
<1>7. CASE f # "postcode"
  <2>1. Words(Folded(t)) = Words(Folded(s))
    BY <1>2, <1>5, <1>7, SpaceFolds
  <2>2. CanonicalField(f, t) = CanonicalField(f, s)
    BY <1>7, <2>1, SameWords
  <2> QED BY <1>3, <1>4, <2>2 DEF t
<1> QED BY <1>6, <1>7

(***************************************************************************)
(* The address with its first word at the end, or as the table abbreviates *)
(* it: the tokens are the same but for their order, which sorting removes. *)
(***************************************************************************)
LEMMA Rephrased ==
  ASSUME NEW t \in Seq(Chars), Words(t) # <<>>,
         NEW w \in {Words(t)[1]} \cup {v \in DOMAIN substitutions : substitutions[v] = Words(t)[1]}
  PROVE  LET r == Joined(Tail(Words(t)) \o <<w>>)
         IN  r \in Seq(Chars) /\ CanonicalField("address", r) = CanonicalField("address", t)
<1> DEFINE r == Joined(Tail(Words(t)) \o <<w>>)
<1>1. \/ w = Words(t)[1]
      \/ w \in DOMAIN substitutions /\ substitutions[w] = Words(t)[1]
  OBVIOUS
<1>2. /\ r \in Seq(Chars)
      /\ \E x \in Seq(Word), y \in Seq(Word) :
           AddressTokens(t) = x \o y /\ AddressTokens(r) = y \o x
  BY <1>1, RephrasedTokens
<1> HIDE DEF r
<1>3. PICK x \in Seq(Word), y \in Seq(Word) :
        AddressTokens(t) = x \o y /\ AddressTokens(r) = y \o x
  BY <1>2
<1>4. x \in Seq(Text) /\ y \in Seq(Text)
  BY WordIsText DEF Text
<1>5. Sorted(AddressTokens(t)) = Sorted(AddressTokens(r))
  BY <1>3, <1>4, SortedSwap
<1>6. canonicalise_address(t) = canonicalise_address(r)
  BY <1>2, <1>5, AddressIs
<1>7. CanonicalField("address", r) = CanonicalField("address", t)
  BY <1>6 DEF CanonicalField
<1> QED BY <1>2, <1>7 DEF r

-----------------------------------------------------------------------------
(* The clerk's steps.                                                      *)

IsCopy == original \in Originals /\ held \in Identity /\ typos \in Nat

\* Steps bring only characters into a postcode of which PostcodeAssumption speaks.
KnownPostcode == held.postcode \in Seq(PostcodeChars)

ErrorsCounted == edit_distance(Owner.family_name, Copy.family_name) <= typos

CopyInv ==
  IsCopy /\ KnownPostcode /\ ErrorsCounted /\ FormattingFoldsAway /\ BandSurvives

(***************************************************************************)
(* A reformatting leaves the canonical identity as it was.                 *)
(***************************************************************************)
LEMMA ReformatStep ==
  ASSUME IsCopy, KnownPostcode, Reformat
  PROVE  held' \in Identity /\ KnownPostcode' /\ Copy' = Copy
<1> USE DEF IsCopy
<1>1. DOMAIN held = Fields /\ \A f \in Fields : held[f] \in Seq(Chars)
  BY CanonicalIdentity DEF Text
<1>2. ASSUME NEW f \in Fields, NEW t \in Seq(Chars), held' = [held EXCEPT ![f] = t],
             CanonicalField(f, t) = CanonicalField(f, held[f]),
             f = "postcode" /\ held[f] \in Seq(PostcodeChars) => t \in Seq(PostcodeChars)
      PROVE  held' \in Identity /\ KnownPostcode' /\ Copy' = Copy
  <2>1. t \in Text
    BY DEF Text
  <2>2. held' \in Identity /\ held'[f] = t /\ \A e \in Fields \ {f} : held'[e] = held[e]
    <3> DEFINE g == [held EXCEPT ![f] = t]
    <3>1. g \in Identity /\ g[f] = t /\ \A e \in Fields \ {f} : g[e] = held[e]
      BY <2>1, FieldSet
    <3> HIDE DEF g
    <3>2. held' = g
      BY <1>2 DEF g
    <3> QED BY <3>1, <3>2
  <2>3. Copy' = Copy
    BY <1>2, <2>1, SameIdentity DEF Copy
  <2>4. held'["postcode"] \in Seq(PostcodeChars)
    <3>1. held["postcode"] \in Seq(PostcodeChars) /\ "postcode" \in Fields
      BY DEF KnownPostcode, Fields
    <3> QED BY <1>2, <2>2, <3>1
  <2> QED BY <2>2, <2>3, <2>4 DEF KnownPostcode
<1>3. CASE \E f \in DOMAIN held : \E i \in DOMAIN held[f] :
             \/ \E c \in Chars : Restyle(f, i, c)
             \/ \E c \in Marks : Apostrophise(f, i, c)
             \/ SpaceOut(f, i)
  <2>0. PICK f \in Fields : \E i \in DOMAIN held[f] :
             \/ \E c \in Chars : Restyle(f, i, c)
             \/ \E c \in Marks : Apostrophise(f, i, c)
             \/ SpaceOut(f, i)
    BY <1>1, <1>3
  <2>1. PICK i \in DOMAIN held[f] :
             \/ \E c \in Chars : Restyle(f, i, c)
             \/ \E c \in Marks : Apostrophise(f, i, c)
             \/ SpaceOut(f, i)
    BY <2>0
  <2> DEFINE s == held[f]
  <2>2. s \in Seq(Chars) /\ i \in 1..Len(s)
    BY <1>1
  <2>3. CASE \E c \in Chars : Restyle(f, i, c)
    <3>1. PICK c \in Chars : <<s[i], c>> \in lookalikes[f]
                             /\ held' = [held EXCEPT ![f] = ReplaceAt(s, i, c)]
      BY <2>3 DEF Restyle
    <3> HIDE DEF s
    <3>2. /\ ReplaceAt(s, i, c) \in Seq(Chars)
          /\ CanonicalField(f, ReplaceAt(s, i, c)) = CanonicalField(f, s)
          /\ f = "postcode" /\ s \in Seq(PostcodeChars) => ReplaceAt(s, i, c) \in Seq(PostcodeChars)
      BY <2>2, <3>1, Restyled
    <3> QED BY <1>2, <3>1, <3>2 DEF s
  <2>4. CASE \E c \in Marks : Apostrophise(f, i, c)
    <3>1. PICK c \in Marks : held' = [held EXCEPT ![f] = InsertAt(s, i, c)]
      BY <2>4 DEF Apostrophise
    <3> HIDE DEF s
    <3>2. /\ InsertAt(s, i, c) \in Seq(Chars)
          /\ CanonicalField(f, InsertAt(s, i, c)) = CanonicalField(f, s)
          /\ f = "postcode" /\ s \in Seq(PostcodeChars) => InsertAt(s, i, c) \in Seq(PostcodeChars)
      BY <2>2, Apostrophised
    <3> QED BY <1>2, <3>1, <3>2 DEF s
  <2>5. CASE SpaceOut(f, i)
    <3>1. /\ f = "postcode" \/ i = 1 \/ s[i] \in Spaces
          /\ held' = [held EXCEPT ![f] = InsertAt(s, i, Space)]
      BY <2>5 DEF SpaceOut
    <3> HIDE DEF s
    <3>2. /\ InsertAt(s, i, Space) \in Seq(Chars)
          /\ CanonicalField(f, InsertAt(s, i, Space)) = CanonicalField(f, s)
          /\ f = "postcode" /\ s \in Seq(PostcodeChars) => InsertAt(s, i, Space) \in Seq(PostcodeChars)
      BY <2>2, <3>1, SpacedOut
    <3> QED BY <1>2, <3>1, <3>2 DEF s
  <2> QED BY <2>1, <2>3, <2>4, <2>5
<1>4. CASE Rephrase
  <2> DEFINE f == "address"
             s == held[f]
             ws == Words(s)
  <2>1. f \in Fields /\ s = held.address
    BY DEF Fields
  <2>2. s \in Seq(Chars)
    BY <1>1, <2>1
  <2>3. ws # <<>> /\ \E w \in {ws[1]} \cup {v \in DOMAIN substitutions : substitutions[v] = ws[1]} :
               held' = [held EXCEPT ![f] = Joined(Tail(ws) \o <<w>>)]
    BY <1>4, <2>1 DEF Rephrase
  <2>4. PICK w \in {ws[1]} \cup {v \in DOMAIN substitutions : substitutions[v] = ws[1]} :
               held' = [held EXCEPT ![f] = Joined(Tail(ws) \o <<w>>)]
    BY <2>3
  <2> DEFINE r == Joined(Tail(ws) \o <<w>>)
  <2>5. r \in Seq(Chars) /\ CanonicalField(f, r) = CanonicalField(f, s)
    <3> HIDE DEF s
    <3> QED BY <2>2, <2>3, <2>4, Rephrased
  <2>6. f # "postcode" /\ held' = [held EXCEPT ![f] = r]
    BY <2>4
  <2> HIDE DEF r, f, ws
  <2> QED BY <1>2, <2>1, <2>5, <2>6
<1> QED BY <1>3, <1>4 DEF Reformat

(***************************************************************************)
(* What a new family name, or a new address, does to the canonical identity*)
(***************************************************************************)
LEMMA NewFamilyName ==
  ASSUME NEW h \in Identity, NEW t \in Seq(Chars)
  PROVE  LET g == [h EXCEPT !.family_name = t]
         IN  /\ g \in Identity /\ g.postcode = h.postcode
             /\ canonicalise_identity(g).family_name = canonicalise_name(t)
             /\ canonicalise_identity(g).postcode = canonicalise_identity(h).postcode
             /\ canonicalise_identity(g).version = canonicalise_identity(h).version
<1> DEFINE g == [h EXCEPT !.family_name = t]
<1>1. g \in Identity /\ g.postcode = h.postcode /\ g.family_name = t
  BY DEF Identity, Text
<1> HIDE DEF g
<1>2. /\ canonicalise_identity(g).family_name = canonicalise_name(t)
      /\ canonicalise_identity(g).postcode = canonicalise_identity(h).postcode
      /\ canonicalise_identity(g).version = canonicalise_identity(h).version
  BY <1>1 DEF canonicalise_identity, CanonicalisedAt
<1> QED BY <1>1, <1>2 DEF g

LEMMA NewAddress ==
  ASSUME NEW h \in Identity, NEW t \in Seq(Chars)
  PROVE  LET g == [h EXCEPT !.address = t]
         IN  /\ g \in Identity /\ g.postcode = h.postcode
             /\ canonicalise_identity(g).family_name = canonicalise_identity(h).family_name
             /\ canonicalise_identity(g).postcode = canonicalise_identity(h).postcode
             /\ canonicalise_identity(g).version = canonicalise_identity(h).version
<1> DEFINE g == [h EXCEPT !.address = t]
<1>1. g \in Identity /\ g.postcode = h.postcode /\ g.family_name = h.family_name
  BY DEF Identity, Text
<1> HIDE DEF g
<1>2. /\ canonicalise_identity(g).family_name = canonicalise_identity(h).family_name
      /\ canonicalise_identity(g).postcode = canonicalise_identity(h).postcode
      /\ canonicalise_identity(g).version = canonicalise_identity(h).version
  BY <1>1 DEF canonicalise_identity, CanonicalisedAt
<1> QED BY <1>1, <1>2 DEF g

LEMMA IdentityTexts ==
  ASSUME NEW h \in Identity
  PROVE  /\ h.family_name \in Seq(Chars) /\ h.address \in Seq(Chars) /\ h.postcode \in Seq(Chars)
         /\ canonicalise_identity(h).family_name = canonicalise_name(h.family_name)
         /\ canonicalise_identity(h).family_name \in Seq(Chars)
<1>1. h.family_name \in Seq(Chars) /\ h.address \in Seq(Chars) /\ h.postcode \in Seq(Chars)
  BY DEF Identity, Text
<1>2. canonicalise_identity(h).family_name = canonicalise_name(h.family_name)
  BY DEF canonicalise_identity, CanonicalisedAt
<1> QED BY <1>1, <1>2, NameIs

(***************************************************************************)
(* A wrong, extra or missing letter adds at most one to the distance.      *)
(***************************************************************************)
LEMMA MistypeStep ==
  ASSUME IsCopy, Mistype
  PROVE  /\ held' \in Identity /\ held'.postcode = held.postcode
         /\ \A a \in Seq(Chars) :
              edit_distance(a, Copy'.family_name) <= edit_distance(a, Copy.family_name) + 1
<1> USE DEF IsCopy
<1> DEFINE t == held.family_name
<1>1. t \in Seq(Chars) /\ Copy.family_name = canonicalise_name(t)
  BY IdentityTexts DEF Copy
<1>2. ASSUME NEW s \in Seq(Chars), held' = [held EXCEPT !.family_name = s],
             \A a \in Seq(Chars) :
               edit_distance(a, canonicalise_name(s)) <= edit_distance(a, canonicalise_name(t)) + 1
      PROVE  /\ held' \in Identity /\ held'.postcode = held.postcode
             /\ \A a \in Seq(Chars) :
                  edit_distance(a, Copy'.family_name) <= edit_distance(a, Copy.family_name) + 1
  <2> DEFINE g == [held EXCEPT !.family_name = s]
  <2>1. /\ g \in Identity /\ g.postcode = held.postcode
        /\ canonicalise_identity(g).family_name = canonicalise_name(s)
    BY NewFamilyName
  <2>2. held' = g
    BY <1>2
  <2> HIDE DEF g
  <2>3. Copy'.family_name = canonicalise_name(s)
    BY <2>1, <2>2 DEF Copy
  <2> QED BY <1>1, <1>2, <2>1, <2>2, <2>3
<1>3. PICK i \in 1..Len(t) :
        /\ t[i] \in Letters
        /\ \/ \E c \in Letters :
                \/ held' = [held EXCEPT !.family_name = ReplaceAt(t, i, c)]
                \/ held' = [held EXCEPT !.family_name = InsertAt(t, i, c)]
           \/ /\ i + 1 \in 1..Len(t) /\ t[i + 1] \in Letters
              /\ held' = [held EXCEPT !.family_name = RemoveAt(t, i)]
  <2>1. DOMAIN held.family_name = 1..Len(t)
    BY <1>1
  <2> QED BY <2>1 DEF Mistype, IsLetter
<1> HIDE DEF t
<1>4. i \in 1..Len(t) + 1
  BY <1>1
<1>5. \A c \in Letters : c \in Chars
  BY LetterFolds
<1>6. CASE \E c \in Letters : held' = [held EXCEPT !.family_name = ReplaceAt(t, i, c)]
  <2>1. PICK c \in Letters : held' = [held EXCEPT !.family_name = ReplaceAt(t, i, c)]
    BY <1>6
  <2> DEFINE s == ReplaceAt(t, i, c)
  <2>2. s \in Seq(Chars)
    BY <1>1, <1>5, ReplacedIs
  <2>3. \A a \in Seq(Chars) :
          edit_distance(a, canonicalise_name(s)) <= edit_distance(a, canonicalise_name(t)) + 1
    BY <1>1, <1>3, WrongLetter
  <2>4. held' = [held EXCEPT !.family_name = s]
    BY <2>1
  <2> HIDE DEF s
  <2> QED BY <1>2, <2>2, <2>3, <2>4
<1>7. CASE \E c \in Letters : held' = [held EXCEPT !.family_name = InsertAt(t, i, c)]
  <2>1. PICK c \in Letters : held' = [held EXCEPT !.family_name = InsertAt(t, i, c)]
    BY <1>7
  <2> DEFINE s == InsertAt(t, i, c)
  <2>2. s \in Seq(Chars)
    BY <1>1, <1>4, <1>5, InsertedIs
  <2>3. \A a \in Seq(Chars) :
          edit_distance(a, canonicalise_name(s)) <= edit_distance(a, canonicalise_name(t)) + 1
    BY <1>1, <1>3, ExtraLetter
  <2>4. held' = [held EXCEPT !.family_name = s]
    BY <2>1
  <2> HIDE DEF s
  <2> QED BY <1>2, <2>2, <2>3, <2>4
<1>8. CASE /\ i + 1 \in 1..Len(t) /\ t[i + 1] \in Letters
           /\ held' = [held EXCEPT !.family_name = RemoveAt(t, i)]
  <2> DEFINE s == RemoveAt(t, i)
  <2>2. s \in Seq(Chars)
    BY <1>1, RemovedIs
  <2>3. \A a \in Seq(Chars) :
          edit_distance(a, canonicalise_name(s)) <= edit_distance(a, canonicalise_name(t)) + 1
    BY <1>1, <1>3, <1>8, MissingLetter
  <2>4. held' = [held EXCEPT !.family_name = s]
    BY <1>8
  <2> HIDE DEF s
  <2> QED BY <1>2, <2>2, <2>3, <2>4
<1> QED BY <1>3, <1>6, <1>7, <1>8

(***************************************************************************)
(* Two letters that change places are two wrong ones; the first letter and *)
(* the length of the name stay.                                            *)
(***************************************************************************)
LEMMA TransposeStep ==
  ASSUME IsCopy, Transpose
  PROVE  /\ held' \in Identity /\ held'.postcode = held.postcode
         /\ coarse_features(Copy') = coarse_features(Copy)
         /\ \A a \in Seq(Chars) :
              edit_distance(a, Copy'.family_name) <= edit_distance(a, Copy.family_name) + 2
<1> USE DEF IsCopy
<1> DEFINE t == held.family_name
<1>1. t \in Seq(Chars) /\ Copy.family_name = canonicalise_name(t)
  BY IdentityTexts DEF Copy
<1>2. PICK i \in 1..Len(t) :
        /\ i > 1 /\ t[i - 1] \in Letters /\ t[i] \in Letters
        /\ i + 1 \in 1..Len(t) /\ t[i + 1] \in Letters
        /\ held' = [held EXCEPT !.family_name = ReplaceAt(ReplaceAt(t, i, t[i + 1]), i + 1, t[i])]
  <2>1. DOMAIN held.family_name = 1..Len(t)
    BY <1>1
  <2> QED BY <2>1 DEF Transpose, IsLetter
<1> DEFINE c == t[i]
           d == t[i + 1]
           k == i + 1
           s == ReplaceAt(t, i, d)
           r == ReplaceAt(s, k, c)
<1> HIDE DEF t
<1>3. c \in Letters /\ d \in Letters /\ c \in Chars /\ d \in Chars
  BY <1>2, LetterFolds
<1>4. s \in Seq(Chars) /\ IsReplacement(t, s, i) /\ s[i] = d
  <2> HIDE DEF d
  <2> QED BY <1>1, <1>3, ReplacedIs
<1> HIDE DEF s
<1>5. k \in 1..Len(s) /\ s[k] \in Letters /\ k > 1 /\ k - 1 = i
  <2>1. Len(s) = Len(t) /\ \A j \in 1..Len(t) : j # i => t[j] = s[j]
    BY <1>4 DEF IsReplacement
  <2>2. i + 1 # i /\ i + 1 > 1 /\ (i + 1) - 1 = i
    BY <1>1
  <2> QED BY <1>2, <2>1, <2>2
<1>6. r \in Seq(Chars)
  <2> HIDE DEF c, k
  <2> QED BY <1>3, <1>4, <1>5, ReplacedIs
<1> DEFINE T == canonicalise_name(t)
           S == canonicalise_name(s)
           R == canonicalise_name(r)
<1>7. /\ T \in Seq(Chars) /\ S \in Seq(Chars) /\ Len(S) = Len(T)
      /\ \A a \in Seq(Chars) : edit_distance(a, S) <= edit_distance(a, T) + 1
  <2>1. t[i] \in Letters
    BY <1>2
  <2> HIDE DEF d
  <2> QED BY <1>1, <1>3, <2>1, WrongLetter DEF s
<1>8. SubSeq(S, 1, 1) = SubSeq(T, 1, 1)
  <2>1. t[i] \in Letters /\ t[i - 1] \in Letters /\ i > 1
    BY <1>2
  <2> HIDE DEF d
  <2> QED BY <1>1, <1>3, <2>1, WrongLetterBehind DEF s
<1>9. /\ R \in Seq(Chars) /\ Len(R) = Len(S)
      /\ \A a \in Seq(Chars) : edit_distance(a, R) <= edit_distance(a, S) + 1
  <2> HIDE DEF c, k
  <2> QED BY <1>3, <1>4, <1>5, WrongLetter
<1>10. SubSeq(R, 1, 1) = SubSeq(S, 1, 1)
  <2>1. s[k - 1] \in Letters
    BY <1>3, <1>4, <1>5
  <2> HIDE DEF c, k
  <2> QED BY <1>3, <1>4, <1>5, <2>1, WrongLetterBehind
<1> DEFINE g == [held EXCEPT !.family_name = r]
<1>11. /\ g \in Identity /\ g.postcode = held.postcode
       /\ canonicalise_identity(g).family_name = R
       /\ canonicalise_identity(g).postcode = canonicalise_identity(held).postcode
       /\ canonicalise_identity(g).version = canonicalise_identity(held).version
  <2> HIDE DEF r
  <2> QED BY <1>6, NewFamilyName
<1>12. held' = g
  BY <1>2 DEF s
<1> HIDE DEF g, r, R, S, T
<1>13. Copy' = canonicalise_identity(g) /\ Copy = canonicalise_identity(held)
  BY <1>12 DEF Copy
<1>14. coarse_features(Copy') = coarse_features(Copy)
  <2>1. SubSeq(R, 1, 1) = SubSeq(T, 1, 1) /\ Len(R) = Len(T)
    BY <1>7, <1>8, <1>9, <1>10
  <2>2. Copy'.family_name = R /\ Copy.family_name = T
    BY <1>1, <1>11, <1>13 DEF T
  <2>3. Copy'.postcode = Copy.postcode /\ Copy'.version = Copy.version
    BY <1>11, <1>13
  <2> QED BY <2>1, <2>2, <2>3 DEF coarse_features
<1>15. ASSUME NEW a \in Seq(Chars)
       PROVE  edit_distance(a, Copy'.family_name) <= edit_distance(a, Copy.family_name) + 2
  <2> DEFINE x == edit_distance(a, T)
             y == edit_distance(a, S)
             z == edit_distance(a, R)
  <2>1. z <= y + 1 /\ y <= x + 1
    BY <1>7, <1>9
  <2>2. x \in Nat /\ y \in Nat /\ z \in Nat
    BY <1>7, <1>9, DistanceBounded
  <2> HIDE DEF x, y, z
  <2>3. z <= x + 2
    BY <2>1, <2>2
  <2> QED BY <1>1, <1>11, <1>13, <2>3 DEF x, z, T
<1> QED BY <1>11, <1>12, <1>14, <1>15

(***************************************************************************)
(* A wrong number in the address touches none of the coarse features.      *)
(***************************************************************************)
LEMMA RenumberStep ==
  ASSUME IsCopy, Renumber
  PROVE  /\ held' \in Identity /\ held'.postcode = held.postcode
         /\ coarse_features(Copy') = coarse_features(Copy)
         /\ Copy'.family_name = Copy.family_name
<1> USE DEF IsCopy
<1>1. PICK i \in DOMAIN held.address, c \in Digits :
        held' = [held EXCEPT !.address = ReplaceAt(held.address, i, c)]
  BY DEF Renumber
<1> DEFINE t == held.address
           r == ReplaceAt(t, i, c)
           g == [held EXCEPT !.address = r]
<1>2. t \in Seq(Chars) /\ i \in 1..Len(t) /\ c \in Chars
  <2>1. t \in Seq(Chars)
    BY IdentityTexts
  <2>2. c \in Chars
    BY CharsAssumption
  <2> QED BY <2>1, <2>2
<1>3. r \in Seq(Chars)
  <2> HIDE DEF t
  <2> QED BY <1>2, ReplacedIs
<1>4. /\ g \in Identity /\ g.postcode = held.postcode
      /\ canonicalise_identity(g).family_name = canonicalise_identity(held).family_name
      /\ canonicalise_identity(g).postcode = canonicalise_identity(held).postcode
      /\ canonicalise_identity(g).version = canonicalise_identity(held).version
  <2> HIDE DEF r
  <2> QED BY <1>3, NewAddress
<1>5. held' = g
  BY <1>1
<1> HIDE DEF g
<1> QED BY <1>4, <1>5 DEF Copy, coarse_features

-----------------------------------------------------------------------------
(* What holds of every copy.                                               *)

LEMMA CopyInit ==
  Filed => CopyInv
<1> SUFFICES ASSUME Filed PROVE CopyInv
  OBVIOUS
<1>1. original \in Originals /\ held = original /\ typos = 0 /\ last = "copy"
  BY DEF Filed
<1>2. held \in Identity
  BY <1>1, OriginalsAssumption
<1>3. KnownPostcode
  <2>1. held.postcode \in Seq(Chars)
    BY <1>2, IdentityTexts
  <2> DEFINE s == held.postcode
  <2>2. ASSUME NEW i \in 1..Len(s) PROVE s[i] \in PostcodeChars
    <3>1. s[i] \in ToSet(s)
      BY <2>1 DEF ToSet
    <3>2. ToSet(s) \in {ToSet(o.postcode) : o \in Originals}
      BY <1>1
    <3> HIDE DEF s
    <3> QED BY <3>1, <3>2 DEF PostcodeChars
  <2> HIDE DEF s
  <2>3. s \in Seq(PostcodeChars)
    BY <2>1, <2>2, Retyped DEF s
  <2> QED BY <2>3 DEF KnownPostcode, s
<1>4. ErrorsCounted
  <2>1. Owner.family_name = Copy.family_name /\ Copy.family_name \in Seq(Chars)
    BY <1>1, <1>2, IdentityTexts DEF Owner, Copy
  <2> DEFINE a == Copy.family_name
  <2> HIDE DEF a
  <2>2. a \in Seq(Chars)
    BY <2>1 DEF a
  <2>3. edit_distance(a, a) = 0
    BY <2>2, ZeroIsEqual
  <2>4. edit_distance(Owner.family_name, Copy.family_name) = edit_distance(a, a)
    BY <2>1 DEF a
  <2> QED BY <1>1, <2>3, <2>4 DEF ErrorsCounted
<1> QED BY <1>1, <1>2, <1>3, <1>4 DEF CopyInv, IsCopy, FormattingFoldsAway, BandSurvives

LEMMA CopyStep ==
  CopyInv /\ [Copied]_clerk => CopyInv'
<1> SUFFICES ASSUME CopyInv, [Copied]_clerk PROVE CopyInv'
  OBVIOUS
<1>1. IsCopy /\ KnownPostcode
  BY DEF CopyInv
<1> DEFINE a == Owner.family_name
           b == Copy.family_name
<1>2. /\ a \in Seq(Chars) /\ b \in Seq(Chars) /\ typos \in Nat
      /\ edit_distance(a, b) \in Nat /\ edit_distance(a, b) <= typos
  <2>1. original \in Identity /\ held \in Identity /\ typos \in Nat
    BY <1>1, OriginalsAssumption DEF IsCopy
  <2>2. a \in Seq(Chars) /\ b \in Seq(Chars)
    BY <2>1, IdentityTexts DEF Owner, Copy
  <2>3. edit_distance(a, b) <= typos
    BY DEF CopyInv, ErrorsCounted
  <2> HIDE DEF a, b
  <2>4. edit_distance(a, b) \in Nat
    BY <2>2, DistanceBounded
  <2> QED BY <2>1, <2>2, <2>3, <2>4
<1>3. ASSUME NEW what, Step(what)
      PROVE  /\ original' = original /\ last' = what /\ before' = held
             /\ Owner' = Owner /\ CopyBefore' = Copy
  BY <1>3 DEF Step, Owner, Copy, CopyBefore
<1>4. CASE Reformat
  <2>1. Step("reformat") /\ typos' = typos
    BY <1>4 DEF Reformat
  <2>2. held' \in Identity /\ KnownPostcode' /\ Copy' = Copy
    BY <1>1, <1>4, ReformatStep
  <2>3. /\ original' = original /\ last' = "reformat" /\ Owner' = Owner /\ CopyBefore' = Copy
    BY <1>3, <2>1
  <2>4. IsCopy'
    BY <1>1, <2>1, <2>2, <2>3 DEF IsCopy
  <2>5. ErrorsCounted'
    BY <1>2, <2>1, <2>2, <2>3 DEF ErrorsCounted
  <2>6. FormattingFoldsAway' /\ BandSurvives'
    BY <2>2, <2>3 DEF FormattingFoldsAway, BandSurvives
  <2> QED BY <2>2, <2>4, <2>5, <2>6 DEF CopyInv
<1>5. CASE Mistype
  <2>1. Step("mistype") /\ typos' = typos + 1
    BY <1>5 DEF Mistype
  <2>2. /\ held' \in Identity /\ held'.postcode = held.postcode
        /\ \A x \in Seq(Chars) :
             edit_distance(x, Copy'.family_name) <= edit_distance(x, Copy.family_name) + 1
    BY <1>1, <1>5, MistypeStep
  <2>3. /\ original' = original /\ last' = "mistype" /\ Owner' = Owner
    BY <1>3, <2>1
  <2>4. IsCopy' /\ KnownPostcode'
    BY <1>1, <1>2, <2>1, <2>2, <2>3 DEF IsCopy, KnownPostcode
  <2>5. edit_distance(a, Copy'.family_name) <= typos'
    <3> DEFINE m == edit_distance(a, Copy'.family_name)
               n == edit_distance(a, b)
    <3>1. m <= n + 1
      BY <1>2, <2>2
    <3>2. m \in Nat
      <4>1. Copy'.family_name \in Seq(Chars)
        BY <2>2, IdentityTexts DEF Copy
      <4> HIDE DEF a
      <4> QED BY <1>2, <4>1, DistanceBounded
    <3>3. n \in Nat /\ n <= typos /\ typos \in Nat /\ typos' = typos + 1
      BY <1>2, <2>1
    <3> HIDE DEF m, n
    <3>4. m <= typos + 1
      BY <3>1, <3>2, <3>3
    <3> QED BY <3>3, <3>4 DEF m
  <2>6. ErrorsCounted'
    BY <2>3, <2>5 DEF ErrorsCounted
  <2> QED BY <2>3, <2>4, <2>6 DEF CopyInv, FormattingFoldsAway, BandSurvives
<1>6. CASE Transpose
  <2>1. Step("transpose") /\ typos' = typos + 2
    BY <1>6 DEF Transpose
  <2>2. /\ held' \in Identity /\ held'.postcode = held.postcode
        /\ coarse_features(Copy') = coarse_features(Copy)
        /\ \A x \in Seq(Chars) :
             edit_distance(x, Copy'.family_name) <= edit_distance(x, Copy.family_name) + 2
    BY <1>1, <1>6, TransposeStep
  <2>3. /\ original' = original /\ last' = "transpose" /\ Owner' = Owner /\ CopyBefore' = Copy
    BY <1>3, <2>1
  <2>4. IsCopy' /\ KnownPostcode'
    BY <1>1, <1>2, <2>1, <2>2, <2>3 DEF IsCopy, KnownPostcode
  <2>5. edit_distance(a, Copy'.family_name) <= typos'
    <3> DEFINE m == edit_distance(a, Copy'.family_name)
               n == edit_distance(a, b)
    <3>1. m <= n + 2
      BY <1>2, <2>2
    <3>2. m \in Nat
      <4>1. Copy'.family_name \in Seq(Chars)
        BY <2>2, IdentityTexts DEF Copy
      <4> HIDE DEF a
      <4> QED BY <1>2, <4>1, DistanceBounded
    <3>3. n \in Nat /\ n <= typos /\ typos \in Nat /\ typos' = typos + 2
      BY <1>2, <2>1
    <3> HIDE DEF m, n
    <3>4. m <= typos + 2
      BY <3>1, <3>2, <3>3
    <3> QED BY <3>3, <3>4 DEF m
  <2>6. ErrorsCounted'
    BY <2>3, <2>5 DEF ErrorsCounted
  <2>7. FormattingFoldsAway' /\ BandSurvives'
    BY <2>2, <2>3 DEF FormattingFoldsAway, BandSurvives
  <2> QED BY <2>4, <2>6, <2>7 DEF CopyInv
<1>7. CASE Renumber
  <2>1. Step("renumber") /\ typos' = typos
    BY <1>7 DEF Renumber
  <2>2. /\ held' \in Identity /\ held'.postcode = held.postcode
        /\ coarse_features(Copy') = coarse_features(Copy)
        /\ Copy'.family_name = Copy.family_name
    BY <1>1, <1>7, RenumberStep
  <2>3. /\ original' = original /\ last' = "renumber" /\ Owner' = Owner /\ CopyBefore' = Copy
    BY <1>3, <2>1
  <2>4. IsCopy' /\ KnownPostcode'
    BY <1>1, <2>1, <2>2, <2>3 DEF IsCopy, KnownPostcode
  <2>5. ErrorsCounted'
    BY <1>2, <2>1, <2>2, <2>3 DEF ErrorsCounted
  <2>6. FormattingFoldsAway' /\ BandSurvives'
    BY <2>2, <2>3 DEF FormattingFoldsAway, BandSurvives
  <2> QED BY <2>4, <2>5, <2>6 DEF CopyInv
<1>8. CASE UNCHANGED clerk
  BY <1>8 DEF clerk, CopyInv, IsCopy, KnownPostcode, ErrorsCounted, FormattingFoldsAway,
              BandSurvives, Owner, Copy, CopyBefore
<1> QED BY <1>4, <1>5, <1>6, <1>7, <1>8 DEF Copied

(***************************************************************************)
(* What the invariant says of a copy: its distance from the owner's name   *)
(* is the least number of errors, and its canonical form is final.         *)
(***************************************************************************)
LEMMA CopyDistance ==
  CopyInv => DistanceIsLeast
<1> SUFFICES ASSUME CopyInv PROVE DistanceIsLeast
  OBVIOUS
<1> DEFINE a == Owner.family_name
           b == Copy.family_name
           d == edit_distance(a, b)
           A == {c \in Chars : c \in ToSet(b) \cup ToSet(a)}
<1>1. a \in Seq(Chars) /\ b \in Seq(Chars)
  <2>1. original \in Identity /\ held \in Identity
    BY OriginalsAssumption DEF CopyInv, IsCopy
  <2> QED BY <2>1, IdentityTexts DEF Owner, Copy
<1>2. d <= typos
  BY DEF CopyInv, ErrorsCounted
<1>3. Neighbours(b) = OneError(b, A)
  <2>1. DOMAIN b = 1..Len(b)
    BY <1>1
  <2> QED BY <2>1 DEF Neighbours, OneError
<1> HIDE DEF a, b
<1>4. d = 0 <=> a = b
  BY <1>1, ZeroIsEqual
<1>5. a \in Seq(A) /\ b \in Seq(A)
  <2>1. ASSUME NEW x \in Seq(Chars), ToSet(x) \subseteq ToSet(b) \cup ToSet(a) PROVE x \in Seq(A)
    <3>1. ASSUME NEW i \in 1..Len(x) PROVE x[i] \in A
      <4>1. x[i] \in Chars /\ x[i] \in ToSet(x)
        BY DEF ToSet
      <4> QED BY <2>1, <4>1
    <3> HIDE DEF A
    <3> QED BY <3>1, Retyped
  <2>2. ToSet(a) \subseteq ToSet(b) \cup ToSet(a) /\ ToSet(b) \subseteq ToSet(b) \cup ToSet(a)
    OBVIOUS
  <2> HIDE DEF A
  <2> QED BY <1>1, <2>1, <2>2
<1>6. d > 0 => \E c \in OneError(b, A) : edit_distance(a, c) = d - 1
  <2> HIDE DEF A
  <2> QED BY <1>5, Closer
<1> HIDE DEF d
<1>7. d > 0 => \E c \in Neighbours(b) : edit_distance(a, c) = d - 1
  BY <1>3, <1>6
<1> QED BY <1>2, <1>4, <1>7 DEF DistanceIsLeast, d, a, b

LEMMA CopyStable ==
  CopyInv => CanonicalIsStable
<1> SUFFICES ASSUME CopyInv PROVE CanonicalIsStable
  OBVIOUS
<1>1. held \in Identity /\ held.postcode \in Seq(PostcodeChars)
  BY DEF CopyInv, IsCopy, KnownPostcode
<1>2. held.family_name \in Seq(Chars) /\ held.address \in Seq(Chars) /\ held.postcode \in Seq(Chars)
  BY <1>1, IdentityTexts
<1>3. /\ Copy.family_name = canonicalise_name(held.family_name)
      /\ Copy.address = canonicalise_address(held.address)
      /\ Copy.postcode = canonicalise_postcode(held.postcode)
  BY DEF Copy, canonicalise_identity, CanonicalisedAt
<1> QED BY <1>1, <1>2, <1>3, NameStable, AddressStable, PostcodeStable DEF CanonicalIsStable

(***************************************************************************)
(* matching.py: no reformatting, after whatever was done to the copy       *)
(* before, changes the canonical identity.                                 *)
(***************************************************************************)
THEOREM FormattingFolds == Copying => []FormattingFoldsAway
<1>1. CopyInv => FormattingFoldsAway
  BY DEF CopyInv
<1> QED BY <1>1, CopyInit, CopyStep, PTL DEF Copying

(***************************************************************************)
(* matching.py: a second canonicalisation changes nothing, of whatever a   *)
(* clerk made of an identity.                                              *)
(***************************************************************************)
THEOREM CanonicalStays == Copying => []CanonicalIsStable
BY CopyInit, CopyStep, CopyStable, PTL DEF Copying

(***************************************************************************)
(* _edit_distance: however many errors a clerk makes, the distance of the  *)
(* copy is at most their number, and is the least number of errors that    *)
(* explains it.                                                            *)
(***************************************************************************)
THEOREM DistanceCountsErrors == Copying => []DistanceIsLeast
BY CopyInit, CopyStep, CopyDistance, PTL DEF Copying

(***************************************************************************)
(* coarse_features: neither two letters changing places inside the family  *)
(* name nor a wrong number in the address moves a record to another band.  *)
(***************************************************************************)
THEOREM BandStays == Copying => []BandSurvives
<1>1. CopyInv => BandSurvives
  BY DEF CopyInv
<1> QED BY <1>1, CopyInit, CopyStep, PTL DEF Copying

===============================================================================
