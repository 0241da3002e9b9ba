------------------------------- MODULE Counting -------------------------------
(***************************************************************************)
(* Facts about natural numbers and finite sets of them the proofs rest on. *)
(***************************************************************************)
EXTENDS FiniteSetTheorems, TLAPS

(***************************************************************************)
(* A set of natural numbers that is not empty has a least element: the     *)
(* first grant that matches, the first use that is not stale.              *)
(***************************************************************************)
LEMMA LeastNatural ==
  ASSUME NEW S \in SUBSET Nat, S # {}
  PROVE  \E n \in S : \A m \in S : n <= m
<1>1. PICK n \in S : \A m \in S : ~ (<<m, n>> \in OpToRel(<, Nat))
  BY NatLessThanWellFounded, WFMin
<1>2. \A m \in S : ~ (m < n)
  BY <1>1 DEF OpToRel
<1> QED BY <1>2, n \in Nat

(***************************************************************************)
(* Moving a set of places by m counts the same: dropping the first m uses  *)
(* of a queue renumbers the rest and loses none.                           *)
(***************************************************************************)
LEMMA ShiftedCount ==
  ASSUME NEW S \in SUBSET Nat, IsFiniteSet(S), NEW m \in Nat, NEW T,
         \A x \in S : x + m \in T,
         \A y \in T : \E x \in S : y = x + m
  PROVE  IsFiniteSet(T) /\ Cardinality(T) = Cardinality(S)
<1> DEFINE f == [x \in S |-> x + m]
<1>1. f \in Bijection(S, T)
  BY DEF Bijection, Injection, Surjection, IsInjective
<1> QED BY <1>1, FS_Bijection DEF ExistsBijection

(***************************************************************************)
(* A strictly increasing enumeration of a finite set by as many numbers as *)
(* it has elements reaches every element: rebuilding a list from the       *)
(* places that remain loses none of them.                                  *)
(***************************************************************************)
LEMMA IncreasingIsOnto ==
  ASSUME NEW S \in SUBSET Nat, IsFiniteSet(S),
         NEW f \in [1..Cardinality(S) -> S],
         \A i, j \in 1..Cardinality(S) : i < j => f[i] < f[j]
  PROVE  \A y \in S : \E i \in 1..Cardinality(S) : f[i] = y
<1> DEFINE n == Cardinality(S)
<1>1. n \in Nat
  BY FS_CardinalityType
<1>2. f \in Injection(1..n, S)
  <2>1. ASSUME NEW i \in 1..n, NEW j \in 1..n, f[i] = f[j]
        PROVE  i = j
    <3>1. f[i] \in Nat /\ f[j] \in Nat /\ i \in Nat /\ j \in Nat
      <4>1. f[i] \in S /\ f[j] \in S
        OBVIOUS
      <4>2. i \in Nat /\ j \in Nat
        BY <1>1
      <4> QED BY <4>1, <4>2
    <3>2. ~ (i < j) /\ ~ (j < i)
      BY <2>1, <3>1
    <3> QED BY <3>1, <3>2
  <2> QED BY <2>1 DEF Injection, IsInjective
<1>3. IsFiniteSet(1..n) /\ Cardinality(1..n) = n
  BY <1>1, FS_Interval
<1>4. f \in Surjection(1..n, S)
  BY <1>2, <1>3, FS_Injection
<1> QED BY <1>4 DEF Surjection

(***************************************************************************)
(* The last L elements of a set of numbers, after a larger one is added,   *)
(* are all but the first of the last L + 1.                                *)
(***************************************************************************)
LEMMA LastOfLarger ==
  ASSUME NEW S \in SUBSET Nat, IsFiniteSet(S), NEW n \in Nat, \A i \in S : i < n,
         NEW L \in Nat
  PROVE  {i \in S \cup {n} : Cardinality({j \in S \cup {n} : i <= j}) <= L + 1}
           = {i \in S : Cardinality({j \in S : i <= j}) <= L} \cup {n}
<1> DEFINE From(i) == {j \in S : i <= j}
           FromNew(i) == {j \in S \cup {n} : i <= j}
<1>1. ASSUME NEW i \in S
      PROVE  Cardinality(FromNew(i)) <= L + 1 <=> Cardinality(From(i)) <= L
  <2>1. FromNew(i) = From(i) \cup {n} /\ n \notin From(i)
    OBVIOUS
  <2>2. IsFiniteSet(From(i)) /\ Cardinality(From(i)) \in Nat
    BY FS_Subset, FS_CardinalityType
  <2> HIDE DEF From, FromNew
  <2>3. Cardinality(FromNew(i)) = Cardinality(From(i)) + 1
    BY <2>1, <2>2, FS_AddElement
  <2> QED BY <2>2, <2>3
<1>2. Cardinality(FromNew(n)) <= L + 1
  <2>1. \A j \in S \cup {n} : n <= j <=> j = n
    OBVIOUS
  <2>2. FromNew(n) = {n}
    BY <2>1
  <2>3. Cardinality(FromNew(n)) = 1
    BY <2>2, FS_Singleton
  <2> HIDE DEF FromNew
  <2> QED BY <2>3
<1> HIDE DEF From, FromNew
<1>3. {i \in S \cup {n} : Cardinality(FromNew(i)) <= L + 1}
        = {i \in S : Cardinality(From(i)) <= L} \cup {n}
  BY <1>1, <1>2
<1> QED BY <1>3 DEF From, FromNew

(***************************************************************************)
(* If every element of a finite set R is the value of at most c elements   *)
(* of S, then S has at most c times as many elements as R: what several    *)
(* requestors are allowed together.                                        *)
(***************************************************************************)
LEMMA FewPerValue ==
  ASSUME NEW S, IsFiniteSet(S), NEW R, IsFiniteSet(R), NEW f \in [S -> R], NEW c \in Nat,
         \A r \in R : Cardinality({x \in S : f[x] = r}) <= c
  PROVE  Cardinality(S) <= c * Cardinality(R)
<1> DEFINE Exceeds(T, Q) == (\A x \in T : f[x] \in Q) /\ ~ (Cardinality(T) <= c * Cardinality(Q))
           Bad == {n \in Nat : \E T \in SUBSET S, Q \in SUBSET R :
                                 Cardinality(Q) = n /\ Exceeds(T, Q)}
<1>1. Bad = {}
  <2> SUFFICES ASSUME Bad # {} PROVE FALSE
    OBVIOUS
  <2>1. PICK n \in Bad : \A m \in Bad : n <= m
    <3>1. Bad \in SUBSET Nat
      OBVIOUS
    <3> HIDE DEF Bad
    <3> QED BY <3>1, LeastNatural
  <2>2. PICK T \in SUBSET S, Q \in SUBSET R : Cardinality(Q) = n /\ Exceeds(T, Q)
    BY <2>1
  <2>3. /\ IsFiniteSet(T) /\ Cardinality(T) \in Nat
        /\ IsFiniteSet(Q) /\ n \in Nat
    BY <2>1, FS_Subset, FS_CardinalityType
  <2>4. Q # {}
    <3> SUFFICES ASSUME Q = {} PROVE FALSE
      OBVIOUS
    <3>1. T = {}
      BY <2>2
    <3>2. Cardinality(T) = 0 /\ Cardinality(Q) = 0
      BY <3>1, FS_EmptySet
    <3>3. c * 0 = 0
      OBVIOUS
    <3> QED BY <2>2, <3>2, <3>3
  <2>5. PICK r \in Q : TRUE
    BY <2>4
  <2> DEFINE Others == Q \ {r}
             Rest == {x \in T : f[x] # r}
             Own == {x \in T : f[x] = r}
  <2>6. Cardinality(Others) = n - 1 /\ n - 1 \in Nat
    <3>1. Cardinality(Others) = n - 1
      BY <2>2, <2>3, FS_RemoveElement
    <3>2. Cardinality(Others) \in Nat
      BY <2>3, FS_Subset, FS_CardinalityType
    <3> QED BY <3>1, <3>2
  <2>7. Cardinality(Rest) <= c * (n - 1)
    <3>1. n - 1 \notin Bad
      BY <2>1, <2>3, <2>6
    <3>2. Rest \in SUBSET S /\ Others \in SUBSET R /\ \A x \in Rest : f[x] \in Others
      BY <2>2
    <3>3. ~Exceeds(Rest, Others)
      BY <2>6, <3>1, <3>2
    <3> QED BY <2>6, <3>2, <3>3
  <2>8. Cardinality(Own) <= c
    <3>1. IsFiniteSet({x \in S : f[x] = r}) /\ Own \subseteq {x \in S : f[x] = r}
      BY FS_Subset
    <3>2. /\ Cardinality(Own) <= Cardinality({x \in S : f[x] = r})
          /\ Cardinality(Own) \in Nat /\ Cardinality({x \in S : f[x] = r}) \in Nat
      BY <3>1, FS_Subset, FS_CardinalityType
    <3>3. Cardinality({x \in S : f[x] = r}) <= c
      BY <2>5
    <3> HIDE DEF Own
    <3> QED BY <3>2, <3>3
  <2>9. Cardinality(T) = Cardinality(Rest) + Cardinality(Own)
    <3>1. T = Rest \cup Own /\ Rest \cap Own = {} /\ IsFiniteSet(Rest) /\ IsFiniteSet(Own)
      BY <2>3, FS_Subset
    <3>2. /\ Cardinality(Rest \cup Own)
               = Cardinality(Rest) + Cardinality(Own) - Cardinality(Rest \cap Own)
          /\ Cardinality(Rest) \in Nat /\ Cardinality(Own) \in Nat
      BY <3>1, FS_Union, FS_CardinalityType
    <3>3. Cardinality(Rest \cap Own) = 0
      BY <3>1, FS_EmptySet
    <3> HIDE DEF Rest, Own
    <3> QED BY <3>1, <3>2, <3>3
  <2>10. c * (n - 1) + c = c * n
    BY <2>3
  <2>11. Cardinality(Rest) \in Nat /\ Cardinality(Own) \in Nat /\ c * (n - 1) \in Nat
    BY <2>3, <2>6, FS_Subset, FS_CardinalityType
  <2> HIDE DEF Rest, Own
  <2>12. Cardinality(T) <= c * n
    BY <2>7, <2>8, <2>9, <2>10, <2>11
  <2> QED BY <2>2, <2>12
<1>2. Cardinality(R) \in Nat
  BY FS_CardinalityType
<1>3. ~Exceeds(S, R)
  BY <1>1, <1>2
<1> QED BY <1>3

\* Steps from each number below n to the next.
Steps(n, V) == [1..n -> [V -> V]]

\* The function that starts at v and takes the steps.
IsRecursion(g, n, V, v, step) ==
  /\ g \in [0..n -> V]
  /\ g[0] = v /\ \A j \in 1..n : g[j] = step[j][g[j - 1]]

(***************************************************************************)
(* A value for 0 and a step from each number to the next define a function *)
(* on 0..n.  (The library's theorem on recursive definitions takes an      *)
(* operator; here the steps are functions.)                                *)
(***************************************************************************)
LEMMA RecursionExists ==
  ASSUME NEW V, NEW v \in V, NEW n \in Nat, NEW step \in Steps(n, V)
  PROVE  \E g : IsRecursion(g, n, V, v, step)
<1> DEFINE Up(m, g) == g[0] = v /\ \A j \in 1..m : g[j] = step[j][g[j - 1]]
           Bad == {m \in Nat : m <= n /\ ~ \E g \in [0..m -> V] : Up(m, g)}
<1>0. step \in [1..n -> [V -> V]]
  BY DEF Steps
<1>1. ASSUME n \notin Bad
      PROVE  \E g : IsRecursion(g, n, V, v, step)
  BY <1>1, n <= n DEF IsRecursion
<1> SUFFICES ASSUME n \in Bad PROVE FALSE
  BY <1>1
<1>2. PICK m \in Bad : \A k \in Bad : m <= k
  <2>1. Bad \in SUBSET Nat
    OBVIOUS
  <2> HIDE DEF Bad
  <2> QED BY <2>1, LeastNatural
<1>3. CASE m = 0
  <2> DEFINE g == [i \in 0..0 |-> v]
  <2>1. g \in [0..m -> V] /\ Up(m, g)
    BY <1>3
  <2> QED BY <1>2, <2>1
<1>4. CASE m # 0
  <2>1. m \in 1..n /\ m - 1 \in Nat /\ m - 1 <= n /\ m - 1 \notin Bad
    <3>1. m \in Nat /\ m <= n
      BY <1>2
    <3>2. m \in 1..n /\ m - 1 \in Nat /\ m - 1 <= n /\ ~ (m <= m - 1)
      BY <1>4, <3>1
    <3> HIDE DEF Bad
    <3> QED BY <1>2, <3>2
  <2>2. PICK f \in [0..m - 1 -> V] : Up(m - 1, f)
    BY <2>1
  <2> DEFINE g == [i \in 0..m |-> IF i = m THEN step[m][f[m - 1]] ELSE f[i]]
  <2>3. step[m][f[m - 1]] \in V
    BY <1>0, <2>1
  <2>4. g \in [0..m -> V]
    BY <2>1, <2>3
  <2>5. g[0] = v
    BY <2>1, <2>2
  <2>6. ASSUME NEW j \in 1..m PROVE g[j] = step[j][g[j - 1]]
    <3>1. j - 1 \in 0..m /\ j - 1 # m /\ g[j - 1] = f[j - 1]
      BY <2>1
    <3>2. CASE j = m
      BY <2>1, <3>1, <3>2
    <3>3. CASE j # m
      <4>1. j \in 1..m - 1
        BY <2>1, <3>3
      <4> QED BY <2>2, <3>1, <3>3, <4>1
    <3> QED BY <3>2, <3>3
  <2> QED BY <1>2, <2>4, <2>5, <2>6
<1> QED BY <1>3, <1>4

(***************************************************************************)
(* A set with 0 and, with every number below n, the next holds 0..n.  (The *)
(* library's induction theorem takes an operator.)                         *)
(***************************************************************************)
LEMMA UpTo ==
  ASSUME NEW n \in Nat, NEW P, 0 \in P, \A k \in 1..n : k - 1 \in P => k \in P
  PROVE  \A k \in 0..n : k \in P
<1> DEFINE Bad == {k \in Nat : k <= n /\ k \notin P}
<1> SUFFICES ASSUME Bad # {} PROVE FALSE
  OBVIOUS
<1>1. PICK k \in Bad : \A m \in Bad : k <= m
  <2>1. Bad \in SUBSET Nat
    OBVIOUS
  <2> HIDE DEF Bad
  <2> QED BY <2>1, LeastNatural
<1>2. k \in 1..n /\ k - 1 \in Nat /\ k - 1 <= n /\ ~(k <= k - 1)
  <2>1. k \in Nat /\ k <= n /\ k # 0
    BY <1>1
  <2> QED BY <2>1
<1>3. k - 1 \in P
  BY <1>1, <1>2
<1> QED BY <1>1, <1>2, <1>3

\* The recursion that defines the powers of two.  The provers do not know it,
\* so the theorems that need it have it as a hypothesis.
PowersOfTwo == 2^0 = 1 /\ \A n \in Nat : 2^n \in Nat /\ 2^(n + 1) = 2 * 2^n

(***************************************************************************)
(* Powers of two outgrow every number: halving a range often enough        *)
(* resolves it.                                                            *)
(***************************************************************************)
LEMMA PowersGrow ==
  ASSUME PowersOfTwo
  PROVE  \A n \in Nat : 2^n \in Nat /\ n < 2^n
<1> DEFINE S == {n \in Nat : ~ (n < 2^n)}
<1>1. SUFFICES ASSUME S # {} PROVE FALSE
  BY DEF PowersOfTwo
<1>2. PICK n \in S : \A m \in S : n <= m
  <2>1. S \in SUBSET Nat
    OBVIOUS
  <2> HIDE DEF S
  <2> QED BY <1>1, <2>1, LeastNatural
<1>3. n # 0
  <2> SUFFICES ASSUME n = 0 PROVE FALSE
    OBVIOUS
  <2>1. 2^n = 1
    BY DEF PowersOfTwo
  <2> QED BY <1>2, <2>1
<1>4. n - 1 \in Nat /\ (n - 1) + 1 = n /\ n - 1 \notin S
  BY <1>2, <1>3
<1>5. 2^(n - 1) \in Nat /\ n - 1 < 2^(n - 1) /\ 2^n = 2 * 2^(n - 1)
  <2>1. 2^(n - 1) \in Nat /\ 2^((n - 1) + 1) = 2 * 2^(n - 1)
    BY <1>4 DEF PowersOfTwo
  <2> QED BY <1>4, <2>1
<1>6. n < 2^n
  BY <1>4, <1>5
<1> QED BY <1>2, <1>6

(***************************************************************************)
(* Halving more often leaves less.                                         *)
(***************************************************************************)
LEMMA PowersOrdered ==
  ASSUME PowersOfTwo, NEW m \in Nat, NEW n \in Nat, m <= n
  PROVE  2^m <= 2^n
<1> DEFINE S == {i \in Nat : m <= i /\ ~ (2^m <= 2^i)}
<1>1. SUFFICES ASSUME S # {} PROVE FALSE
  OBVIOUS
<1>2. PICK i \in S : \A j \in S : i <= j
  <2>1. S \in SUBSET Nat
    OBVIOUS
  <2> HIDE DEF S
  <2> QED BY <1>1, <2>1, LeastNatural
<1>3. 2^m \in Nat /\ 2^i \in Nat
  BY <1>2 DEF PowersOfTwo
<1>4. i # m
  BY <1>2, <1>3
<1>5. i - 1 \in Nat /\ (i - 1) + 1 = i /\ m <= i - 1 /\ i - 1 \notin S
  BY <1>2, <1>4
<1>6. 2^(i - 1) \in Nat /\ 2^m <= 2^(i - 1) /\ 2^i = 2 * 2^(i - 1)
  <2>1. 2^(i - 1) \in Nat /\ 2^((i - 1) + 1) = 2 * 2^(i - 1)
    BY <1>5 DEF PowersOfTwo
  <2> QED BY <1>5, <2>1
<1>7. 2^m <= 2^i
  BY <1>3, <1>6
<1> QED BY <1>2, <1>7

===============================================================================
