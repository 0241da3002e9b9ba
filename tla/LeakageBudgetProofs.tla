-------------------------- MODULE LeakageBudgetProofs --------------------------
(***************************************************************************)
(* Theorems about LeakageBudget, for every set of owners, requestors,      *)
(* attributes and policies and for every length of a day.                  *)
(***************************************************************************)
EXTENDS LeakageBudget, Counting, SequenceTheorems

-----------------------------------------------------------------------------
(* Counting the uses of an interval.                                       *)

(***************************************************************************)
(* A sequence of uses is no longer than its places, so every count of its  *)
(* uses is a natural number.                                               *)
(***************************************************************************)
LEMMA PlacesFinite ==
  ASSUME NEW h \in Seq(Use), NEW S \in SUBSET DOMAIN h
  PROVE  /\ IsFiniteSet(DOMAIN h)
         /\ S \in SUBSET Nat
         /\ IsFiniteSet(S)
         /\ Cardinality(S) \in Nat
<1>1. IsFiniteSet(DOMAIN h)
  BY FS_Interval
<1> QED BY <1>1, FS_Subset, FS_CardinalityType

(***************************************************************************)
(* The fields of a recorded use.                                           *)
(***************************************************************************)
LEMMA UseType ==
  ASSUME NEW h \in Seq(Use), NEW i \in DOMAIN h
  PROVE  /\ h[i].at \in Nat
         /\ h[i].requestor_id \in Requestors
         /\ h[i].exempt \in BOOLEAN
<1>1. h[i] \in Use
  OBVIOUS
<1> QED BY <1>1 DEF Use

(***************************************************************************)
(* Recording one more use, not earlier than the others, keeps every        *)
(* interval of length span within a limit, if the use does not count or    *)
(* the interval that ends with it had room.                                *)
(***************************************************************************)
LEMMA HeldAfterAppend ==
  ASSUME NEW h \in Seq(Use), NEW u \in Use, NEW R,
         NEW t \in Nat, NEW span \in Nat, NEW n \in Nat,
         \A i \in DOMAIN h : h[i].at <= u.at,
         Cardinality(Held(h, t, span, R)) <= n,
         ~u.exempt /\ u.requestor_id \in R => Cardinality(Held(h, u.at, span, R)) < n
  PROVE  Cardinality(Held(Append(h, u), t, span, R)) <= n
<1> DEFINE g == Append(h, u)
           L == Len(h)
<1>1. L \in Nat /\ DOMAIN h = 1..L /\ DOMAIN g = 1..L + 1 /\ g \in Seq(Use)
  OBVIOUS
<1>2. g[L + 1] = u /\ \A i \in 1..L : g[i] = h[i]
  OBVIOUS
<1>3. u.at \in Nat /\ \A i \in DOMAIN h : h[i].at \in Nat
  BY UseType DEF Use
<1>4. Held(h, t, span, R) \subseteq DOMAIN h /\ Held(h, u.at, span, R) \subseteq DOMAIN h
  BY DEF Held
<1> HIDE DEF g, L
<1>5. CASE L + 1 \notin Held(g, t, span, R)
  <2>1. Held(g, t, span, R) = Held(h, t, span, R)
    BY <1>1, <1>2, <1>5 DEF Held
  <2> QED BY <2>1 DEF g
<1>6. CASE L + 1 \in Held(g, t, span, R)
  <2>1. ~u.exempt /\ u.requestor_id \in R /\ u.at <= t /\ t < u.at + span
    BY <1>2, <1>6 DEF Held
  <2>2. Held(h, t, span, R) \subseteq Held(h, u.at, span, R)
    <3> SUFFICES ASSUME NEW i \in Held(h, t, span, R)
                 PROVE  i \in Held(h, u.at, span, R)
      OBVIOUS
    <3>1. i \in DOMAIN h /\ h[i].at <= u.at /\ h[i].at \in Nat /\ t < h[i].at + span
      BY <1>3 DEF Held
    <3>2. u.at < h[i].at + span
      BY <1>3, <2>1, <3>1
    <3> QED BY <3>1, <3>2 DEF Held
  <2>3. Held(g, t, span, R) = Held(h, t, span, R) \cup {L + 1}
    BY <1>1, <1>2, <1>6 DEF Held
  <2>4. IsFiniteSet(Held(h, u.at, span, R)) /\ IsFiniteSet(Held(h, t, span, R))
        /\ Cardinality(Held(h, u.at, span, R)) \in Nat
        /\ Cardinality(Held(h, t, span, R)) \in Nat
    BY <1>4, PlacesFinite
  <2>5. Cardinality(Held(h, t, span, R)) <= Cardinality(Held(h, u.at, span, R))
    BY <2>2, <2>4, FS_Subset
  <2>6. L + 1 \notin Held(h, t, span, R)
    BY <1>1, <1>4
  <2>7. Cardinality(Held(g, t, span, R)) = Cardinality(Held(h, t, span, R)) + 1
    BY <2>3, <2>4, <2>6, FS_AddElement
  <2>8. Cardinality(Held(h, u.at, span, R)) < n
    BY <2>1
  <2>9. Cardinality(Held(g, t, span, R)) <= n
    BY <2>4, <2>5, <2>7, <2>8
  <2> QED BY <2>9 DEF g
<1> QED BY <1>5, <1>6

-----------------------------------------------------------------------------
(* Pruning.                                                                *)

(***************************************************************************)
(* The loop of _recent drops a stale prefix and stops at a use that is not *)
(* stale.                                                                  *)
(***************************************************************************)
LEMMA DroppedStale ==
  ASSUME NEW s \in Seq(Use), NEW at \in Nat
  PROVE  /\ Dropped(s, at) \in 0..Len(s)
         /\ \A i \in 1..Dropped(s, at) : Stale(s[i], at)
         /\ Dropped(s, at) < Len(s) => ~Stale(s[Dropped(s, at) + 1], at)
<1> DEFINE stops == {n \in 0..Len(s) : n < Len(s) => ~Stale(s[n + 1], at)}
<1>1. Len(s) \in Nat /\ Len(s) \in stops /\ stops \in SUBSET Nat
  OBVIOUS
<1>2. PICK n \in stops : \A m \in stops : n <= m
  BY <1>1, LeastNatural
<1>3. ASSUME NEW i \in 1..n PROVE Stale(s[i], at)
  <2>1. i - 1 \in 0..Len(s) /\ i - 1 < n /\ i - 1 < Len(s) /\ (i - 1) + 1 = i
    BY <1>1, <1>2
  <2>2. i - 1 \notin stops
    BY <1>1, <1>2, <2>1
  <2> QED BY <2>1, <2>2
<1>4. \E k \in 0..Len(s) :
        /\ \A i \in 1..k : Stale(s[i], at)
        /\ k < Len(s) => ~Stale(s[k + 1], at)
  BY <1>2, <1>3
<1> QED BY <1>4 DEF Dropped

\* Deque s is all of h but its first m uses, and those are stale at t.
TailFrom(s, h, m, t) ==
  /\ m \in 0..Len(h)
  /\ Len(s) = Len(h) - m
  /\ \A i \in 1..Len(s) : s[i] = h[i + m]
  /\ \A i \in 1..m : Stale(h[i], t)

FreshTail(s, h, t) == \E m \in Nat : TailFrom(s, h, m, t)

(***************************************************************************)
(* Pruning a deque that has lost only stale uses leaves such a deque,      *)
(* which is empty or starts with a use that is not stale.                  *)
(***************************************************************************)
LEMMA PrunedIsTail ==
  ASSUME NEW s \in Seq(Use), NEW h \in Seq(Use), NEW at \in Nat,
         FreshTail(s, h, at)
  PROVE  /\ Pruned(s, at) \in Seq(Use)
         /\ \E m \in Nat :
              /\ TailFrom(Pruned(s, at), h, m, at)
              /\ m < Len(h) => ~Stale(h[m + 1], at)
<1> DEFINE n == Dropped(s, at)
           q == Pruned(s, at)
<1>1. n \in 0..Len(s) /\ \A i \in 1..n : Stale(s[i], at)
  BY DroppedStale
<1>2. n < Len(s) => ~Stale(s[n + 1], at)
  BY DroppedStale
<1>3. PICK m \in Nat : TailFrom(s, h, m, at)
  BY DEF FreshTail
<1>4. Len(s) \in Nat /\ Len(h) \in Nat
  OBVIOUS
<1>5. q \in Seq(Use) /\ Len(q) = Len(s) - n /\ \A i \in 1..Len(q) : q[i] = s[n + i]
  <2>1. q = SubSeq(s, n + 1, Len(s))
    BY DEF Pruned
  <2> HIDE DEF n, q
  <2> QED BY <1>1, <1>4, <2>1
<1> HIDE DEF n, q
<1>6. m + n \in 0..Len(h) /\ Len(q) = Len(h) - (m + n)
  BY <1>1, <1>3, <1>4, <1>5 DEF TailFrom
<1>7. ASSUME NEW i \in 1..Len(q) PROVE q[i] = h[i + (m + n)]
  <2>1. n + i \in 1..Len(s) /\ (n + i) + m = i + (m + n)
    BY <1>1, <1>4, <1>5
  <2> QED BY <1>3, <1>5, <2>1 DEF TailFrom
<1>8. ASSUME NEW i \in 1..m + n PROVE Stale(h[i], at)
  <2>1. CASE i <= m
    BY <1>3, <2>1 DEF TailFrom
  <2>2. CASE i > m
    <3>1. i - m \in 1..n /\ i - m \in 1..Len(s) /\ (i - m) + m = i
      BY <1>1, <1>4, <2>2
    <3>2. s[i - m] = h[i]
      BY <1>3, <3>1 DEF TailFrom
    <3> QED BY <1>1, <3>1, <3>2
  <2> QED BY <2>1, <2>2
<1>9. m + n < Len(h) => ~Stale(h[(m + n) + 1], at)
  <2> SUFFICES ASSUME m + n < Len(h) PROVE ~Stale(h[(m + n) + 1], at)
    OBVIOUS
  <2>1. n < Len(s) /\ n + 1 \in 1..Len(s) /\ (n + 1) + m = (m + n) + 1
    BY <1>1, <1>3, <1>4 DEF TailFrom
  <2>2. s[n + 1] = h[(m + n) + 1]
    BY <1>3, <2>1 DEF TailFrom
  <2> QED BY <1>2, <2>1, <2>2
<1>10. TailFrom(q, h, m + n, at)
  BY <1>6, <1>7, <1>8 DEF TailFrom
<1>11. m + n \in Nat
  BY <1>1
<1> QED BY <1>5, <1>9, <1>10, <1>11 DEF q

\* No use of h is later than t, and none is earlier than the one before it.
Ordered(h, t) ==
  /\ \A i \in DOMAIN h : h[i].at <= t
  /\ \A i, j \in DOMAIN h : i <= j => h[i].at <= h[j].at

\* The places Counted returns that the last span reaches; InWindow for any span.
Since(q, t, R, span) == {i \in Counted(q, t, R) : t < q[i].at + span}

(***************************************************************************)
(* The queries check counts in the pruned deque are, one for one, the      *)
(* queries of the last day, and among them those of the last span.         *)
(***************************************************************************)
LEMMA CountedIsHeld ==
  ASSUME NEW q \in Seq(Use), NEW h \in Seq(Use), NEW t \in Nat, NEW R,
         NEW m \in Nat, NEW span \in 0..DAY,
         TailFrom(q, h, m, t), Ordered(h, t),
         m < Len(h) => ~Stale(h[m + 1], t)
  PROVE  /\ Cardinality(Counted(q, t, R)) = Cardinality(Held(h, t, DAY, R))
         /\ Cardinality(Since(q, t, R, span))
              = Cardinality(Held(h, t, span, R))
<1>1. Len(q) \in Nat /\ Len(h) \in Nat /\ DAY \in Nat /\ span \in Nat
      /\ DOMAIN q = 1..Len(q) /\ DOMAIN h = 1..Len(h)
  BY DayAssumption
<1>2. \A i \in 1..Len(q) : i + m \in 1..Len(h) /\ q[i] = h[i + m]
  BY <1>1 DEF TailFrom
<1>3. ASSUME NEW j \in 1..Len(h), t < h[j].at + DAY
      PROVE  /\ j - m \in 1..Len(q)
             /\ (j - m) + m = j
             /\ q[j - m] = h[j]
  <2>1. h[j].at \in Nat
    BY UseType, <1>1
  <2>2. ~Stale(h[j], t)
    BY <1>1, <1>3, <2>1 DEF Stale
  <2>3. j \notin 1..m
    BY <2>2 DEF TailFrom
  <2>4. j - m \in 1..Len(q) /\ (j - m) + m = j
    BY <1>1, <2>3 DEF TailFrom
  <2> QED BY <1>2, <2>4
<1>4. ASSUME NEW j \in 1..Len(h), j > m
      PROVE  t < h[j].at + DAY
  <2>1. h[j].at \in Nat /\ m + 1 \in 1..Len(h)
    BY UseType, <1>1, <1>4
  <2>2. h[m + 1].at \in Nat /\ ~Stale(h[m + 1], t)
    BY UseType, <1>1, <2>1
  <2>3. h[m + 1].at <= h[j].at
    BY <1>1, <1>4, <2>1 DEF Ordered
  <2> QED BY <1>1, <2>1, <2>2, <2>3 DEF Stale
<1>5. ASSUME NEW i \in 1..Len(q)
      PROVE  i \in Counted(q, t, R) <=> i + m \in Held(h, t, DAY, R)
  <2>1. t < h[i + m].at + DAY
    <3>1. i + m \in 1..Len(h) /\ i + m > m
      BY <1>2
    <3> QED BY <1>4, <3>1
  <2> QED BY <1>1, <1>2, <2>1 DEF Counted, Held
<1>6. Cardinality(Counted(q, t, R)) = Cardinality(Held(h, t, DAY, R))
  <2>1. Counted(q, t, R) \subseteq DOMAIN q
    BY DEF Counted
  <2>2. Counted(q, t, R) \in SUBSET Nat /\ IsFiniteSet(Counted(q, t, R))
    BY <2>1, PlacesFinite
  <2>3. \A x \in Counted(q, t, R) : x + m \in Held(h, t, DAY, R)
    BY <1>1, <1>5, <2>1
  <2>4. ASSUME NEW y \in Held(h, t, DAY, R)
        PROVE  \E x \in Counted(q, t, R) : y = x + m
    <3>1. y \in 1..Len(h) /\ t < h[y].at + DAY
      BY <1>1 DEF Held
    <3>2. y - m \in 1..Len(q) /\ (y - m) + m = y
      BY <1>3, <3>1
    <3> QED BY <1>5, <3>2
  <2> QED BY <2>2, <2>3, <2>4, ShiftedCount
<1>7. Cardinality(Since(q, t, R, span))
        = Cardinality(Held(h, t, span, R))
  <2> DEFINE S == {i \in Counted(q, t, R) : t < q[i].at + span}
  <2>1. S \subseteq DOMAIN q
    BY DEF Counted
  <2>2. S \in SUBSET Nat /\ IsFiniteSet(S)
    BY <2>1, PlacesFinite
  <2>3. ASSUME NEW x \in S PROVE x + m \in Held(h, t, span, R)
    <3>1. x \in 1..Len(q) /\ x \in Counted(q, t, R)
      BY <1>1, <2>1
    <3>2. x + m \in Held(h, t, DAY, R) /\ q[x] = h[x + m]
      BY <1>2, <1>5, <3>1
    <3> QED BY <3>2 DEF Held
  <2>4. ASSUME NEW y \in Held(h, t, span, R)
        PROVE  \E x \in S : y = x + m
    <3>1. y \in 1..Len(h) /\ h[y].at \in Nat /\ t < h[y].at + span
      BY <1>1, UseType DEF Held
    <3>2. t < h[y].at + DAY
      BY <1>1, <3>1
    <3>3. y - m \in 1..Len(q) /\ (y - m) + m = y /\ q[y - m] = h[y]
      BY <1>3, <3>1, <3>2
    <3>4. y \in Held(h, t, DAY, R)
      BY <3>2 DEF Held
    <3>5. y - m \in S
      BY <1>5, <3>1, <3>3, <3>4
    <3> QED BY <3>3, <3>5
  <2> HIDE DEF S
  <2>5. Cardinality(S) = Cardinality(Held(h, t, span, R))
    BY <2>2, <2>3, <2>4, ShiftedCount
  <2> QED BY <2>5 DEF S, Since
<1> QED BY <1>6, <1>7

-----------------------------------------------------------------------------
(* The inductive invariant.                                                *)

(***************************************************************************)
(* A policy is registered under its own group, an attribute belongs to the *)
(* group whose policy covers it, a datum nobody has a policy for was never *)
(* charged, histories are ordered in time, and a deque has forgotten stale *)
(* uses only.                                                              *)
(***************************************************************************)
PoliciesNamed ==
  \A g \in Groups : policies[g] # NoPolicy => policies[g].group = g

UnusedBefore ==
  \A d \in Datum : policies[d[2]] = NoPolicy => history[d] = <<>>

HistoryOrdered == \A d \in Datum : Ordered(history[d], now)

UsesAreTail == \A d \in Datum : FreshTail(uses[d], history[d], now)

State ==
  /\ TypeOK /\ PoliciesNamed /\ GroupsAgree
  /\ UnusedBefore /\ HistoryOrdered /\ UsesAreTail

Bounds == WindowBound /\ DailyBound /\ ShareBound

IInv == State /\ Bounds

(***************************************************************************)
(* What DatumPolicy.__post_init__ guarantees of every policy.              *)
(***************************************************************************)
LEMMA PolicyFacts ==
  ASSUME NEW p \in Policies
  PROVE  /\ p \in DatumPolicy
         /\ p.group \in Groups
         /\ p.attributes \subseteq Attributes
         /\ p.tau \in 1..DAY /\ p.tau \in Nat
         /\ p.daily_quota \in Nat
         /\ p.requestor_share \in Nat
         /\ per_window(p) \in Nat
         /\ p # NoPolicy
<1>1. p \in DatumPolicy /\ ValidPolicy(p)
  BY PoliciesAssumption
<1>2. p # NoPolicy
  BY SentinelAssumption
<1> QED BY <1>1, <1>2, DayAssumption DEF DatumPolicy, ValidPolicy

(***************************************************************************)
(* The clock is a natural number.                                          *)
(***************************************************************************)
LEMMA NowType == TypeOK => now \in Nat
BY BoundsAssumption DEF TypeOK, Times

\* The policy in force for an attribute, and the datum it is charged to.
LEMMA PolicyInForce ==
  ASSUME State, NEW o \in Owners, NEW a \in Attributes, policy_for(a) # NoPolicy
  PROVE  /\ policy_for(a) \in Policies
         /\ group_of[a] \in Groups
         /\ policy_for(a).group = group_of[a]
         /\ policies[policy_for(a).group] = policy_for(a)
         /\ <<o, policy_for(a).group>> \in Datum
<1>1. group_of[a] # NoGroup /\ policy_for(a) = policies[group_of[a]]
  BY DEF policy_for
<1>2. group_of[a] \in Groups
  BY <1>1 DEF State, TypeOK
<1>3. policy_for(a) \in Policies /\ policy_for(a).group = group_of[a]
  BY <1>1, <1>2 DEF State, TypeOK, PoliciesNamed
<1> QED BY <1>1, <1>2, <1>3 DEF Datum

(***************************************************************************)
(* check counts in the pruned deque what the whole history holds: pruning  *)
(* changes no decision.                                                    *)
(***************************************************************************)
LEMMA VerdictFromHistory ==
  ASSUME State, NEW d \in Datum, NEW p \in Policies, NEW R
  PROVE  LET q == Pruned(uses[d], now)
         IN  /\ Cardinality(Counted(q, now, R))
                  = Cardinality(Held(history[d], now, DAY, R))
             /\ Cardinality(Since(q, now, R, p.tau))
                  = Cardinality(Held(history[d], now, p.tau, R))
<1> DEFINE q == Pruned(uses[d], now)
           h == history[d]
<1>1. now \in Nat /\ uses[d] \in Seq(Use) /\ h \in Seq(Use)
  BY NowType DEF State, TypeOK
<1>2. FreshTail(uses[d], h, now) /\ Ordered(h, now)
  BY DEF State, UsesAreTail, HistoryOrdered
<1>3. q \in Seq(Use)
      /\ \E m \in Nat : /\ TailFrom(q, h, m, now)
                        /\ m < Len(h) => ~Stale(h[m + 1], now)
  BY <1>1, <1>2, PrunedIsTail
<1>4. p.tau \in 0..DAY
  BY PolicyFacts, DayAssumption
<1> HIDE DEF q, h
<1>5. PICK m \in Nat : /\ TailFrom(q, h, m, now)
                       /\ m < Len(h) => ~Stale(h[m + 1], now)
  BY <1>3
<1>6. q \in Seq(Use)
  BY <1>3
<1> DEFINE span == p.tau
<1>7. span \in 0..DAY
  BY <1>4
<1> HIDE DEF span
<1>8. /\ Cardinality(Counted(q, now, R)) = Cardinality(Held(h, now, DAY, R))
      /\ Cardinality(Since(q, now, R, span))
           = Cardinality(Held(h, now, span, R))
  BY <1>1, <1>2, <1>5, <1>6, <1>7, CountedIsHeld
<1> QED BY <1>8 DEF q, h, span

\* No limit of policy p stops requestor r now, by the whole history of d.
LimitsFor(p, d, r) ==
  Judge(p, Cardinality(Held(history[d], now, p.tau, Requestors)),
           Cardinality(Held(history[d], now, DAY, Requestors)),
           Cardinality(Held(history[d], now, DAY, {r})))

(***************************************************************************)
(* check decides as if nothing had ever been pruned.                       *)
(***************************************************************************)
LEMMA DecisionFromHistory ==
  ASSUME State, NEW o \in Owners, NEW a \in Attributes, NEW r \in Requestors,
         Governed(r, a)
  PROVE  Decision(o, r, a, now)
           = LimitsFor(policy_for(a), <<o, policy_for(a).group>>, r)
<1> DEFINE p == policy_for(a)
           d == <<o, p.group>>
           q == Pruned(uses[d], now)
<1>1. p \in Policies /\ d \in Datum
  BY PolicyInForce DEF Governed
<1>2. Decision(o, r, a, now) = Verdict(p, q, r, now)
  BY DEF Decision
<1> HIDE DEF p, d
<1>3. Cardinality(Counted(q, now, Requestors))
        = Cardinality(Held(history[d], now, DAY, Requestors))
  BY <1>1, VerdictFromHistory
<1>4. Cardinality(Counted(q, now, {r})) = Cardinality(Held(history[d], now, DAY, {r}))
  BY <1>1, VerdictFromHistory
<1>5. Cardinality(InWindow(p, q, now))
        = Cardinality(Held(history[d], now, p.tau, Requestors))
  BY <1>1, VerdictFromHistory DEF InWindow, Since
<1>6. Verdict(p, q, r, now) = LimitsFor(p, d, r)
  BY <1>3, <1>4, <1>5 DEF Verdict, LimitsFor
<1> QED BY <1>2, <1>6 DEF p, d

-----------------------------------------------------------------------------
(* Every step preserves the invariant.                                     *)

(***************************************************************************)
(* A budget starts without policies and without uses.                      *)
(***************************************************************************)
LEMMA InitIInv == Init => IInv
<1> SUFFICES ASSUME Init PROVE IInv
  OBVIOUS
<1>1. TypeOK
  BY BoundsAssumption DEF Init, TypeOK, Times
<1>2. PoliciesNamed /\ UnusedBefore
  BY DEF Init, PoliciesNamed, UnusedBefore, Datum
<1>3. GroupsAgree
  BY SentinelAssumption DEF Init, GroupsAgree
<1>4. HistoryOrdered
  BY DEF Init, HistoryOrdered, Ordered
<1>5. UsesAreTail
  <2>1. TailFrom(<<>>, <<>>, 0, now)
    BY DEF TailFrom
  <2> QED BY <2>1 DEF Init, UsesAreTail, FreshTail
<1>6. Bounds
  BY DEF Init, Bounds, WindowBound, DailyBound, ShareBound, Datum
<1> QED BY <1>1, <1>2, <1>3, <1>4, <1>5, <1>6 DEF IInv, State

(***************************************************************************)
(* Time only makes more uses stale.                                        *)
(***************************************************************************)
LEMMA TickIInv == IInv /\ Tick => IInv'
<1> SUFFICES ASSUME IInv, Tick PROVE IInv'
  OBVIOUS
<1>1. now \in Nat /\ now' = now + 1 /\ now < MaxTime
      /\ UNCHANGED <<policies, group_of, uses, history>>
  BY NowType DEF IInv, State, Tick
<1>2. TypeOK'
  BY <1>1, BoundsAssumption DEF IInv, State, TypeOK, Times
<1>3. (PoliciesNamed /\ GroupsAgree /\ UnusedBefore)'
  BY <1>1 DEF IInv, State, PoliciesNamed, GroupsAgree, UnusedBefore
<1>4. HistoryOrdered'
  <2> SUFFICES ASSUME NEW d \in Datum PROVE Ordered(history[d], now + 1)
    BY <1>1 DEF HistoryOrdered
  <2>1. Ordered(history[d], now) /\ history[d] \in Seq(Use)
    BY DEF IInv, State, HistoryOrdered, TypeOK
  <2>2. \A i \in DOMAIN history[d] : history[d][i].at \in Nat
    BY <2>1, UseType
  <2>3. \A i \in DOMAIN history[d] : history[d][i].at <= now + 1
    BY <1>1, <2>1, <2>2 DEF Ordered
  <2> QED BY <2>1, <2>3 DEF Ordered
<1>5. UsesAreTail'
  <2> SUFFICES ASSUME NEW d \in Datum PROVE FreshTail(uses[d], history[d], now + 1)
    BY <1>1 DEF UsesAreTail
  <2>1. history[d] \in Seq(Use)
    BY DEF IInv, State, TypeOK
  <2>2. PICK m \in Nat : TailFrom(uses[d], history[d], m, now)
    BY DEF IInv, State, UsesAreTail, FreshTail
  <2>3. ASSUME NEW i \in 1..m PROVE Stale(history[d][i], now + 1)
    <3>1. i \in DOMAIN history[d]
      BY <2>1, <2>2 DEF TailFrom
    <3>2. history[d][i].at \in Nat
      BY <2>1, <3>1, UseType
    <3> QED BY <1>1, <2>2, <3>2, DayAssumption DEF TailFrom, Stale
  <2> QED BY <2>2, <2>3 DEF TailFrom, FreshTail
<1>6. Bounds'
  BY <1>1 DEF IInv, Bounds, WindowBound, DailyBound, ShareBound, Bounded
<1> QED BY <1>2, <1>3, <1>4, <1>5, <1>6 DEF IInv, State

(***************************************************************************)
(* A policy comes into force for a datum that was never charged.           *)
(***************************************************************************)
LEMMA AddIInv ==
  ASSUME IInv, NEW p \in Policies, Add(p)
  PROVE  IInv'
<1>1. /\ policies[p.group] = NoPolicy
      /\ \A a \in p.attributes : group_of[a] = NoGroup
      /\ policies' = [policies EXCEPT ![p.group] = p]
      /\ group_of' = [a \in Attributes |->
                        IF a \in p.attributes THEN p.group ELSE group_of[a]]
      /\ UNCHANGED <<uses, history, now>>
  BY DEF Add
<1>2. /\ p.group \in Groups /\ p.attributes \subseteq Attributes
      /\ p # NoPolicy
      /\ per_window(p) \in Nat /\ p.daily_quota \in Nat /\ p.requestor_share \in Nat
  BY PolicyFacts
<1>3. policies \in [Groups -> Policies \cup {NoPolicy}]
  BY DEF IInv, State, TypeOK
<1>4. \A g \in Groups : policies'[g] = IF g = p.group THEN p ELSE policies[g]
  BY <1>1, <1>2, <1>3
<1>5. TypeOK'
  BY <1>1, <1>2, <1>3 DEF IInv, State, TypeOK
<1>6. PoliciesNamed'
  BY <1>4 DEF IInv, State, PoliciesNamed
<1>7. GroupsAgree'
  <2> SUFFICES ASSUME NEW a \in Attributes, NEW g \in Groups
               PROVE  group_of'[a] = g
                        <=> policies'[g] # NoPolicy /\ a \in policies'[g].attributes
    BY DEF GroupsAgree
  <2>1. group_of[a] = g <=> policies[g] # NoPolicy /\ a \in policies[g].attributes
    BY DEF IInv, State, GroupsAgree
  <2>2. group_of'[a] = IF a \in p.attributes THEN p.group ELSE group_of[a]
    BY <1>1
  <2>3. NoGroup # g
    BY SentinelAssumption
  <2> QED BY <1>1, <1>2, <1>4, <2>1, <2>2, <2>3
<1>8. UnusedBefore'
  BY <1>1, <1>2, <1>4 DEF IInv, State, UnusedBefore, Datum
<1>9. (HistoryOrdered /\ UsesAreTail)'
  BY <1>1 DEF IInv, State, HistoryOrdered, UsesAreTail
<1>10. Bounds'
  <2>1. \A d \in Datum : d[2] \in Groups
    BY DEF Datum
  <2>2. ASSUME NEW d \in Datum, d[2] = p.group, NEW t \in Times, NEW span, NEW R
        PROVE  Cardinality(Held(history'[d], t, span, R)) = 0
    <3>1. history'[d] = <<>>
      BY <1>1, <2>2 DEF IInv, State, UnusedBefore
    <3>2. Held(<<>>, t, span, R) = {}
      BY DEF Held
    <3> QED BY <3>1, <3>2, FS_EmptySet
  <2>3. WindowBound'
    BY <1>1, <1>2, <1>4, <2>1, <2>2 DEF IInv, Bounds, WindowBound, Bounded
  <2>4. DailyBound'
    BY <1>1, <1>2, <1>4, <2>1, <2>2 DEF IInv, Bounds, DailyBound, Bounded
  <2>5. ShareBound'
    <3> SUFFICES ASSUME NEW d \in Datum, NEW r \in Requestors, NEW t \in Times,
                        policies'[d[2]] # NoPolicy
                 PROVE  Cardinality(Held(history'[d], t, DAY, {r}))
                          <= policies'[d[2]].requestor_share
      BY DEF ShareBound, Bounded
    <3>1. CASE d[2] = p.group
      BY <1>2, <1>4, <2>2, <3>1
    <3>2. CASE d[2] # p.group
      BY <1>1, <1>4, <2>1, <3>2 DEF IInv, Bounds, ShareBound, Bounded
    <3> QED BY <3>1, <3>2
  <2> QED BY <2>3, <2>4, <2>5 DEF Bounds
<1> QED BY <1>5, <1>6, <1>7, <1>8, <1>9, <1>10 DEF IInv, State

(***************************************************************************)
(* check and remaining only prune: every deque still lacks stale uses only.*)
(***************************************************************************)
LEMMA RecentIsTail ==
  ASSUME State, NEW o \in Owners, NEW p \in Policies
  PROVE  /\ Recent(o, p, now) \in [Datum -> Seq(Use)]
         /\ \A d \in Datum : FreshTail(Recent(o, p, now)[d], history[d], now)
<1> DEFINE c == <<o, p.group>>
<1>1. c \in Datum
  BY PolicyFacts DEF Datum
<1>2. uses \in [Datum -> Seq(Use)] /\ history[c] \in Seq(Use) /\ now \in Nat
  BY <1>1, NowType DEF State, TypeOK
<1>3. \A d \in Datum : FreshTail(uses[d], history[d], now)
  BY DEF State, UsesAreTail
<1>4. Pruned(uses[c], now) \in Seq(Use) /\ FreshTail(Pruned(uses[c], now), history[c], now)
  <2>1. uses[c] \in Seq(Use) /\ FreshTail(uses[c], history[c], now)
    BY <1>1, <1>2, <1>3
  <2> HIDE DEF c
  <2> QED BY <1>2, <2>1, PrunedIsTail DEF FreshTail
<1>5. Recent(o, p, now) = [uses EXCEPT ![c] = Pruned(uses[c], now)]
  BY DEF Recent
<1> HIDE DEF c
<1> QED BY <1>1, <1>2, <1>3, <1>4, <1>5

(***************************************************************************)
(* Whether or not check prunes, a deque lacks only uses that are a day     *)
(* old.                                                                    *)
(***************************************************************************)
LEMMA AfterCheckIsTail ==
  ASSUME State, NEW o \in Owners, NEW r \in Requestors, NEW a \in Attributes
  PROVE  /\ AfterCheck(o, r, a, now) \in [Datum -> Seq(Use)]
         /\ \A d \in Datum : FreshTail(AfterCheck(o, r, a, now)[d], history[d], now)
<1>1. CASE Governed(r, a)
  <2>1. policy_for(a) \in Policies
    BY <1>1, PolicyInForce DEF Governed
  <2> QED BY <1>1, <2>1, RecentIsTail DEF AfterCheck
<1>2. CASE ~Governed(r, a)
  BY <1>2 DEF AfterCheck, State, TypeOK, UsesAreTail
<1> QED BY <1>1, <1>2

\* A step that changes only the deques, and leaves them lacking stale uses only.
LEMMA PruneIInv ==
  ASSUME IInv, UNCHANGED <<policies, group_of, history, now>>,
         uses' \in [Datum -> Seq(Use)],
         \A d \in Datum : FreshTail(uses'[d], history[d], now)
  PROVE  IInv'
<1>1. State'
  BY DEF IInv, State, TypeOK, PoliciesNamed, GroupsAgree, UnusedBefore,
         HistoryOrdered, UsesAreTail
<1>2. Bounds'
  BY DEF IInv, Bounds, WindowBound, DailyBound, ShareBound, Bounded
<1> QED BY <1>1, <1>2 DEF IInv

(***************************************************************************)
(* A check that charges nothing preserves the invariant.                   *)
(***************************************************************************)
LEMMA CheckIInv ==
  ASSUME IInv, NEW o \in Owners, NEW r \in Requestors, NEW a \in Attributes,
         Check(o, r, a, now)
  PROVE  IInv'
<1>1. State
  BY DEF IInv
<1> QED BY <1>1, AfterCheckIsTail, PruneIInv DEF Check

(***************************************************************************)
(* remaining, which prunes as well, preserves the invariant.               *)
(***************************************************************************)
LEMMA RemainingIInv ==
  ASSUME IInv, NEW o \in Owners, NEW a \in Attributes, Remaining(o, a, now)
  PROVE  IInv'
<1>1. State /\ policy_for(a) # NoPolicy
  BY DEF IInv, Remaining
<1>2. policy_for(a) \in Policies
  BY <1>1, PolicyInForce
<1> QED BY <1>1, <1>2, RecentIsTail, PruneIInv DEF Remaining

(***************************************************************************)
(* What an admitted query by a requestor that is not exempt tells of the   *)
(* history: no limit of the policy was reached.                            *)
(***************************************************************************)
LEMMA AdmittedHasRoom ==
  ASSUME State, NEW o \in Owners, NEW r \in Requestors, NEW a \in Attributes,
         policy_for(a) # NoPolicy, r \notin policy_for(a).exempt,
         Decision(o, r, a, now) = "allow"
  PROVE  LET p == policy_for(a)
             h == history[<<o, p.group>>]
         IN  /\ Cardinality(Held(h, now, p.tau, Requestors)) < per_window(p)
             /\ Cardinality(Held(h, now, DAY, Requestors)) < p.daily_quota
             /\ Cardinality(Held(h, now, DAY, {r})) < p.requestor_share
<1> DEFINE p == policy_for(a)
           d == <<o, p.group>>
           h == history[d]
<1>1. p \in Policies /\ d \in Datum
  BY PolicyInForce
<1>2. LimitsFor(p, d, r) = "allow"
  BY DecisionFromHistory DEF Governed
<1>3. h \in Seq(Use)
  BY <1>1 DEF State, TypeOK
<1>4. per_window(p) \in Nat /\ p.daily_quota \in Nat /\ p.requestor_share \in Nat
  BY <1>1, PolicyFacts
<1> HIDE DEF p, d
<1>5. \A span, R : Cardinality(Held(h, now, span, R)) \in Nat
  BY <1>3, PlacesFinite DEF Held
<1> DEFINE w == Cardinality(Held(h, now, p.tau, Requestors))
           c == Cardinality(Held(h, now, DAY, Requestors))
           s == Cardinality(Held(h, now, DAY, {r}))
<1>6. w \in Nat /\ c \in Nat /\ s \in Nat
  BY <1>5
<1>7. Judge(p, w, c, s) = "allow"
  BY <1>2 DEF LimitsFor
<1> HIDE DEF w, c, s
<1>8. w < per_window(p) /\ c < p.daily_quota /\ s < p.requestor_share
  BY <1>4, <1>6, <1>7 DEF Judge
<1> QED BY <1>8 DEF w, c, s, p, d

(***************************************************************************)
(* Recording an admitted query keeps one interval of its datum within one  *)
(* of the limits.                                                          *)
(***************************************************************************)
LEMMA ChargeWithinLimit ==
  ASSUME State, NEW o \in Owners, NEW r \in Requestors, NEW a \in Attributes,
         policy_for(a) # NoPolicy, NEW t \in Nat, NEW span \in Nat, NEW n \in Nat, NEW R,
         LET p == policy_for(a)
             h == history[<<o, p.group>>]
         IN  /\ Cardinality(Held(h, t, span, R)) <= n
             /\ r \notin p.exempt /\ r \in R => Cardinality(Held(h, now, span, R)) < n
  PROVE  LET p == policy_for(a)
             h == history[<<o, p.group>>]
         IN  Cardinality(Held(Append(h, Recorded(p, r, now)), t, span, R)) <= n
<1> DEFINE p == policy_for(a)
           d == <<o, p.group>>
           h == history[d]
           u == Recorded(p, r, now)
<1>1. d \in Datum
  BY PolicyInForce
<1>2. h \in Seq(Use) /\ now \in Nat
  BY <1>1, NowType DEF State, TypeOK
<1>3. u \in Use /\ u.at = now /\ u.requestor_id = r /\ u.exempt = (r \in p.exempt)
  BY <1>2 DEF Recorded, Use
<1>4. \A i \in DOMAIN h : h[i].at <= u.at
  BY <1>1, <1>3 DEF State, HistoryOrdered, Ordered
<1>5. Cardinality(Held(h, t, span, R)) <= n
  OBVIOUS
<1>6. ~u.exempt /\ u.requestor_id \in R => Cardinality(Held(h, u.at, span, R)) < n
  BY <1>3
<1> HIDE DEF p, d, h, u
<1>7. Cardinality(Held(Append(h, u), t, span, R)) <= n
  BY <1>2, <1>3, <1>4, <1>5, <1>6, HeldAfterAppend
<1> QED BY <1>7 DEF p, d, h, u

(***************************************************************************)
(* A use of this instant at the end of a history and of its deque keeps    *)
(* them ordered and in step.                                               *)
(***************************************************************************)
LEMMA AppendOrdered ==
  ASSUME NEW h \in Seq(Use), NEW u \in Use, NEW t \in Nat, u.at = t, Ordered(h, t)
  PROVE  Ordered(Append(h, u), t)
<1> DEFINE g == Append(h, u)
           L == Len(h)
<1>1. L \in Nat /\ DOMAIN h = 1..L /\ DOMAIN g = 1..L + 1
  OBVIOUS
<1>2. g[L + 1] = u /\ \A i \in 1..L : g[i] = h[i]
  OBVIOUS
<1> HIDE DEF g, L
<1>3. \A i \in DOMAIN g : g[i].at <= t
  BY <1>1, <1>2 DEF Ordered
<1>4. ASSUME NEW i \in DOMAIN g, NEW j \in DOMAIN g, i <= j
      PROVE  g[i].at <= g[j].at
  <2>1. CASE j = L + 1
    BY <1>2, <1>3, <2>1
  <2>2. CASE j # L + 1
    <3>1. i \in 1..L /\ j \in 1..L
      BY <1>1, <1>4, <2>2
    <3> QED BY <1>1, <1>2, <1>4, <3>1 DEF Ordered
  <2> QED BY <2>1, <2>2
<1>5. Ordered(g, t)
  BY <1>3, <1>4 DEF Ordered
<1> QED BY <1>5 DEF g

(***************************************************************************)
(* A deque that lacks only old uses of the history still does when the     *)
(* same use is appended to both.                                           *)
(***************************************************************************)
LEMMA AppendTail ==
  ASSUME NEW s \in Seq(Use), NEW h \in Seq(Use), NEW u \in Use, NEW t, FreshTail(s, h, t)
  PROVE  FreshTail(Append(s, u), Append(h, u), t)
<1>1. PICK m \in Nat : TailFrom(s, h, m, t)
  BY DEF FreshTail
<1> DEFINE q == Append(s, u)
           g == Append(h, u)
           K == Len(s)
           L == Len(h)
<1>2. K \in Nat /\ L \in Nat /\ Len(q) = K + 1 /\ Len(g) = L + 1
  OBVIOUS
<1>3. /\ q[K + 1] = u /\ \A i \in 1..K : q[i] = s[i]
      /\ g[L + 1] = u /\ \A i \in 1..L : g[i] = h[i]
  OBVIOUS
<1>4. m \in 0..L /\ K = L - m
      /\ (\A i \in 1..K : s[i] = h[i + m]) /\ \A i \in 1..m : Stale(h[i], t)
  BY <1>1 DEF TailFrom
<1> HIDE DEF q, g, K, L
<1>5. ASSUME NEW i \in 1..K + 1 PROVE q[i] = g[i + m]
  <2>1. CASE i = K + 1
    <3>1. i + m = L + 1
      BY <1>2, <1>4, <2>1
    <3> QED BY <1>3, <2>1, <3>1
  <2>2. CASE i # K + 1
    <3>1. i \in 1..K /\ i + m \in 1..L
      BY <1>2, <1>4, <2>2
    <3> QED BY <1>3, <1>4, <3>1
  <2> QED BY <2>1, <2>2
<1>6. ASSUME NEW i \in 1..m PROVE Stale(g[i], t)
  <2>1. i \in 1..L
    BY <1>2, <1>4
  <2> QED BY <1>3, <1>4, <2>1
<1>7. m \in 0..L + 1 /\ K + 1 = (L + 1) - m
  BY <1>2, <1>4
<1>8. TailFrom(q, g, m, t)
  BY <1>2, <1>5, <1>6, <1>7 DEF TailFrom
<1> QED BY <1>8 DEF FreshTail, q, g

(***************************************************************************)
(* A query that check admits and consume records preserves the invariant.  *)
(***************************************************************************)
LEMMA ChargeIInv ==
  ASSUME IInv, NEW o \in Owners, NEW r \in Requestors, NEW a \in Attributes,
         CheckAndConsume(o, r, a, now)
  PROVE  IInv'
<1> DEFINE p == policy_for(a)
           d == <<o, p.group>>
           h == history[d]
           u == Recorded(p, r, now)
           s == AfterCheck(o, r, a, now)
<1>1. State /\ p # NoPolicy
  BY DEF IInv, CheckAndConsume
<1>2. /\ p \in Policies /\ d \in Datum /\ policies[p.group] = p
      /\ p.group \in Groups /\ d[2] = p.group
  BY <1>1, PolicyInForce, PolicyFacts
<1>3. h \in Seq(Use) /\ history \in [Datum -> Seq(Use)] /\ now \in Nat
  BY <1>1, <1>2, NowType DEF State, TypeOK
<1>4. u \in Use /\ u.at = now
  BY <1>3 DEF Recorded, Use
<1>5. s \in [Datum -> Seq(Use)] /\ \A e \in Datum : FreshTail(s[e], history[e], now)
  BY <1>1, AfterCheckIsTail
<1>6. /\ uses' = [s EXCEPT ![d] = Append(s[d], u)]
      /\ history' = [history EXCEPT ![d] = Append(h, u)]
      /\ UNCHANGED <<policies, group_of, now>>
      /\ Decision(o, r, a, now) = "allow"
  BY DEF CheckAndConsume
<1>7. p.tau \in Nat /\ DAY \in Nat /\ per_window(p) \in Nat
      /\ p.daily_quota \in Nat /\ p.requestor_share \in Nat
  BY <1>2, PolicyFacts, DayAssumption
<1>8. ASSUME r \notin p.exempt
      PROVE  /\ Cardinality(Held(h, now, p.tau, Requestors)) < per_window(p)
             /\ Cardinality(Held(h, now, DAY, Requestors)) < p.daily_quota
             /\ Cardinality(Held(h, now, DAY, {r})) < p.requestor_share
  BY <1>1, <1>6, <1>8, AdmittedHasRoom
<1>9. ASSUME NEW t \in Times, NEW span \in Nat, NEW n \in Nat, NEW R,
             Cardinality(Held(h, t, span, R)) <= n,
             r \notin p.exempt /\ r \in R => Cardinality(Held(h, now, span, R)) < n
      PROVE  Cardinality(Held(Append(h, u), t, span, R)) <= n
  <2>1. t \in Nat
    BY BoundsAssumption DEF Times
  <2> QED BY <1>1, <1>9, <2>1, ChargeWithinLimit
<1> HIDE DEF p, d, h, u, s
<1>10. \A e \in Datum : history'[e] = IF e = d THEN Append(h, u) ELSE history[e]
  BY <1>2, <1>3, <1>6
<1>11. \A e \in Datum : uses'[e] = IF e = d THEN Append(s[d], u) ELSE s[e]
  BY <1>2, <1>5, <1>6
<1>12. h = history[d]
  BY DEF h
<1>13. State'
  <2>1. TypeOK'
    BY <1>1, <1>2, <1>3, <1>4, <1>5, <1>6 DEF State, TypeOK
  <2>2. (PoliciesNamed /\ GroupsAgree)'
    BY <1>1, <1>6 DEF State, PoliciesNamed, GroupsAgree
  <2>3. UnusedBefore'
    BY <1>1, <1>2, <1>6, <1>10 DEF State, UnusedBefore
  <2>4. HistoryOrdered'
    <3>1. Ordered(Append(h, u), now)
      BY <1>1, <1>2, <1>3, <1>4, <1>12, AppendOrdered DEF State, HistoryOrdered
    <3> QED BY <1>1, <1>6, <1>10, <3>1 DEF State, HistoryOrdered
  <2>5. UsesAreTail'
    <3>1. FreshTail(Append(s[d], u), Append(h, u), now)
      BY <1>2, <1>3, <1>4, <1>5, <1>12, AppendTail
    <3> QED BY <1>5, <1>6, <1>10, <1>11, <3>1 DEF UsesAreTail
  <2> QED BY <2>1, <2>2, <2>3, <2>4, <2>5 DEF State
<1>14. WindowBound'
  <2> SUFFICES ASSUME NEW e \in Datum, policies[e[2]] # NoPolicy, NEW t \in Times
               PROVE  Cardinality(Held(history'[e], t, policies[e[2]].tau, Requestors))
                        <= per_window(policies[e[2]])
    BY <1>6 DEF WindowBound, Bounded
  <2>1. Cardinality(Held(history[e], t, policies[e[2]].tau, Requestors))
          <= per_window(policies[e[2]])
    BY DEF IInv, Bounds, WindowBound, Bounded
  <2>2. CASE e = d
    BY <1>2, <1>7, <1>8, <1>9, <1>10, <1>12, <2>1, <2>2
  <2>3. CASE e # d
    BY <1>10, <2>1, <2>3
  <2> QED BY <2>2, <2>3
<1>15. DailyBound'
  <2> SUFFICES ASSUME NEW e \in Datum, policies[e[2]] # NoPolicy, NEW t \in Times
               PROVE  Cardinality(Held(history'[e], t, DAY, Requestors))
                        <= policies[e[2]].daily_quota
    BY <1>6 DEF DailyBound, Bounded
  <2>1. Cardinality(Held(history[e], t, DAY, Requestors)) <= policies[e[2]].daily_quota
    BY DEF IInv, Bounds, DailyBound, Bounded
  <2>2. CASE e = d
    BY <1>2, <1>7, <1>8, <1>9, <1>10, <1>12, <2>1, <2>2
  <2>3. CASE e # d
    BY <1>10, <2>1, <2>3
  <2> QED BY <2>2, <2>3
<1>16. ShareBound'
  <2> SUFFICES ASSUME NEW e \in Datum, NEW x \in Requestors,
                      policies[e[2]] # NoPolicy, NEW t \in Times
               PROVE  Cardinality(Held(history'[e], t, DAY, {x}))
                        <= policies[e[2]].requestor_share
    BY <1>6 DEF ShareBound, Bounded
  <2>1. Cardinality(Held(history[e], t, DAY, {x})) <= policies[e[2]].requestor_share
    BY DEF IInv, Bounds, ShareBound, Bounded
  <2>2. CASE e = d
    <3>1. r \notin p.exempt /\ r \in {x}
            => Cardinality(Held(h, now, DAY, {x})) < p.requestor_share
      BY <1>8
    <3> QED BY <1>2, <1>7, <1>9, <1>10, <1>12, <2>1, <2>2, <3>1
  <2>3. CASE e # d
    BY <1>10, <2>1, <2>3
  <2> QED BY <2>2, <2>3
<1> QED BY <1>13, <1>14, <1>15, <1>16 DEF IInv, Bounds

(***************************************************************************)
(* The invariant is inductive.                                             *)
(***************************************************************************)
LEMMA NextIInv == IInv /\ [Next]_vars => IInv'
<1> SUFFICES ASSUME IInv, [Next]_vars PROVE IInv'
  OBVIOUS
<1>1. CASE UNCHANGED vars
  <2>1. State'
    BY <1>1 DEF IInv, State, TypeOK, PoliciesNamed, GroupsAgree, UnusedBefore,
                HistoryOrdered, UsesAreTail, vars
  <2>2. Bounds'
    BY <1>1 DEF IInv, Bounds, WindowBound, DailyBound, ShareBound, Bounded, vars
  <2> QED BY <2>1, <2>2 DEF IInv
<1>2. CASE Next
  BY <1>2, TickIInv, AddIInv, CheckIInv, RemainingIInv, ChargeIInv DEF Next, Operation
<1> QED BY <1>1, <1>2

-----------------------------------------------------------------------------
(* The theorems.                                                           *)

(***************************************************************************)
(* The strengthening the safety theorems rest on: the bounds hold because  *)
(* a deque has only ever forgotten uses too old to matter.                 *)
(***************************************************************************)
THEOREM BudgetInvariant == Spec => []IInv
<1> QED BY InitIInv, NextIInv, PTL DEF Spec

(***************************************************************************)
(* The dictionaries and deques of LeakageBudget keep their types, and so   *)
(* does the clock.                                                         *)
(***************************************************************************)
THEOREM TypeCorrect == Spec => []TypeOK
<1>1. IInv => TypeOK
  BY DEF IInv, State
<1> QED BY <1>1, BudgetInvariant, PTL

(***************************************************************************)
(* add keeps the registered policies and the groups of attributes in step. *)
(***************************************************************************)
THEOREM GroupsAlwaysAgree == Spec => []GroupsAgree
<1>1. IInv => GroupsAgree
  BY DEF IInv, State
<1> QED BY <1>1, BudgetInvariant, PTL

(***************************************************************************)
(* No retention window ever holds more than n_tau counted queries about a  *)
(* datum, whoever asked and through whichever attribute of its group       *)
(* (leakage.py: check, consume, _recent).                                  *)
(***************************************************************************)
THEOREM WindowIsBounded == Spec => []WindowBound
<1>1. IInv => WindowBound
  BY DEF IInv, Bounds
<1> QED BY <1>1, BudgetInvariant, PTL

(***************************************************************************)
(* No interval of a day, wherever it starts, holds more counted queries    *)
(* about a datum than its daily quota.                                     *)
(***************************************************************************)
THEOREM DayIsBounded == Spec => []DailyBound
<1>1. IInv => DailyBound
  BY DEF IInv, Bounds
<1> QED BY <1>1, BudgetInvariant, PTL

(***************************************************************************)
(* No interval of a day holds more counted queries of one requestor than   *)
(* its share.                                                              *)
(***************************************************************************)
THEOREM ShareIsBounded == Spec => []ShareBound
<1>1. IInv => ShareBound
  BY DEF IInv, Bounds
<1> QED BY <1>1, BudgetInvariant, PTL

(***************************************************************************)
(* The pruned deque and the whole past lead to one verdict.                *)
(***************************************************************************)
LEMMA InvariantDecides == IInv => DecisionIsIdeal
BY DecisionFromHistory DEF IInv, DecisionIsIdeal, LimitsFor

(***************************************************************************)
(* check decides over the pruned deque as it would over everything that    *)
(* was ever recorded.                                                      *)
(***************************************************************************)
THEOREM PruningIsInvisible == Spec => []DecisionIsIdeal
<1> QED BY InvariantDecides, BudgetInvariant, PTL

(***************************************************************************)
(* remaining reports what the queries of the last day leave of the daily   *)
(* quota, which is never overdrawn.                                        *)
(***************************************************************************)
THEOREM RemainingExact == Spec => []RemainingIsExact
<1>1. IInv => RemainingIsExact
  <2> SUFFICES ASSUME IInv, NEW o \in Owners, NEW a \in Attributes,
                      policy_for(a) # NoPolicy
               PROVE  LET p == policy_for(a)
                      IN  RemainingOf(o, a, now)
                            + Cardinality(Held(history[<<o, p.group>>], now, DAY, Requestors))
                          = p.daily_quota
    BY DEF RemainingIsExact
  <2> DEFINE p == policy_for(a)
             d == <<o, p.group>>
             used == Cardinality(Held(history[d], now, DAY, Requestors))
  <2>1. p \in Policies /\ d \in Datum /\ policies[d[2]] = p /\ p # NoPolicy
    BY PolicyInForce DEF IInv
  <2>2. p.daily_quota \in Nat
    BY <2>1, PolicyFacts
  <2>3. RemainingOf(o, a, now)
          = LET used_ == Cardinality(Counted(Pruned(uses[d], now), now, Requestors))
            IN  IF used_ < p.daily_quota THEN p.daily_quota - used_ ELSE 0
    BY DEF RemainingOf
  <2> HIDE DEF p, d
  <2>4. Cardinality(Counted(Pruned(uses[d], now), now, Requestors)) = used
    BY <2>1, VerdictFromHistory DEF IInv
  <2>5. used \in Nat
    <3>1. history[d] \in Seq(Use)
      BY <2>1 DEF IInv, State, TypeOK
    <3> QED BY <3>1, PlacesFinite DEF Held
  <2>6. used <= p.daily_quota
    <3>1. now \in Times
      BY DEF IInv, State, TypeOK
    <3> QED BY <2>1, <3>1 DEF IInv, Bounds, DailyBound, Bounded
  <2> HIDE DEF used
  <2>7. RemainingOf(o, a, now) + used = p.daily_quota
    BY <2>2, <2>3, <2>4, <2>5, <2>6
  <2> QED BY <2>7 DEF p, d, used
<1> QED BY <1>1, BudgetInvariant, PTL

(***************************************************************************)
(* A day from now nothing that was recorded counts any more.               *)
(***************************************************************************)
LEMMA InvariantRenews == IInv => RenewsWithinADay
<1> SUFFICES ASSUME IInv, NEW o \in Owners, NEW a \in Attributes,
                    NEW r \in Requestors, Governed(r, a)
             PROVE  Decision(o, r, a, now + DAY) = "allow"
  BY DEF RenewsWithinADay, Decision
<1> DEFINE p == policy_for(a)
           d == <<o, p.group>>
           q == Pruned(uses[d], now + DAY)
           h == history[d]
<1>1. p \in Policies /\ d \in Datum
  BY PolicyInForce DEF IInv, Governed
<1>2. now \in Nat /\ DAY \in Nat /\ now + DAY \in Nat
  BY NowType, DayAssumption DEF IInv, State
<1>3. Decision(o, r, a, now + DAY) = Verdict(p, q, r, now + DAY)
  BY DEF Decision
<1> HIDE DEF p, d
<1>4. uses[d] \in Seq(Use) /\ h \in Seq(Use) /\ Ordered(h, now)
  BY <1>1 DEF IInv, State, TypeOK, HistoryOrdered
<1>5. \A i \in 1..Len(h) : Stale(h[i], now + DAY)
  <2> SUFFICES ASSUME NEW i \in 1..Len(h) PROVE h[i].at + DAY <= now + DAY
    BY DEF Stale
  <2>1. i \in DOMAIN h
    BY <1>4
  <2>2. h[i].at \in Nat /\ h[i].at <= now
    BY <1>4, <2>1, UseType DEF Ordered
  <2> QED BY <1>2, <2>2
<1>6. FreshTail(uses[d], h, now + DAY)
  <2>1. PICK m \in Nat : TailFrom(uses[d], h, m, now)
    BY <1>1 DEF IInv, State, UsesAreTail, FreshTail
  <2>2. \A i \in 1..m : Stale(h[i], now + DAY)
    BY <1>4, <1>5, <2>1 DEF TailFrom
  <2> QED BY <2>1, <2>2 DEF TailFrom, FreshTail
<1>7. q = <<>>
  <2>1. q \in Seq(Use)
        /\ \E m \in Nat : /\ TailFrom(q, h, m, now + DAY)
                          /\ m < Len(h) => ~Stale(h[m + 1], now + DAY)
    BY <1>2, <1>4, <1>6, PrunedIsTail
  <2>2. PICK m \in Nat : /\ m \in 0..Len(h) /\ Len(q) = Len(h) - m
                         /\ m < Len(h) => ~Stale(h[m + 1], now + DAY)
    BY <2>1 DEF TailFrom
  <2>3. Len(h) \in Nat
    BY <1>4
  <2>4. ~ (m < Len(h))
    BY <1>5, <2>2, <2>3
  <2>5. Len(q) = 0
    BY <2>2, <2>3, <2>4
  <2> QED BY <2>1, <2>5
<1>8. /\ Counted(q, now + DAY, Requestors) = {}
      /\ Counted(q, now + DAY, {r}) = {}
      /\ InWindow(p, q, now + DAY) = {}
  BY <1>7 DEF Counted, InWindow
<1>9. per_window(p) \in Nat \ {0} /\ p.daily_quota \in Nat \ {0}
      /\ p.requestor_share \in Nat \ {0}
  BY <1>1, PoliciesAssumption, PolicyFacts DEF ValidPolicy
<1> HIDE DEF q
<1>10. Verdict(p, q, r, now + DAY) = Judge(p, 0, 0, 0)
  BY <1>8, FS_EmptySet DEF Verdict
<1>11. Judge(p, 0, 0, 0) = "allow"
  BY <1>9 DEF Judge
<1> QED BY <1>3, <1>10, <1>11

(***************************************************************************)
(* The budget renews: a day after any instant every requestor is admitted. *)
(***************************************************************************)
THEOREM BudgetRenews == Spec => []RenewsWithinADay
<1> QED BY InvariantRenews, BudgetInvariant, PTL

(***************************************************************************)
(* What one requestor was charged is below every limit on the others.      *)
(***************************************************************************)
LEMMA InvariantShares == IInv => OneRequestorCannotBlock
<1> SUFFICES ASSUME IInv, NEW o \in Owners, NEW a \in Attributes,
                    NEW r \in Requestors, policy_for(a) # NoPolicy,
                    policy_for(a).requestor_share < per_window(policy_for(a)),
                    LET h == history[<<o, policy_for(a).group>>]
                    IN  Held(h, now, DAY, Requestors) = Held(h, now, DAY, {r}),
                    NEW other \in Requestors \ {r}
             PROVE  Decision(o, other, a, now) = "allow"
  BY DEF OneRequestorCannotBlock
<1> DEFINE p == policy_for(a)
           d == <<o, p.group>>
           h == history[d]
           c == Cardinality(Held(h, now, DAY, Requestors))
           w == Cardinality(Held(h, now, p.tau, Requestors))
<1>1. p \in Policies /\ d \in Datum /\ policies[d[2]] = p /\ p # NoPolicy
  BY PolicyInForce DEF IInv
<1>2. /\ Held(h, now, DAY, Requestors) = Held(h, now, DAY, {r})
      /\ p.requestor_share < per_window(p)
      /\ Governed(other, a) => Decision(o, other, a, now) = LimitsFor(p, d, other)
      /\ ~Governed(other, a) => Decision(o, other, a, now) = "allow"
  BY DecisionFromHistory DEF IInv, Decision
<1> HIDE DEF p, d
<1>3. h \in Seq(Use) /\ now \in Times
  BY <1>1 DEF IInv, State, TypeOK
<1>4. /\ per_window(p) \in Nat /\ p.tau \in 1..DAY /\ DAY \in Nat
      /\ p.requestor_share \in 1..p.daily_quota - 1 /\ p.daily_quota \in Nat
      /\ p.requestor_share < per_window(p)
  BY <1>1, <1>2, PolicyFacts, PoliciesAssumption, DayAssumption DEF ValidPolicy
<1>5. /\ IsFiniteSet(Held(h, now, DAY, Requestors))
      /\ c \in Nat /\ w \in Nat
  BY <1>3, PlacesFinite DEF Held
<1>6. c <= p.requestor_share
  BY <1>1, <1>2, <1>3 DEF IInv, Bounds, ShareBound, Bounded
<1>7. w <= c
  <2>1. Held(h, now, p.tau, Requestors) \subseteq Held(h, now, DAY, Requestors)
    <3> SUFFICES ASSUME NEW i \in Held(h, now, p.tau, Requestors)
                 PROVE  now < h[i].at + DAY
      BY DEF Held
    <3>1. i \in DOMAIN h /\ now < h[i].at + p.tau
      BY DEF Held
    <3>2. h[i].at \in Nat /\ now \in Nat
      BY <1>3, <3>1, UseType, BoundsAssumption DEF Times
    <3> QED BY <1>4, <3>1, <3>2
  <2> QED BY <1>5, <2>1, FS_Subset
<1>8. Held(h, now, DAY, {other}) = {}
  <2>1. \A i \in Held(h, now, DAY, {other}) : i \in Held(h, now, DAY, Requestors)
    BY DEF Held
  <2>2. \A i \in Held(h, now, DAY, {other}) : i \notin Held(h, now, DAY, {r})
    BY DEF Held
  <2> QED BY <1>2, <2>1, <2>2
<1>9. LimitsFor(p, d, other) = Judge(p, w, c, 0)
  BY <1>8, FS_EmptySet DEF LimitsFor
<1> HIDE DEF w, c
<1>10. Judge(p, w, c, 0) = "allow"
  BY <1>4, <1>5, <1>6, <1>7 DEF Judge
<1> QED BY <1>2, <1>9, <1>10

(***************************************************************************)
(* Where a policy's share is smaller than its n_tau too, no single         *)
(* requestor can keep the others from a datum (leakage.py checks only that *)
(* the share is smaller than the daily quota).                             *)
(***************************************************************************)
THEOREM NobodyBlocks == Spec => []OneRequestorCannotBlock
<1> QED BY InvariantShares, BudgetInvariant, PTL

-----------------------------------------------------------------------------
(* What is stored, and what the answers of one window resolve.             *)

\* The places in a deque of the uses that count.
Stored(s) == {i \in DOMAIN s : ~s[i].exempt}

(***************************************************************************)
(* Pruning a deque stores no more uses that count than before.             *)
(***************************************************************************)
LEMMA PrunedStoresLess ==
  ASSUME NEW s \in Seq(Use), NEW at \in Nat
  PROVE  /\ Pruned(s, at) \in Seq(Use)
         /\ Cardinality(Stored(Pruned(s, at))) <= Cardinality(Stored(s))
<1> DEFINE n == Dropped(s, at)
           q == Pruned(s, at)
           T == {i \in Stored(s) : i > n}
<1>1. n \in 0..Len(s) /\ Len(s) \in Nat /\ DOMAIN s = 1..Len(s)
  BY DroppedStale
<1>2. q \in Seq(Use) /\ Len(q) = Len(s) - n /\ \A i \in 1..Len(q) : q[i] = s[i + n]
  <2>1. q = SubSeq(s, n + 1, Len(s))
    BY DEF Pruned
  <2> HIDE DEF n, q
  <2> QED BY <1>1, <2>1
<1>3. IsFiniteSet(Stored(s)) /\ Cardinality(Stored(s)) \in Nat /\ Stored(s) \subseteq DOMAIN s
  BY PlacesFinite DEF Stored
<1> HIDE DEF n, q
<1>4. Stored(q) \subseteq DOMAIN q
  BY DEF Stored
<1>5. Stored(q) \in SUBSET Nat /\ IsFiniteSet(Stored(q))
  BY <1>2, <1>4, PlacesFinite
<1>6. \A x \in Stored(q) : x + n \in T
  BY <1>1, <1>2, <1>4 DEF Stored
<1>7. ASSUME NEW y \in T PROVE \E x \in Stored(q) : y = x + n
  <2>1. y - n \in 1..Len(q) /\ y = (y - n) + n
    BY <1>1, <1>2, <1>3
  <2> QED BY <1>2, <2>1 DEF Stored
<1>8. Cardinality(Stored(q)) = Cardinality(T)
  <2>1. n \in Nat
    BY <1>1
  <2> HIDE DEF T
  <2> QED BY <1>5, <1>6, <1>7, <2>1, ShiftedCount
<1>9. Cardinality(T) <= Cardinality(Stored(s))
  BY <1>3, FS_Subset
<1> QED BY <1>2, <1>8, <1>9 DEF q

(***************************************************************************)
(* Whether check prunes or not, no deque stores more uses that count.      *)
(***************************************************************************)
LEMMA AfterCheckStoresLess ==
  ASSUME State, NEW o \in Owners, NEW r \in Requestors, NEW a \in Attributes,
         NEW d \in Datum
  PROVE  Cardinality(Stored(AfterCheck(o, r, a, now)[d])) <= Cardinality(Stored(uses[d]))
<1>1. uses \in [Datum -> Seq(Use)] /\ now \in Nat
  BY NowType DEF State, TypeOK
<1>2. Cardinality(Stored(uses[d])) \in Nat
  BY <1>1, PlacesFinite DEF Stored
<1>3. AfterCheck(o, r, a, now)[d] \in {uses[d], Pruned(uses[d], now)}
  BY <1>1 DEF AfterCheck, Recent
<1>4. uses[d] \in Seq(Use)
  BY <1>1
<1>5. Cardinality(Stored(Pruned(uses[d], now))) <= Cardinality(Stored(uses[d]))
  BY <1>1, <1>4, PrunedStoresLess
<1> QED BY <1>2, <1>3, <1>5

(***************************************************************************)
(* What an admitted query that counts finds in the deque it is appended    *)
(* to: fewer uses that count than the daily quota, as check has pruned it. *)
(***************************************************************************)
LEMMA AdmittedHasStorage ==
  ASSUME State, NEW o \in Owners, NEW r \in Requestors, NEW a \in Attributes,
         policy_for(a) # NoPolicy, r \notin policy_for(a).exempt,
         Decision(o, r, a, now) = "allow"
  PROVE  LET p == policy_for(a)
         IN  Cardinality(Stored(AfterCheck(o, r, a, now)[<<o, p.group>>])) < p.daily_quota
<1> DEFINE p == policy_for(a)
           d == <<o, p.group>>
           q == Pruned(uses[d], now)
           h == history[d]
<1>1. p \in Policies /\ d \in Datum
  BY PolicyInForce
<1>2. uses[d] \in Seq(Use) /\ h \in Seq(Use) /\ now \in Nat /\ uses \in [Datum -> Seq(Use)]
  BY <1>1, NowType DEF State, TypeOK
<1>3. AfterCheck(o, r, a, now)[d] = q
  BY <1>1, <1>2 DEF AfterCheck, Governed, Recent
<1>4. Cardinality(Held(h, now, DAY, Requestors)) < p.daily_quota
  BY AdmittedHasRoom
<1> HIDE DEF p, d
<1>5. Cardinality(Counted(q, now, Requestors)) = Cardinality(Held(h, now, DAY, Requestors))
  BY <1>1, VerdictFromHistory
<1>6. q \in Seq(Use) /\ \E m \in Nat : TailFrom(q, h, m, now)
  <2>1. FreshTail(uses[d], h, now)
    BY <1>1 DEF State, UsesAreTail
  <2> QED BY <1>2, <2>1, PrunedIsTail
<1>7. Ordered(h, now)
  BY <1>1 DEF State, HistoryOrdered
<1> HIDE DEF q, h
<1>8. Stored(q) = Counted(q, now, Requestors)
  <2>1. PICK m \in Nat : TailFrom(q, h, m, now)
    BY <1>6
  <2>2. ASSUME NEW i \in DOMAIN q
        PROVE  q[i].at <= now /\ q[i].requestor_id \in Requestors
    <3>1. i + m \in DOMAIN h /\ q[i] = h[i + m]
      BY <1>2, <1>6, <2>1 DEF TailFrom
    <3> QED BY <1>2, <1>7, <3>1, UseType DEF Ordered
  <2> QED BY <2>2 DEF Stored, Counted
<1> QED BY <1>3, <1>4, <1>5, <1>8 DEF p, d

(***************************************************************************)
(* A use appended to a deque is one more stored if it counts, and none     *)
(* otherwise.                                                              *)
(***************************************************************************)
LEMMA StoredAfterAppend ==
  ASSUME NEW s \in Seq(Use), NEW u \in Use
  PROVE  /\ Cardinality(Stored(s)) \in Nat
         /\ Cardinality(Stored(Append(s, u)))
              = Cardinality(Stored(s)) + (IF u.exempt THEN 0 ELSE 1)
<1> DEFINE g == Append(s, u)
           L == Len(s)
<1>1. L \in Nat /\ DOMAIN s = 1..L /\ DOMAIN g = 1..L + 1
  OBVIOUS
<1>2. g[L + 1] = u /\ \A i \in 1..L : g[i] = s[i]
  OBVIOUS
<1>3. IsFiniteSet(Stored(s)) /\ Cardinality(Stored(s)) \in Nat /\ L + 1 \notin Stored(s)
  BY <1>1, PlacesFinite DEF Stored
<1> HIDE DEF g, L
<1>4. Stored(g) = IF u.exempt THEN Stored(s) ELSE Stored(s) \cup {L + 1}
  BY <1>1, <1>2 DEF Stored
<1>5. Cardinality(Stored(s) \cup {L + 1}) = Cardinality(Stored(s)) + 1
  BY <1>3, FS_AddElement
<1>6. Cardinality(Stored(g)) = Cardinality(Stored(s)) + (IF u.exempt THEN 0 ELSE 1)
  <2>1. CASE u.exempt
    BY <1>3, <1>4, <2>1
  <2>2. CASE ~u.exempt
    BY <1>4, <1>5, <2>2
  <2> QED BY <2>1, <2>2
<1> QED BY <1>3, <1>6 DEF g

(***************************************************************************)
(* Every step keeps the deques within the daily quotas.                    *)
(***************************************************************************)
LEMMA StoredStep ==
  IInv /\ StoredWithinQuota /\ [Next]_vars => StoredWithinQuota'
<1> SUFFICES ASSUME IInv, StoredWithinQuota, [Next]_vars,
                    NEW d \in Datum, policies'[d[2]] # NoPolicy
             PROVE  Cardinality(Stored(uses'[d])) <= policies'[d[2]].daily_quota
  BY DEF StoredWithinQuota, Stored
<1> DEFINE p == policies'[d[2]]
           Kept == policies'[d[2]] = policies[d[2]]
<1>1. /\ State /\ d[2] \in Groups
      /\ uses[d] \in Seq(Use) /\ history[d] \in Seq(Use) /\ now \in Nat
  BY NowType DEF IInv, State, TypeOK, Datum
<1>2. Cardinality(Stored(uses[d])) \in Nat
  BY <1>1, PlacesFinite DEF Stored
<1>3. ASSUME Kept
      PROVE  /\ p \in Policies /\ p.daily_quota \in Nat
             /\ Cardinality(Stored(uses[d])) <= p.daily_quota
  <2>1. p \in Policies
    BY <1>1, <1>3 DEF State, TypeOK
  <2> QED BY <1>3, <2>1, PolicyFacts DEF StoredWithinQuota, Stored
<1>4. ASSUME Kept, uses'[d] = uses[d]
      PROVE  Cardinality(Stored(uses'[d])) <= p.daily_quota
  BY <1>3, <1>4
<1>5. CASE Tick \/ UNCHANGED vars
  BY <1>4, <1>5 DEF Tick, vars
<1>6. ASSUME NEW n \in Policies, Add(n)
      PROVE  Cardinality(Stored(uses'[d])) <= p.daily_quota
  <2>1. n.group \in Groups /\ n.daily_quota \in Nat
    BY PolicyFacts
  <2>2. /\ p = IF d[2] = n.group THEN n ELSE policies[d[2]]
        /\ policies[n.group] = NoPolicy
        /\ uses' = uses
    BY <1>1, <1>6, <2>1 DEF Add, State, TypeOK
  <2>3. CASE d[2] = n.group
    <3>1. history[d] = <<>>
      BY <1>1, <2>2, <2>3 DEF State, UnusedBefore
    <3>2. uses[d] = <<>>
      <4>1. PICK m \in Nat : TailFrom(uses[d], history[d], m, now)
        BY <1>1 DEF State, UsesAreTail, FreshTail
      <4>2. Len(uses[d]) = 0
        BY <3>1, <4>1 DEF TailFrom
      <4> QED BY <1>1, <4>2
    <3>3. Stored(uses'[d]) = {}
      BY <2>2, <3>2 DEF Stored
    <3> QED BY <2>1, <2>2, <2>3, <3>3, FS_EmptySet
  <2>4. CASE d[2] # n.group
    BY <1>4, <2>2, <2>4
  <2> QED BY <2>3, <2>4
<1>7. ASSUME NEW o \in Owners, NEW r \in Requestors, NEW a \in Attributes,
             Check(o, r, a, now)
      PROVE  Cardinality(Stored(uses'[d])) <= p.daily_quota
  <2>1. Kept /\ uses'[d] = AfterCheck(o, r, a, now)[d]
    BY <1>7 DEF Check
  <2>2. uses'[d] \in Seq(Use)
    BY <1>1, <2>1, AfterCheckIsTail
  <2>3. Cardinality(Stored(uses'[d])) \in Nat
    BY <2>2, PlacesFinite DEF Stored
  <2>4. Cardinality(Stored(uses'[d])) <= Cardinality(Stored(uses[d]))
    BY <1>1, <2>1, AfterCheckStoresLess
  <2> QED BY <1>2, <1>3, <2>1, <2>3, <2>4
<1>8. ASSUME NEW o \in Owners, NEW a \in Attributes, Remaining(o, a, now)
      PROVE  Cardinality(Stored(uses'[d])) <= p.daily_quota
  <2>1. Kept /\ uses'[d] \in {uses[d], Pruned(uses[d], now)}
    BY <1>1, <1>8 DEF Remaining, Recent, State, TypeOK
  <2>2. Pruned(uses[d], now) \in Seq(Use)
        /\ Cardinality(Stored(Pruned(uses[d], now))) <= Cardinality(Stored(uses[d]))
    BY <1>1, PrunedStoresLess
  <2>3. Cardinality(Stored(Pruned(uses[d], now))) \in Nat
    BY <2>2, PlacesFinite DEF Stored
  <2> QED BY <1>2, <1>3, <2>1, <2>2, <2>3
<1>9. ASSUME NEW o \in Owners, NEW r \in Requestors, NEW a \in Attributes,
             CheckAndConsume(o, r, a, now)
      PROVE  Cardinality(Stored(uses'[d])) <= p.daily_quota
  <2> DEFINE c == policy_for(a)
             e == <<o, c.group>>
             u == Recorded(c, r, now)
             s == AfterCheck(o, r, a, now)
  <2>1. /\ Kept /\ c # NoPolicy /\ Decision(o, r, a, now) = "allow"
        /\ uses' = [s EXCEPT ![e] = Append(s[e], u)]
    BY <1>9 DEF CheckAndConsume
  <2>2. c \in Policies /\ e \in Datum /\ policies[e[2]] = c
    BY <1>1, <2>1, PolicyInForce
  <2>3. u \in Use /\ u.exempt = (r \in c.exempt)
    BY <1>1 DEF Recorded, Use
  <2>4. s \in [Datum -> Seq(Use)]
    BY <1>1, AfterCheckIsTail
  <2>5. Cardinality(Stored(s[d])) \in Nat
    BY <2>4, PlacesFinite DEF Stored
  <2>6. Cardinality(Stored(s[d])) <= Cardinality(Stored(uses[d]))
    BY <1>1, AfterCheckStoresLess
  <2>7. CASE d # e
    <3>1. uses'[d] = s[d]
      BY <2>1, <2>4, <2>7
    <3> QED BY <1>2, <1>3, <2>1, <2>5, <2>6, <3>1
  <2>8. CASE d = e /\ r \in c.exempt
    <3>1. uses'[d] = Append(s[d], u)
      BY <2>1, <2>4, <2>8
    <3>2. Cardinality(Stored(uses'[d])) = Cardinality(Stored(s[d]))
      <4>1. s[d] \in Seq(Use) /\ u.exempt
        BY <2>3, <2>4, <2>8
      <4> HIDE DEF s, u
      <4> QED BY <2>3, <2>5, <3>1, <4>1, StoredAfterAppend
    <3> QED BY <1>2, <1>3, <2>1, <2>5, <2>6, <3>2
  <2>9. CASE d = e /\ r \notin c.exempt
    <3>1. uses'[d] = Append(s[d], u)
      BY <2>1, <2>4, <2>9
    <3>2. Cardinality(Stored(uses'[d])) = Cardinality(Stored(s[d])) + 1
      <4>1. s[d] \in Seq(Use) /\ ~u.exempt
        BY <2>3, <2>4, <2>9
      <4> HIDE DEF s, u
      <4> QED BY <2>3, <2>5, <3>1, <4>1, StoredAfterAppend
    <3>3. Cardinality(Stored(s[e])) < c.daily_quota
      BY <1>1, <2>1, <2>9, AdmittedHasStorage
    <3>4. p = c /\ p.daily_quota \in Nat
      BY <1>3, <2>1, <2>2, <2>9
    <3> QED BY <2>5, <2>9, <3>2, <3>3, <3>4
  <2> QED BY <2>7, <2>8, <2>9
<1> QED BY <1>5, <1>6, <1>7, <1>8, <1>9 DEF Next, Operation

(***************************************************************************)
(* However long the Databank runs, a deque holds no more uses that count   *)
(* than the daily quota: whoever appends one has pruned first              *)
(* (leakage.py: _recent, check and consume).                               *)
(***************************************************************************)
THEOREM StorageIsBounded == Spec => []StoredWithinQuota
<1>1. Init => StoredWithinQuota
  BY DEF Init, StoredWithinQuota, Datum
<1> QED BY <1>1, StoredStep, BudgetInvariant, PTL DEF Spec

(***************************************************************************)
(* answers_to_resolve returns what its name says: so many halvings bring   *)
(* the prior range down to the resolution, and fewer do not.               *)
(***************************************************************************)
LEMMA AnswersResolve ==
  ASSUME PowersOfTwo, NEW p \in Policies
  PROVE  LET k == answers_to_resolve(p.prior_range, p.resolution)
         IN  /\ k \in 1..p.prior_range
             /\ p.prior_range <= p.resolution * 2^k
             /\ \A j \in 1..k - 1 : p.resolution * 2^j < p.prior_range
<1> DEFINE range == p.prior_range
           step == p.resolution
           D == {k \in 1..range : range <= step * 2^k}
<1>1. range \in Nat \ {0} /\ step \in Nat \ {0}
  BY PolicyFacts DEF DatumPolicy
<1> HIDE DEF range, step
<1>2. range \in D
  <2>1. 2^range \in Nat /\ range < 2^range
    BY <1>1, PowersGrow
  <2>2. \A x \in Nat : x <= step * x
    BY <1>1
  <2> QED BY <1>1, <2>1, <2>2
<1>3. D \in SUBSET Nat
  BY <1>1
<1>4. PICK k \in D : \A m \in D : k <= m
  <2> HIDE DEF D
  <2> QED BY <1>2, <1>3, LeastNatural
<1>5. \A j \in 1..k - 1 : step * 2^j < range
  <2> SUFFICES ASSUME NEW j \in 1..k - 1 PROVE step * 2^j < range
    OBVIOUS
  <2>1. j \in 1..range /\ j \notin D /\ j \in Nat
    BY <1>1, <1>3, <1>4
  <2>2. 2^j \in Nat
    BY <2>1 DEF PowersOfTwo
  <2>3. step * 2^j \in Nat
    BY <1>1, <2>2
  <2> QED BY <1>1, <2>1, <2>3
<1>6. \E n \in 1..range :
        /\ range <= step * 2^n
        /\ \A j \in 1..n - 1 : step * 2^j < range
  BY <1>4, <1>5
<1>7. LET n == answers_to_resolve(range, step)
      IN  /\ n \in 1..range
          /\ range <= step * 2^n
          /\ \A j \in 1..n - 1 : step * 2^j < range
  BY <1>6 DEF answers_to_resolve
<1> QED BY <1>7 DEF range, step

(***************************************************************************)
(* "A compliant requestor can hold, at any moment, only the results of     *)
(* queries issued within the preceding tau": the answers of one retention  *)
(* window never pin a datum down to its resolution, however many           *)
(* requestors combine them (leakage.py: answers_to_resolve, per_window).   *)
(***************************************************************************)
THEOREM NoDatumResolved ==
  ASSUME PowersOfTwo
  PROVE  Spec => []DatumUnresolved
<1>1. IInv => DatumUnresolved
  <2> SUFFICES ASSUME IInv, NEW d \in Datum, policies[d[2]] # NoPolicy, NEW t \in Times
               PROVE  LET p == policies[d[2]]
                      IN  p.resolution * 2^Cardinality(Held(history[d], t, p.tau, Requestors))
                            < p.prior_range
    BY DEF DatumUnresolved
  <2> DEFINE p == policies[d[2]]
             c == Cardinality(Held(history[d], t, p.tau, Requestors))
             k == answers_to_resolve(p.prior_range, p.resolution)
  <2>1. p \in Policies /\ history[d] \in Seq(Use)
    BY DEF IInv, State, TypeOK, Datum
  <2>2. c <= per_window(p)
    BY DEF IInv, Bounds, WindowBound, Bounded
  <2> HIDE DEF p
  <2>3. c \in Nat
    BY <2>1, PlacesFinite DEF Held
  <2>4. k \in Nat /\ k - 1 \in Nat \ {0} /\ c <= k - 1
    <3>1. per_window(p) \in Nat \ {0} /\ per_window(p) = k - 1
      BY <2>1, PoliciesAssumption DEF ValidPolicy, per_window
    <3>2. k \in 1..p.prior_range /\ p.prior_range \in Nat
      BY <2>1, AnswersResolve, PolicyFacts DEF DatumPolicy
    <3> QED BY <2>2, <3>1, <3>2
  <2>5. \A j \in 1..k - 1 : p.resolution * 2^j < p.prior_range
    BY <2>1, AnswersResolve
  <2>6. p.resolution \in Nat /\ p.prior_range \in Nat
    BY <2>1, PolicyFacts DEF DatumPolicy
  <2> HIDE DEF k, c
  <2>7. CASE c = 0
    <3>1. 2^0 = 1 /\ 2^(0 + 1) = 2 /\ 0 + 1 = 1
      BY DEF PowersOfTwo
    <3>2. p.resolution * 2 < p.prior_range
      <4>1. 0 + 1 \in 1..k - 1
        BY <2>4
      <4> QED BY <2>5, <3>1, <4>1
    <3>3. p.resolution * 1 < p.prior_range
      BY <2>6, <3>2
    <3>4. 2^c = 1
      BY <2>7, <3>1
    <3>5. p.resolution * 2^c < p.prior_range
      BY <3>3, <3>4
    <3> QED BY <3>5 DEF p, c
  <2>8. CASE c # 0
    <3>1. c \in 1..k - 1
      BY <2>3, <2>4, <2>8
    <3>2. p.resolution * 2^c < p.prior_range
      BY <2>5, <3>1
    <3> QED BY <3>2 DEF p, c
  <2> QED BY <2>7, <2>8
<1> QED BY <1>1, BudgetInvariant, PTL

-----------------------------------------------------------------------------
(* Whatever instants the callers name.                                     *)

\* The part of the invariant that owes nothing to the clock, and any step of
\* the budget, at whatever instant its caller names.
Registered == TypeOK /\ PoliciesNamed /\ GroupsAgree /\ UnusedBefore

AnyStep == Tick \/ (\E p \in Policies : Add(p)) \/ (\E at \in Times : Operation(at))

(***************************************************************************)
(* The policy in force for an attribute is registered under its group.     *)
(***************************************************************************)
LEMMA RegisteredPolicy ==
  ASSUME Registered, NEW o \in Owners, NEW a \in Attributes, policy_for(a) # NoPolicy
  PROVE  /\ policy_for(a) \in Policies
         /\ policies[policy_for(a).group] = policy_for(a)
         /\ a \in policy_for(a).attributes
         /\ <<o, policy_for(a).group>> \in Datum
<1>1. group_of[a] # NoGroup /\ policy_for(a) = policies[group_of[a]]
  BY DEF policy_for
<1>2. group_of[a] \in Groups
  BY <1>1 DEF Registered, TypeOK
<1>3. policy_for(a) \in Policies /\ policy_for(a).group = group_of[a]
  BY <1>1, <1>2 DEF Registered, TypeOK, PoliciesNamed
<1>4. a \in policy_for(a).attributes
  BY <1>1, <1>2 DEF Registered, GroupsAgree
<1> QED BY <1>1, <1>2, <1>3, <1>4 DEF Datum

(***************************************************************************)
(* Pruning one deque, at whatever instant, leaves deques of uses.          *)
(***************************************************************************)
LEMMA PruningTyped ==
  ASSUME Registered, NEW o \in Owners, NEW p, NEW at \in Nat
  PROVE  Recent(o, p, at) \in [Datum -> Seq(Use)]
<1>1. uses \in [Datum -> Seq(Use)]
  BY DEF Registered, TypeOK
<1>2. \A s \in Seq(Use) : Pruned(s, at) \in Seq(Use)
  BY PrunedStoresLess
<1> QED BY <1>1, <1>2 DEF Recent

(***************************************************************************)
(* No operation, at whatever instant, breaks the types or the dictionaries.*)
(***************************************************************************)
LEMMA RegisteredStep == Registered /\ [AnyStep]_vars => Registered'
<1> SUFFICES ASSUME Registered, [AnyStep]_vars PROVE Registered'
  OBVIOUS
<1>1. CASE UNCHANGED vars
  BY <1>1 DEF Registered, TypeOK, PoliciesNamed, GroupsAgree, UnusedBefore, vars
<1>2. CASE Tick
  BY <1>2, BoundsAssumption
     DEF Registered, TypeOK, PoliciesNamed, GroupsAgree, UnusedBefore, Tick, Times
<1>3. ASSUME NEW p \in Policies, Add(p) PROVE Registered'
  <2>1. /\ policies[p.group] = NoPolicy
        /\ \A a \in p.attributes : group_of[a] = NoGroup
        /\ policies' = [policies EXCEPT ![p.group] = p]
        /\ group_of' = [a \in Attributes |->
                          IF a \in p.attributes THEN p.group ELSE group_of[a]]
        /\ UNCHANGED <<uses, history, now>>
    BY <1>3 DEF Add
  <2>2. p.group \in Groups /\ p.attributes \subseteq Attributes /\ p # NoPolicy
    BY PolicyFacts
  <2>3. \A g \in Groups : policies'[g] = IF g = p.group THEN p ELSE policies[g]
    BY <2>1, <2>2 DEF Registered, TypeOK
  <2>4. TypeOK' /\ PoliciesNamed'
    BY <2>1, <2>2, <2>3 DEF Registered, TypeOK, PoliciesNamed
  <2>5. GroupsAgree'
    <3> SUFFICES ASSUME NEW a \in Attributes, NEW g \in Groups
                 PROVE  group_of'[a] = g
                          <=> policies'[g] # NoPolicy /\ a \in policies'[g].attributes
      BY DEF GroupsAgree
    <3>1. group_of[a] = g <=> policies[g] # NoPolicy /\ a \in policies[g].attributes
      BY DEF Registered, GroupsAgree
    <3>2. group_of'[a] = IF a \in p.attributes THEN p.group ELSE group_of[a]
      BY <2>1
    <3>3. NoGroup # g
      BY SentinelAssumption
    <3> QED BY <2>1, <2>2, <2>3, <3>1, <3>2, <3>3
  <2>6. UnusedBefore'
    BY <2>1, <2>2, <2>3 DEF Registered, UnusedBefore, Datum
  <2> QED BY <2>4, <2>5, <2>6 DEF Registered
<1>4. ASSUME NEW o \in Owners, NEW r \in Requestors, NEW a \in Attributes,
             NEW at \in Times, Check(o, r, a, at)
      PROVE  Registered'
  <2>1. at \in Nat
    BY BoundsAssumption DEF Times
  <2>2. uses' \in [Datum -> Seq(Use)]
    BY <1>4, <2>1, PruningTyped DEF Check, AfterCheck, Registered, TypeOK
  <2> QED BY <1>4, <2>2
          DEF Check, Registered, TypeOK, PoliciesNamed, GroupsAgree, UnusedBefore
<1>5. ASSUME NEW o \in Owners, NEW r \in Requestors, NEW a \in Attributes,
             NEW at \in Times, CheckAndConsume(o, r, a, at)
      PROVE  Registered'
  <2> DEFINE p == policy_for(a)
             d == <<o, p.group>>
             u == Recorded(p, r, at)
             s == AfterCheck(o, r, a, at)
  <2>1. /\ p # NoPolicy
        /\ uses' = [s EXCEPT ![d] = Append(s[d], u)]
        /\ history' = [history EXCEPT ![d] = Append(history[d], u)]
        /\ UNCHANGED <<policies, group_of, now>>
    BY <1>5 DEF CheckAndConsume
  <2>2. d \in Datum /\ policies[d[2]] # NoPolicy /\ at \in Nat
    BY <2>1, RegisteredPolicy, BoundsAssumption DEF Times
  <2>3. s \in [Datum -> Seq(Use)]
    BY <2>2, PruningTyped DEF AfterCheck, Registered, TypeOK
  <2>4. u \in Use
    BY <2>2 DEF Recorded, Use
  <2> HIDE DEF d, s, u
  <2>5. TypeOK'
    BY <2>1, <2>2, <2>3, <2>4 DEF Registered, TypeOK
  <2>6. UnusedBefore'
    BY <2>1, <2>2 DEF Registered, TypeOK, UnusedBefore
  <2> QED BY <2>1, <2>5, <2>6 DEF Registered, PoliciesNamed, GroupsAgree
<1>6. ASSUME NEW o \in Owners, NEW a \in Attributes, NEW at \in Times, Remaining(o, a, at)
      PROVE  Registered'
  <2>1. at \in Nat
    BY BoundsAssumption DEF Times
  <2> QED BY <1>6, <2>1, PruningTyped
          DEF Remaining, Registered, TypeOK, PoliciesNamed, GroupsAgree, UnusedBefore
<1> QED BY <1>1, <1>2, <1>3, <1>4, <1>5, <1>6 DEF AnyStep, Operation

(***************************************************************************)
(* A budget starts registered.                                             *)
(***************************************************************************)
LEMMA InitRegistered == Init => Registered
BY InitIInv DEF IInv, State, Registered

(***************************************************************************)
(* Whatever instants the callers name, in whatever order, the dictionaries *)
(* and deques keep their types and agree (leakage.py: add, check, consume  *)
(* take `at` from the query).                                              *)
(***************************************************************************)
THEOREM ReplayTypeCorrect == ReplaySpec => [](TypeOK /\ GroupsAgree)
<1>1. Registered /\ [ReplayNext]_vars => Registered'
  BY RegisteredStep DEF ReplayNext, AnyStep
<1>2. Registered => TypeOK /\ GroupsAgree
  BY DEF Registered
<1> QED BY <1>1, <1>2, InitRegistered, PTL DEF ReplaySpec

(***************************************************************************)
(* What is left of a deque when its first n uses are dropped.              *)
(***************************************************************************)
LEMMA DroppingUses ==
  ASSUME NEW s \in Seq(Use), NEW n \in 0..Len(s)
  PROVE  LET q == SubSeq(s, n + 1, Len(s))
         IN  /\ q \in Seq(Use)
             /\ Len(q) = Len(s) - n
             /\ \A i \in 1..Len(s) - n : q[i] = s[i + n]
OBVIOUS

(***************************************************************************)
(* The loop of _recent has only one place to stop at.                      *)
(***************************************************************************)
LEMMA DroppedOnly ==
  ASSUME NEW s \in Seq(Use), NEW at \in Nat, NEW n \in 0..Len(s),
         \A i \in 1..n : Stale(s[i], at),
         n < Len(s) => ~Stale(s[n + 1], at)
  PROVE  Dropped(s, at) = n
<1> DEFINE m == Dropped(s, at)
<1>0. Len(s) \in Nat
  OBVIOUS
<1>1. /\ m \in 0..Len(s)
      /\ \A i \in 1..m : Stale(s[i], at)
      /\ m < Len(s) => ~Stale(s[m + 1], at)
  BY DroppedStale
<1> HIDE DEF m
<1>2. ~ (m < n) /\ ~ (n < m)
  <2>1. ASSUME m < n PROVE FALSE
    <3>1. m + 1 \in 1..n /\ m < Len(s)
      BY <1>0, <1>1, <2>1
    <3> QED BY <1>1, <3>1
  <2>2. ASSUME n < m PROVE FALSE
    <3>1. n + 1 \in 1..m /\ n < Len(s)
      BY <1>0, <1>1, <2>2
    <3> QED BY <1>1, <3>1
  <2> QED BY <2>1, <2>2
<1>3. m = n
  BY <1>0, <1>1, <1>2
<1> QED BY <1>3 DEF m

(***************************************************************************)
(* What is stale stays stale, so pruning at one instant and again later is *)
(* pruning later.                                                          *)
(***************************************************************************)
LEMMA PrunedTwice ==
  ASSUME NEW s \in Seq(Use), NEW at \in Nat, NEW t \in Nat, at <= t
  PROVE  Pruned(Pruned(s, at), t) = Pruned(s, t)
<1> DEFINE n == Dropped(s, at)
           q == Pruned(s, at)
           m == Dropped(q, t)
           L == Len(s)
<1>1. n \in 0..L /\ L \in Nat /\ \A i \in 1..n : Stale(s[i], at)
  BY DroppedStale
<1>2. q \in Seq(Use) /\ q = SubSeq(s, n + 1, L)
  BY PrunedStoresLess DEF Pruned
<1>3. m \in 0..Len(q) /\ (\A i \in 1..m : Stale(q[i], t))
      /\ (m < Len(q) => ~Stale(q[m + 1], t))
  BY <1>2, DroppedStale
<1>4. Pruned(q, t) = SubSeq(q, m + 1, Len(q))
  BY DEF Pruned
<1> HIDE DEF n, q, m, L
<1>5. Len(q) = L - n /\ \A i \in 1..L - n : q[i] = s[i + n]
  BY <1>1, <1>2 DEF L
<1>6. \A i \in 1..n + m : Stale(s[i], t)
  <2> SUFFICES ASSUME NEW i \in 1..n + m PROVE Stale(s[i], t)
    OBVIOUS
  <2>1. CASE i <= n
    <3>1. Stale(s[i], at) /\ i \in DOMAIN s
      BY <1>1, <1>3, <2>1 DEF L
    <3>2. s[i].at \in Nat
      BY <3>1, UseType
    <3> QED BY <3>1, <3>2, DayAssumption DEF Stale
  <2>2. CASE i > n
    <3>1. i - n \in 1..m /\ i - n \in 1..L - n /\ (i - n) + n = i
      BY <1>1, <1>3, <1>5, <2>2
    <3> QED BY <1>3, <1>5, <3>1
  <2> QED BY <1>1, <1>3, <2>1, <2>2
<1>7. n + m < L => ~Stale(s[(n + m) + 1], t)
  <2> SUFFICES ASSUME n + m < L PROVE ~Stale(s[(n + m) + 1], t)
    OBVIOUS
  <2>1. m < Len(q) /\ m + 1 \in 1..L - n /\ (m + 1) + n = (n + m) + 1
    BY <1>1, <1>3, <1>5
  <2> QED BY <1>3, <1>5, <2>1
<1>8. n + m \in 0..Len(s)
  BY <1>1, <1>3, <1>5 DEF L
<1>9. Dropped(s, t) = n + m
  BY <1>6, <1>7, <1>8, DroppedOnly DEF L
<1>10. Pruned(s, t) = SubSeq(s, (n + m) + 1, L)
  BY <1>9 DEF Pruned, L
<1>11. SubSeq(q, m + 1, Len(q)) = SubSeq(s, (n + m) + 1, L)
  <2> DEFINE x == SubSeq(q, m + 1, Len(q))
             y == SubSeq(s, (n + m) + 1, L)
  <2> DEFINE K == (L - n) - m
  <2>1. K = L - (n + m) /\ K = Len(q) - m /\ L = Len(s) /\ n + m \in 0..Len(s)
    BY <1>1, <1>3, <1>5, <1>8 DEF L
  <2> HIDE DEF K
  <2>2. x \in Seq(Use) /\ Len(x) = K /\ \A i \in 1..K : x[i] = q[i + m]
    <3>1. q \in Seq(Use) /\ m \in 0..Len(q)
      BY <1>2, <1>3
    <3> QED BY <2>1, <3>1, DroppingUses
  <2>3. y \in Seq(Use) /\ Len(y) = K /\ \A i \in 1..K : y[i] = s[i + (n + m)]
    BY <2>1, DroppingUses
  <2>4. ASSUME NEW i \in 1..K PROVE q[i + m] = s[i + (n + m)]
    <3>1. i + m \in 1..L - n /\ (i + m) + n = i + (n + m)
      BY <1>1, <1>3, <1>5, <2>1
    <3> QED BY <1>5, <3>1
  <2> HIDE DEF x, y
  <2>5. x = y
    BY <2>2, <2>3, <2>4, SeqEqual
  <2> QED BY <2>5 DEF x, y
<1> QED BY <1>4, <1>10, <1>11 DEF q

(***************************************************************************)
(* check alone, at whatever instant, changes no decision about a later one *)
(* and nothing that remaining reports later (leakage.py: check and         *)
(* remaining prune the deque they then count over).                        *)
(***************************************************************************)
LEMMA CheckChangesNothing ==
  ASSUME Registered, NEW at \in Nat,
         NEW o \in Owners, NEW r \in Requestors, NEW a \in Attributes,
         Check(o, r, a, at),
         NEW p \in Owners, NEW s \in Requestors, NEW b \in Attributes, NEW t \in Nat, at <= t
  PROVE  /\ Decision(p, s, b, t)' = Decision(p, s, b, t)
         /\ policy_for(b) # NoPolicy => RemainingOf(p, b, t)' = RemainingOf(p, b, t)
<1>1. UNCHANGED <<policies, group_of>> /\ uses' = AfterCheck(o, r, a, at)
  BY DEF Check
<1>2. policy_for(b)' = policy_for(b) /\ (Governed(s, b)' <=> Governed(s, b))
  BY <1>1 DEF policy_for, Governed
<1>3. ASSUME NEW d \in Datum PROVE Pruned(uses'[d], t) = Pruned(uses[d], t)
  <2>1. uses[d] \in Seq(Use) /\ uses \in [Datum -> Seq(Use)]
    BY DEF Registered, TypeOK
  <2>2. uses'[d] \in {uses[d], Pruned(uses[d], at)}
    BY <1>1, <2>1 DEF AfterCheck, Recent
  <2> QED BY <2>1, <2>2, PrunedTwice
<1>4. policy_for(b) # NoPolicy => <<p, policy_for(b).group>> \in Datum
  BY RegisteredPolicy
<1>5. Decision(p, s, b, t)' = Decision(p, s, b, t)
  BY <1>2, <1>3, <1>4 DEF Decision, Governed
<1>6. policy_for(b) # NoPolicy => RemainingOf(p, b, t)' = RemainingOf(p, b, t)
  BY <1>2, <1>3, <1>4 DEF RemainingOf
<1> QED BY <1>5, <1>6

-----------------------------------------------------------------------------
(* The promise of IdealBudget.                                             *)

\* The policies in force, as IdealBudget has them.
Active == {policies[g] : g \in Groups} \ {NoPolicy}

(***************************************************************************)
(* Registering a policy is adopting one that shares neither its group nor  *)
(* an attribute with those in force.                                       *)
(***************************************************************************)
LEMMA AddIsAdopt ==
  ASSUME State, NEW p \in Policies, Add(p)
  PROVE  Ideal!Adopt(p)
<1>1. /\ policies[p.group] = NoPolicy
      /\ \A a \in p.attributes : group_of[a] = NoGroup
      /\ policies' = [policies EXCEPT ![p.group] = p]
      /\ UNCHANGED <<history, now>>
  BY DEF Add
<1>2. /\ p.group \in Groups /\ p.attributes \subseteq Attributes /\ p # NoPolicy
  BY PolicyFacts
<1>3. \A g \in Groups : policies'[g] = IF g = p.group THEN p ELSE policies[g]
  BY <1>1, <1>2 DEF State, TypeOK
<1>4. ASSUME NEW q \in Active
      PROVE  q.group # p.group /\ q.attributes \cap p.attributes = {}
  <2>1. PICK g \in Groups : q = policies[g] /\ policies[g] # NoPolicy
    BY DEF Active
  <2>2. q.group = g /\ g # p.group
    BY <1>1, <2>1 DEF State, PoliciesNamed
  <2>3. ASSUME NEW a \in q.attributes, a \in p.attributes PROVE FALSE
    <3>1. group_of[a] = g
      BY <1>2, <2>1, <2>3 DEF State, GroupsAgree
    <3> QED BY <1>1, <2>3, <3>1, SentinelAssumption
  <2> QED BY <2>2, <2>3
<1>5. Active' = Active \cup {p}
  <2>1. \A q : q \in Active' <=> q \in Active \cup {p}
    BY <1>1, <1>2, <1>3 DEF Active
  <2> QED BY <2>1
<1> QED BY <1>1, <1>4, <1>5 DEF Ideal!Adopt, Active

(***************************************************************************)
(* A charged query is one the ideal budget, which never forgets, admits.   *)
(***************************************************************************)
LEMMA ConsumeIsCharge ==
  ASSUME State, NEW o \in Owners, NEW r \in Requestors, NEW a \in Attributes,
         CheckAndConsume(o, r, a, now)
  PROVE  policy_for(a) \in Active /\ Ideal!Charge(o, policy_for(a), r)
<1> DEFINE p == policy_for(a)
           d == <<o, p.group>>
           h == history[d]
<1>1. /\ p # NoPolicy /\ Decision(o, r, a, now) = "allow"
      /\ Cardinality(AllUses) < MaxUses
      /\ history' = [history EXCEPT ![d] = Append(@, Recorded(p, r, now))]
      /\ UNCHANGED <<policies, now>>
  BY DEF CheckAndConsume
<1>2. p \in Policies /\ d \in Datum /\ p \in Active
  <2>1. p \in Policies /\ d \in Datum /\ p = policies[group_of[a]] /\ group_of[a] \in Groups
    BY <1>1, PolicyInForce
  <2> QED BY <1>1, <2>1 DEF Active
<1>3. r \notin p.exempt => LimitsFor(p, d, r) = "allow"
  BY <1>1, DecisionFromHistory DEF Governed
<1>4. UNCHANGED Active
  BY <1>1 DEF Active
<1> HIDE DEF p
<1>5. Ideal!Admissible(p, h, r)
  <2>1. \A S : Ideal!Cardinality(S) = Cardinality(S)
    BY DEF Ideal!Cardinality, Cardinality, Ideal!IsFiniteSet, IsFiniteSet
  <2>2. \A t, span, R : Ideal!Held(h, t, span, R) = Held(h, t, span, R)
    BY DEF Ideal!Held, Held
  <2>3. Ideal!per_window(p) = per_window(p)
    BY DEF Ideal!per_window, per_window, Ideal!answers_to_resolve, answers_to_resolve
  <2>4. \A w, c, n : Ideal!Judge(p, w, c, n) = Judge(p, w, c, n)
    BY <2>3 DEF Ideal!Judge, Judge
  <2> QED BY <1>3, <2>1, <2>2, <2>4 DEF LimitsFor, Ideal!Admissible
<1>6. Ideal!Cardinality(Ideal!AllUses) < MaxUses
  <2>1. Ideal!AllUses = AllUses
    BY DEF Ideal!AllUses, AllUses, Ideal!Datum, Datum
  <2> QED BY <1>1, <2>1
      DEF Ideal!Cardinality, Cardinality, Ideal!IsFiniteSet, IsFiniteSet
<1>7. Ideal!Charge(o, p, r)
  BY <1>1, <1>4, <1>5, <1>6 DEF Ideal!Charge, Recorded, Active
<1> QED BY <1>2, <1>7 DEF p

(***************************************************************************)
(* The budget implements IdealBudget: although it remembers only a day,    *)
(* every query it charges is one the ideal budget admits, and nothing else *)
(* it does is visible.                                                     *)
(***************************************************************************)
THEOREM BudgetImplementsIdeal == Spec => ImplementsIdeal
<1>1. Init => Ideal!Init
  BY DEF Init, Ideal!Init, Datum, Ideal!Datum
<1>2. State /\ [Next]_vars => [Ideal!Next]_(Ideal!vars)
  <2> SUFFICES ASSUME State, [Next]_vars
               PROVE  Ideal!Next \/ UNCHANGED <<Active, history, now>>
    BY DEF Ideal!vars, Active
  <2>1. CASE UNCHANGED vars
    BY <2>1 DEF vars, Active
  <2>2. CASE Tick
    <3>1. Ideal!Tick
      BY <2>2 DEF Tick, Ideal!Tick
    <3> QED BY <3>1 DEF Ideal!Next
  <2>3. ASSUME NEW p \in Policies, Add(p) PROVE Ideal!Next
    BY <2>3, AddIsAdopt DEF Ideal!Next
  <2>4. ASSUME NEW o \in Owners, NEW a \in Attributes, NEW r \in Requestors,
               CheckAndConsume(o, r, a, now)
        PROVE  Ideal!Next
    BY <2>4, ConsumeIsCharge DEF Ideal!Next, Active
  <2>5. ASSUME NEW o \in Owners, NEW a \in Attributes, NEW r \in Requestors,
               Check(o, r, a, now) \/ Remaining(o, a, now)
        PROVE  UNCHANGED <<Active, history, now>>
    BY <2>5 DEF Check, Remaining, Active
  <2>6. ASSUME NEW o \in Owners, NEW a \in Attributes, Remaining(o, a, now)
        PROVE  UNCHANGED <<Active, history, now>>
    BY <2>6 DEF Remaining, Active
  <2> QED BY <2>1, <2>2, <2>3, <2>4, <2>5, <2>6 DEF Next, Operation
<1>3. IInv => State
  BY DEF IInv
<1> QED BY <1>1, <1>2, <1>3, BudgetInvariant, PTL
        DEF Spec, ImplementsIdeal, Ideal!Spec

===============================================================================
