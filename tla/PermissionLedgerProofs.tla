------------------------ MODULE PermissionLedgerProofs ------------------------
(***************************************************************************)
(* Theorems about PermissionLedger, for every set of owners, requestors,   *)
(* algorithms, attributes, years and permissions.                          *)
(***************************************************************************)
EXTENDS PermissionLedger, Counting

(***************************************************************************)
(* The inductive invariant.  Every grant on a list is remembered in ever,  *)
(* and a counter counts the queries served since the beginning: neither a  *)
(* withdrawal nor a renewed grant resets it.                               *)
(***************************************************************************)
GrantsRemembered ==
  \A o \in Owners : \A i \in DOMAIN grants[o] : grants[o][i] \in ever[o]

CountersKept == usage = served

IInv == TypeOK /\ GrantsRemembered /\ CountersKept /\ QuotaHonoured

(***************************************************************************)
(* _matching returns a grant of the list that covers the request, and the  *)
(* first such grant.                                                       *)
(***************************************************************************)
LEMMA MatchingIsOldest ==
  ASSUME TypeOK, NEW o \in Owners, NEW k \in Request, Matches(o, k) # {}
  PROVE  \E m \in Matches(o, k) :
           /\ \A j \in Matches(o, k) : m <= j
           /\ Matching(o, k) = grants[o][m]
<1>1. Matches(o, k) \subseteq Nat
  BY DEF TypeOK, Matches
<1>2. \E i \in Matches(o, k) : \A j \in Matches(o, k) : i <= j
  BY <1>1, LeastNatural
<1> QED BY <1>2 DEF Matching

(***************************************************************************)
(* An admitted request has a standing grant that covers it and whose quota *)
(* is not used up.                                                         *)
(***************************************************************************)
LEMMA AllowedIsGranted ==
  ASSUME TypeOK, NEW o \in Owners, NEW k \in Request, NEW y \in Years,
         Decision(o, k, y) = "allow"
  PROVE  \E i \in DOMAIN grants[o] :
           /\ Covers(grants[o][i], k)
           /\ Admits(grants[o][i], usage[<<o, k, y>>])
<1>1. Matches(o, k) # {} /\ Admits(Matching(o, k), usage[<<o, k, y>>])
  BY DEF Decision
<1>2. PICK m \in Matches(o, k) : Matching(o, k) = grants[o][m]
  BY <1>1, MatchingIsOldest
<1> QED BY <1>1, <1>2 DEF Matches

(***************************************************************************)
(* revoke rebuilds the list from what it keeps: every remaining grant was  *)
(* on the list and is not one of the revoked, and no other grant is lost.  *)
(***************************************************************************)
LEMMA RevokeKeeps ==
  ASSUME TypeOK, NEW o \in Owners, NEW r \in Requestors, NEW alg \in Algorithms,
         Revoke(o, r, alg)
  PROVE  LET kept == DOMAIN grants[o] \ Revoked(o, r, alg)
         IN  \E pick \in [1..Cardinality(kept) -> kept] :
               /\ Cardinality(kept) \in Nat
               /\ \A i, j \in 1..Cardinality(kept) : i < j => pick[i] < pick[j]
               /\ \A n \in kept : \E i \in 1..Cardinality(kept) : pick[i] = n
               /\ grants' = [grants EXCEPT ![o] =
                    [i \in 1..Cardinality(kept) |-> grants[o][pick[i]]]]
<1> DEFINE kept == DOMAIN grants[o] \ Revoked(o, r, alg)
<1>1. PICK pick \in [1..Cardinality(kept) -> kept] :
        /\ \A i, j \in DOMAIN pick : i < j => pick[i] < pick[j]
        /\ grants' = [grants EXCEPT ![o] = [i \in DOMAIN pick |-> @[pick[i]]]]
  BY DEF Revoke
<1>2. grants[o] \in Seq(StandingPermission)
  BY DEF TypeOK
<1>3. IsFiniteSet(DOMAIN grants[o]) /\ DOMAIN grants[o] \subseteq Nat
  BY <1>2, FS_Interval
<1>4. IsFiniteSet(kept) /\ kept \in SUBSET Nat /\ Cardinality(kept) \in Nat
  BY <1>3, FS_Subset, FS_CardinalityType
<1>5. DOMAIN pick = 1..Cardinality(kept)
  OBVIOUS
<1>6. \A i, j \in 1..Cardinality(kept) : i < j => pick[i] < pick[j]
  BY <1>1, <1>5
<1>7. \A n \in kept : \E i \in 1..Cardinality(kept) : pick[i] = n
  BY <1>4, <1>6, IncreasingIsOnto
<1>8. grants' = [grants EXCEPT ![o] =
                   [i \in 1..Cardinality(kept) |-> grants[o][pick[i]]]]
  BY <1>1, <1>5 DEF TypeOK
<1> QED BY <1>4, <1>6, <1>7, <1>8

-----------------------------------------------------------------------------
(* Safety.                                                                 *)

(***************************************************************************)
(* A ledger starts without grants and with every counter at zero.          *)
(***************************************************************************)
LEMMA InitIInv == Init => IInv
<1> SUFFICES ASSUME Init PROVE IInv
  OBVIOUS
<1>1. TypeOK
  BY DEF Init, TypeOK
<1>2. GrantsRemembered /\ CountersKept
  BY DEF Init, GrantsRemembered, CountersKept
<1>3. QuotaHonoured
  BY DEF Init, QuotaHonoured, Key
<1> QED BY <1>1, <1>2, <1>3 DEF IInv

(***************************************************************************)
(* grant only appends: what was granted before stays on record, and no     *)
(* counter moves.                                                          *)
(***************************************************************************)
LEMMA GrantIInv ==
  ASSUME IInv, NEW o \in Owners, NEW g \in Permissions, Grant(o, g)
  PROVE  IInv'
<1>1. g \in StandingPermission
  BY PermissionsAssumption
<1>2. TypeOK'
  BY <1>1 DEF IInv, TypeOK, Grant
<1>3. GrantsRemembered'
  <2> SUFFICES ASSUME NEW p \in Owners, NEW i \in DOMAIN grants'[p]
               PROVE  grants'[p][i] \in ever'[p]
    BY DEF GrantsRemembered
  <2>1. CASE p = o
    BY <2>1 DEF IInv, TypeOK, GrantsRemembered, Grant
  <2>2. CASE p # o
    BY <2>2 DEF IInv, TypeOK, GrantsRemembered, Grant
  <2> QED BY <2>1, <2>2
<1>4. CountersKept'
  BY DEF IInv, CountersKept, Grant
<1>5. \A p \in Owners : ever[p] \subseteq ever'[p]
  BY DEF IInv, TypeOK, Grant
<1>6. QuotaHonoured'
  BY <1>5 DEF IInv, QuotaHonoured, Grant
<1> QED BY <1>2, <1>3, <1>4, <1>6 DEF IInv

(***************************************************************************)
(* revoke keeps the counters, and what it removes from the list was        *)
(* granted.                                                                *)
(***************************************************************************)
LEMMA RevokeIInv ==
  ASSUME IInv, NEW o \in Owners, NEW r \in Requestors, NEW alg \in Algorithms,
         Revoke(o, r, alg)
  PROVE  IInv'
<1> DEFINE kept == DOMAIN grants[o] \ Revoked(o, r, alg)
<1>0. TypeOK
  BY DEF IInv
<1>1. PICK pick \in [1..Cardinality(kept) -> kept] :
        /\ Cardinality(kept) \in Nat
        /\ \A i, j \in 1..Cardinality(kept) : i < j => pick[i] < pick[j]
        /\ \A n \in kept : \E i \in 1..Cardinality(kept) : pick[i] = n
        /\ grants' = [grants EXCEPT ![o] =
             [i \in 1..Cardinality(kept) |-> grants[o][pick[i]]]]
  BY <1>0, RevokeKeeps
<1>2. \A i \in 1..Cardinality(kept) : pick[i] \in DOMAIN grants[o]
  OBVIOUS
<1>3. UNCHANGED <<usage, ever, served>>
  BY DEF Revoke
<1>4. [i \in 1..Cardinality(kept) |-> grants[o][pick[i]]] \in Seq(StandingPermission)
  <2>1. grants[o] \in Seq(StandingPermission)
    BY DEF IInv, TypeOK
  <2>2. \A j \in DOMAIN grants[o] : grants[o][j] \in StandingPermission
    BY <2>1
  <2>3. \A i \in 1..Cardinality(kept) : grants[o][pick[i]] \in StandingPermission
    BY <1>2, <2>2
  <2> HIDE DEF kept
  <2> QED BY <1>1, <2>3
<1>5. TypeOK'
  BY <1>1, <1>3, <1>4 DEF IInv, TypeOK
<1>6. GrantsRemembered'
  BY <1>1, <1>2, <1>3 DEF IInv, TypeOK, GrantsRemembered
<1> QED BY <1>3, <1>5, <1>6 DEF IInv, CountersKept, QuotaHonoured

(***************************************************************************)
(* A query that is counted had room under the permission check found, and  *)
(* that permission was granted at some time.                               *)
(***************************************************************************)
LEMMA ConsumeIInv ==
  ASSUME IInv, NEW o \in Owners, NEW k \in Request, NEW y \in Years,
         CheckAndConsume(o, k, y)
  PROVE  IInv'
<1> DEFINE c == <<o, k, y>>
<1>1. c \in Key
  BY DEF Key
<1>2. PICK i \in DOMAIN grants[o] :
        Covers(grants[o][i], k) /\ Admits(grants[o][i], usage[c])
  BY AllowedIsGranted DEF IInv, CheckAndConsume
<1>3. TypeOK'
  BY <1>1 DEF IInv, TypeOK, CheckAndConsume
<1>4. GrantsRemembered' /\ CountersKept'
  BY <1>1 DEF IInv, TypeOK, GrantsRemembered, CountersKept, CheckAndConsume
<1>5. QuotaHonoured'
  <2> SUFFICES ASSUME NEW p \in Owners, NEW l \in Request, NEW z \in Years,
                      served'[<<p, l, z>>] > 0
               PROVE  \E g \in ever[p] :
                        /\ Covers(g, l)
                        /\ \/ g.quota_per_year = NoQuota
                           \/ served'[<<p, l, z>>] <= g.quota_per_year
    BY DEF QuotaHonoured, CheckAndConsume
  <2>1. CASE <<p, l, z>> = c
    <3>1. p = o /\ l = k
      BY <2>1
    <3>2. grants[o][i] \in ever[o] /\ grants[o][i] \in StandingPermission
      BY DEF IInv, TypeOK, GrantsRemembered
    <3>3. served'[c] = usage[c] + 1 /\ usage[c] \in Nat
      BY <1>1 DEF IInv, TypeOK, CountersKept, CheckAndConsume
    <3>4. \/ grants[o][i].quota_per_year = NoQuota
          \/ served'[c] <= grants[o][i].quota_per_year
      BY <1>2, <3>2, <3>3 DEF Admits, StandingPermission
    <3> QED BY <1>2, <2>1, <3>1, <3>2, <3>4
  <2>2. CASE <<p, l, z>> # c
    <3>1. served'[<<p, l, z>>] = served[<<p, l, z>>]
      BY <2>2 DEF IInv, TypeOK, Key, CheckAndConsume
    <3> QED BY <3>1 DEF IInv, QuotaHonoured
  <2> QED BY <2>1, <2>2
<1> QED BY <1>3, <1>4, <1>5 DEF IInv

(***************************************************************************)
(* The invariant is inductive.                                             *)
(***************************************************************************)
LEMMA NextIInv == IInv /\ [Next]_vars => IInv'
<1> SUFFICES ASSUME IInv, [Next]_vars PROVE IInv'
  OBVIOUS
<1>1. CASE UNCHANGED vars
  BY <1>1 DEF IInv, TypeOK, GrantsRemembered, CountersKept, QuotaHonoured, vars
<1>2. CASE Next
  BY <1>2, GrantIInv, RevokeIInv, ConsumeIInv DEF Next
<1> QED BY <1>1, <1>2

(***************************************************************************)
(* The ledger is well typed, and no sequence of grants, withdrawals and    *)
(* queries takes more queries in a year than the most generous permission  *)
(* ever granted (permissions.py: check, consume and revoke).               *)
(***************************************************************************)
THEOREM LedgerInvariant == Spec => []IInv
<1> QED BY InitIInv, NextIInv, PTL DEF Spec

(***************************************************************************)
(* The lists hold permissions and the counters natural numbers, whatever   *)
(* is granted, withdrawn and consumed.                                     *)
(***************************************************************************)
THEOREM TypeCorrect == Spec => []TypeOK
<1>1. IInv => TypeOK
  BY DEF IInv
<1> QED BY <1>1, LedgerInvariant, PTL

(***************************************************************************)
(* No order of grants, withdrawals, renewed grants and queries counts more *)
(* queries in a year than some permission the owner gave allows            *)
(* (PermissionLedger.check, consume and revoke).                           *)
(***************************************************************************)
THEOREM QuotaIsHonoured == Spec => []QuotaHonoured
<1>1. IInv => QuotaHonoured
  BY DEF IInv
<1> QED BY <1>1, LedgerInvariant, PTL

-----------------------------------------------------------------------------
(* Withdrawal, renewal, and the promise of OwnerConsent.                   *)

(***************************************************************************)
(* After revoke(r, alg) the oldest grant that covers a request is the one  *)
(* it was before, or there is none: no decision turns to "allow".          *)
(***************************************************************************)
LEMMA RevokeOnlyTightens ==
  ASSUME TypeOK, TypeOK',
         NEW o \in Owners, NEW r \in Requestors, NEW alg \in Algorithms,
         Revoke(o, r, alg),
         NEW k \in Request, NEW y \in Years, Decision(o, k, y)' = "allow"
  PROVE  Decision(o, k, y) = "allow"
<1> DEFINE kept == DOMAIN grants[o] \ Revoked(o, r, alg)
<1>1. PICK pick \in [1..Cardinality(kept) -> kept] :
        /\ Cardinality(kept) \in Nat
        /\ \A i, j \in 1..Cardinality(kept) : i < j => pick[i] < pick[j]
        /\ \A n \in kept : \E i \in 1..Cardinality(kept) : pick[i] = n
        /\ grants' = [grants EXCEPT ![o] =
             [i \in 1..Cardinality(kept) |-> grants[o][pick[i]]]]
  BY RevokeKeeps
<1>2. grants'[o] = [i \in 1..Cardinality(kept) |-> grants[o][pick[i]]]
  BY <1>1 DEF TypeOK
<1>3. usage' = usage
  BY DEF Revoke
<1>4. Matches(o, k)' # {} /\ Admits(Matching(o, k)', usage'[<<o, k, y>>])
  BY DEF Decision
<1>5. PICK m \in Matches(o, k)' :
        /\ \A j \in Matches(o, k)' : m <= j
        /\ Matching(o, k)' = grants'[o][m]
  <2>1. Matches(o, k)' \subseteq Nat
    BY DEF TypeOK, Matches
  <2>2. \E i \in Matches(o, k)' : \A j \in Matches(o, k)' : i <= j
    BY <1>4, <2>1, LeastNatural
  <2> QED BY <2>2 DEF Matching
<1>6. /\ m \in 1..Cardinality(kept)
      /\ pick[m] \in kept
      /\ grants'[o][m] = grants[o][pick[m]]
      /\ pick[m] \in Matches(o, k)
  BY <1>2 DEF Matches
<1>7. PICK n \in Matches(o, k) :
        /\ \A j \in Matches(o, k) : n <= j
        /\ Matching(o, k) = grants[o][n]
  BY <1>6, MatchingIsOldest
<1>8. n \in kept
  <2>1. ~ (k.requestor_id = r /\ k.algorithm_id = alg)
    BY <1>6 DEF Matches, Revoked, Covers
  <2> QED BY <2>1 DEF Matches, Revoked, Covers
<1>9. PICK i \in 1..Cardinality(kept) : pick[i] = n
  BY <1>1, <1>8
<1>10. i \in Matches(o, k)'
  BY <1>2, <1>9 DEF Matches
<1>11. ~ (i < m)
  BY <1>1, <1>5, <1>6, <1>10
<1>12. ~ (m < i)
  <2>1. n <= pick[m] /\ n \in Nat /\ pick[m] \in Nat
    BY <1>6, <1>7 DEF TypeOK, Matches
  <2>2. m < i => pick[m] < n
    BY <1>1, <1>6, <1>9
  <2> HIDE DEF kept
  <2> QED BY <2>1, <2>2
<1>13. i = m
  BY <1>1, <1>6, <1>11, <1>12
<1>14. Matching(o, k) = Matching(o, k)'
  BY <1>5, <1>6, <1>7, <1>9, <1>13
<1> QED BY <1>3, <1>4, <1>6, <1>14 DEF Decision, Admits

\* No query is admitted that was not, of an owner whose list of grants grew
\* shorter.
Tightens ==
  \A o \in Owners, k \in Request, y \in Years :
    Len(grants'[o]) < Len(grants[o]) =>
      (Decision(o, k, y)' = "allow" => Decision(o, k, y) = "allow")

(***************************************************************************)
(* Of all steps only a withdrawal makes the list shorter.                  *)
(***************************************************************************)
LEMMA StepTightens == TypeOK /\ TypeOK' /\ [Next]_vars => Tightens
<1> SUFFICES ASSUME TypeOK, TypeOK', [Next]_vars,
                    NEW o \in Owners, NEW k \in Request, NEW y \in Years,
                    Len(grants'[o]) < Len(grants[o]),
                    Decision(o, k, y)' = "allow"
             PROVE  Decision(o, k, y) = "allow"
  BY DEF Tightens
<1>1. Len(grants[o]) \in Nat
  BY DEF TypeOK
<1>2. grants'[o] # grants[o]
  BY <1>1
<1>3. CASE UNCHANGED vars
  BY <1>2, <1>3 DEF vars
<1>4. ASSUME NEW p \in Owners, NEW g \in Permissions, Grant(p, g)
      PROVE  FALSE
  <2>1. p = o
    BY <1>2, <1>4 DEF Grant, TypeOK
  <2>2. g \in StandingPermission
    BY PermissionsAssumption
  <2>3. grants'[o] = Append(grants[o], g)
    BY <1>4, <2>1 DEF Grant, TypeOK
  <2>4. Len(grants'[o]) = Len(grants[o]) + 1
    BY <2>2, <2>3 DEF TypeOK
  <2> QED BY <1>1, <2>4
<1>5. ASSUME NEW p \in Owners, NEW r \in Requestors, NEW alg \in Algorithms,
             Revoke(p, r, alg)
      PROVE  Decision(o, k, y) = "allow"
  <2>1. p = o
    BY <1>2, <1>5 DEF Revoke, TypeOK
  <2> QED BY <1>5, <2>1, RevokeOnlyTightens
<1>6. ASSUME NEW p \in Owners, NEW l \in Request, NEW z \in Years,
             CheckAndConsume(p, l, z)
      PROVE  FALSE
  BY <1>2, <1>6 DEF CheckAndConsume
<1> QED BY <1>3, <1>4, <1>5, <1>6 DEF Next

(***************************************************************************)
(* No withdrawal admits a query that was not admitted before it            *)
(* (permissions.py: revoke removes every matching grant, so none that was  *)
(* hidden behind the one in force comes to light).                         *)
(***************************************************************************)
THEOREM WithdrawalNeverAdmits == Spec => RevokeNeverAdmits
<1>1. Spec => [][Tightens]_vars
  BY StepTightens, TypeCorrect, PTL DEF Spec
<1> QED BY <1>1 DEF Tightens, RevokeNeverAdmits

(***************************************************************************)
(* Granting once more leaves the oldest grant that covers a request, if    *)
(* there is one, the oldest.                                               *)
(***************************************************************************)
LEMMA GrantKeepsOldest ==
  ASSUME TypeOK, TypeOK', NEW o \in Owners, NEW g \in Permissions, Grant(o, g),
         NEW k \in Request, NEW y \in Years, Matches(o, k) # {}
  PROVE  Decision(o, k, y)' = Decision(o, k, y)
<1> DEFINE n == Len(grants[o])
<1>1. g \in StandingPermission /\ grants[o] \in Seq(StandingPermission)
  BY PermissionsAssumption DEF TypeOK
<1>2. grants'[o] = Append(grants[o], g) /\ usage' = usage
  BY DEF Grant, TypeOK
<1>3. /\ n \in Nat /\ DOMAIN grants[o] = 1..n /\ DOMAIN grants'[o] = 1..n + 1
      /\ \A i \in 1..n : grants'[o][i] = grants[o][i]
  BY <1>1, <1>2
<1>4. PICK m \in Matches(o, k) :
        /\ \A j \in Matches(o, k) : m <= j
        /\ Matching(o, k) = grants[o][m]
  BY MatchingIsOldest
<1> HIDE DEF n
<1>5. /\ m \in 1..n /\ m \in Matches(o, k)'
      /\ \A j \in Matches(o, k)' : j \in Matches(o, k) \/ j = n + 1
  BY <1>3, <1>4 DEF Matches
<1>6. \A j \in Matches(o, k)' : m <= j /\ j \in Nat
  BY <1>3, <1>4, <1>5 DEF Matches
<1>7. Matching(o, k)' = grants'[o][m]
  <2>1. PICK c \in Matches(o, k)' :
          /\ \A j \in Matches(o, k)' : c <= j
          /\ Matching(o, k)' = grants'[o][c]
    BY <1>5, <1>6 DEF Matching
  <2>2. c <= m /\ m <= c /\ c \in Nat /\ m \in Nat
    BY <1>5, <1>6, <2>1
  <2> QED BY <2>1, <2>2
<1>8. Matching(o, k)' = Matching(o, k) /\ Matches(o, k)' # {}
  BY <1>3, <1>4, <1>5, <1>7
<1> QED BY <1>2, <1>8 DEF Decision, Admits

(***************************************************************************)
(* While one permission for a query stands, granting it again, with        *)
(* whatever quota, changes no decision (permissions.py: _matching returns  *)
(* the first grant of the list, and grant appends).                        *)
(***************************************************************************)
THEOREM RegrantIsIdle == Spec => RegrantChangesNothing
<1> DEFINE Idle ==
      \A o \in Owners, k \in Request, y \in Years :
        /\ Len(grants'[o]) > Len(grants[o])
        /\ Matches(o, k) # {}
        => Decision(o, k, y)' = Decision(o, k, y)
<1>1. TypeOK /\ TypeOK' /\ [Next]_vars => [Idle]_vars
  <2> SUFFICES ASSUME TypeOK, TypeOK', [Next]_vars,
                      NEW o \in Owners, NEW k \in Request, NEW y \in Years,
                      Len(grants'[o]) > Len(grants[o]),
                      Matches(o, k) # {}
               PROVE  Decision(o, k, y)' = Decision(o, k, y)
    OBVIOUS
  <2>1. Len(grants[o]) \in Nat /\ Len(grants'[o]) \in Nat /\ grants'[o] # grants[o]
    BY DEF TypeOK
  <2>2. ASSUME NEW p \in Owners, NEW g \in Permissions, Grant(p, g)
        PROVE  Decision(o, k, y)' = Decision(o, k, y)
    <3>1. p = o
      BY <2>1, <2>2 DEF Grant, TypeOK
    <3> QED BY <2>2, <3>1, GrantKeepsOldest
  <2>3. ASSUME NEW p \in Owners, NEW r \in Requestors, NEW alg \in Algorithms,
               Revoke(p, r, alg)
        PROVE  FALSE
    <3>1. p = o
      BY <2>1, <2>3 DEF Revoke, TypeOK
    <3> DEFINE kept == DOMAIN grants[o] \ Revoked(o, r, alg)
    <3>0. Revoke(o, r, alg)
      BY <2>3, <3>1
    <3>2. PICK pick \in [1..Cardinality(kept) -> kept] :
            /\ Cardinality(kept) \in Nat
            /\ \A i, j \in 1..Cardinality(kept) : i < j => pick[i] < pick[j]
            /\ \A n \in kept : \E i \in 1..Cardinality(kept) : pick[i] = n
            /\ grants' = [grants EXCEPT ![o] =
                 [i \in 1..Cardinality(kept) |-> grants[o][pick[i]]]]
      BY <3>0, RevokeKeeps
    <3>3. Len(grants'[o]) = Cardinality(kept)
      <4>1. grants'[o] = [i \in 1..Cardinality(kept) |-> grants[o][pick[i]]]
        BY <3>2 DEF TypeOK
      <4>2. DOMAIN grants'[o] = 1..Cardinality(kept)
        BY <4>1
      <4>3. DOMAIN grants'[o] = 1..Len(grants'[o])
        BY DEF TypeOK
      <4> HIDE DEF kept
      <4>4. \A n \in Nat : Cardinality(1..n) = n
        BY FS_Interval
      <4> QED BY <2>1, <3>2, <4>2, <4>3, <4>4
    <3>4. Cardinality(kept) <= Len(grants[o])
      <4> DEFINE n == Len(grants[o])
      <4>1. DOMAIN grants[o] = 1..n /\ n \in Nat
        BY DEF TypeOK
      <4> HIDE DEF n
      <4>2. IsFiniteSet(1..n) /\ Cardinality(1..n) = n
        BY <4>1, FS_Interval
      <4> QED BY <4>1, <4>2, FS_Subset DEF n
    <3> QED BY <2>1, <3>3, <3>4
  <2>4. ASSUME NEW p \in Owners, NEW l \in Request, NEW z \in Years,
               CheckAndConsume(p, l, z)
        PROVE  FALSE
    BY <2>1, <2>4 DEF CheckAndConsume
  <2>5. ~ UNCHANGED vars
    BY <2>1 DEF vars
  <2> QED BY <2>2, <2>3, <2>4, <2>5 DEF Next
<1> QED BY <1>1, TypeCorrect, PTL DEF Spec, RegrantChangesNothing

(***************************************************************************)
(* The ledger implements OwnerConsent: it serves a query only under a      *)
(* permission that stands and whose quota is not used up, and a withdrawal *)
(* leaves exactly the other permissions standing.                          *)
(***************************************************************************)
THEOREM LedgerImplementsConsent == Spec => ImplementsConsent
<1>1. Init => Consent!Init
  BY DEF Init, Consent!Init, Standing, Key, Request, Consent!Key, Consent!Request
<1>2. IInv /\ [Next]_vars => [Consent!Next]_(Consent!vars)
  <2> SUFFICES ASSUME IInv, [Next]_vars
               PROVE  Consent!Next \/ UNCHANGED <<Standing, served>>
    BY DEF Consent!vars
  <2>0. TypeOK /\ usage = served
    BY DEF IInv, CountersKept
  <2>1. CASE UNCHANGED vars
    BY <2>1 DEF vars, Standing
  <2>2. ASSUME NEW o \in Owners, NEW g \in Permissions, Grant(o, g)
        PROVE  Consent!Permit(o, g)
    <3>1. g \in StandingPermission
      BY PermissionsAssumption
    <3>2. grants' = [grants EXCEPT ![o] = Append(@, g)] /\ UNCHANGED served
      BY <2>2 DEF Grant
    <3>3. {Append(grants[o], g)[i] : i \in DOMAIN Append(grants[o], g)}
            = {grants[o][i] : i \in DOMAIN grants[o]} \cup {g}
      <4> DEFINE n == Len(grants[o])
      <4>1. n \in Nat /\ DOMAIN grants[o] = 1..n
        BY <2>0 DEF TypeOK
      <4>2. DOMAIN Append(grants[o], g) = 1..n + 1
        BY <2>0, <3>1 DEF TypeOK
      <4>3. Append(grants[o], g)[n + 1] = g
        BY <2>0, <3>1 DEF TypeOK
      <4>4. \A i \in 1..n : Append(grants[o], g)[i] = grants[o][i]
        BY <2>0, <3>1 DEF TypeOK
      <4>5. 1..n + 1 = (1..n) \cup {n + 1}
        BY <4>1
      <4> HIDE DEF n
      <4> QED BY <4>1, <4>2, <4>3, <4>4, <4>5
    <3>4. Standing' = [Standing EXCEPT ![o] = @ \cup {g}]
      <4>1. \A p \in Owners : grants'[p] = IF p = o THEN Append(grants[o], g) ELSE grants[p]
        BY <2>0, <3>2 DEF TypeOK
      <4>2. {grants'[o][i] : i \in DOMAIN grants'[o]} = Standing[o] \cup {g}
        BY <2>0, <3>3, <4>1 DEF Standing, TypeOK
      <4> QED BY <4>1, <4>2, ZenonT(30) DEF Standing
    <3> QED BY <3>2, <3>4 DEF Consent!Permit
  <2>3. ASSUME NEW o \in Owners, NEW r \in Requestors, NEW alg \in Algorithms,
               Revoke(o, r, alg)
        PROVE  Consent!Withdraw(o, r, alg)
    <3> DEFINE kept == DOMAIN grants[o] \ Revoked(o, r, alg)
    <3>1. PICK pick \in [1..Cardinality(kept) -> kept] :
            /\ Cardinality(kept) \in Nat
            /\ \A i, j \in 1..Cardinality(kept) : i < j => pick[i] < pick[j]
            /\ \A n \in kept : \E i \in 1..Cardinality(kept) : pick[i] = n
            /\ grants' = [grants EXCEPT ![o] =
                 [i \in 1..Cardinality(kept) |-> grants[o][pick[i]]]]
      BY <2>0, <2>3, RevokeKeeps
    <3>2. {grants'[o][i] : i \in DOMAIN grants'[o]} = {grants[o][n] : n \in kept}
      <4>1. grants'[o] = [i \in 1..Cardinality(kept) |-> grants[o][pick[i]]]
        BY <2>0, <3>1 DEF TypeOK
      <4>2. DOMAIN grants'[o] = 1..Cardinality(kept)
        BY <4>1
      <4>3. \A i \in 1..Cardinality(kept) : grants'[o][i] = grants[o][pick[i]]
        BY <4>1
      <4>4. \A i \in 1..Cardinality(kept) : pick[i] \in kept
        OBVIOUS
      <4>5. ASSUME NEW n \in kept
            PROVE  \E i \in 1..Cardinality(kept) : grants'[o][i] = grants[o][n]
        BY <3>1, <4>3, ZenonT(30)
      <4>6. ASSUME NEW i \in 1..Cardinality(kept)
            PROVE  \E n \in kept : grants'[o][i] = grants[o][n]
        BY <4>3, <4>4
      <4> HIDE DEF kept
      <4> QED BY <4>2, <4>5, <4>6
    <3>3. {grants[o][n] : n \in kept}
            = {g \in Standing[o] : ~ (g.requestor_id = r /\ g.algorithm_id = alg)}
      BY DEF Revoked, Standing
    <3>4. Standing' = [Standing EXCEPT ![o] =
            {g \in @ : ~ (g.requestor_id = r /\ g.algorithm_id = alg)}]
      <4>1. \A p \in Owners \ {o} : grants'[p] = grants[p]
        BY <2>0, <3>1 DEF TypeOK
      <4>2. {grants'[o][i] : i \in DOMAIN grants'[o]}
              = {g \in Standing[o] : ~ (g.requestor_id = r /\ g.algorithm_id = alg)}
        BY <3>2, <3>3
      <4>3. Standing'[o] = {grants'[o][i] : i \in DOMAIN grants'[o]}
        BY DEF Standing
      <4>4. \A p \in Owners \ {o} : Standing'[p] = Standing[p]
        BY <4>1 DEF Standing
      <4>5. Standing = [p \in Owners |-> Standing[p]]
            /\ Standing' = [p \in Owners |-> Standing'[p]]
        BY DEF Standing
      <4> QED BY <4>2, <4>3, <4>4, <4>5
    <3> QED BY <2>3, <3>4 DEF Consent!Withdraw, Revoke
  <2>4. ASSUME NEW o \in Owners, NEW k \in Request, NEW y \in Years,
               CheckAndConsume(o, k, y)
        PROVE  Consent!Serve(o, k, y)
    <3>1. \E i \in DOMAIN grants[o] :
            /\ Covers(grants[o][i], k)
            /\ Admits(grants[o][i], usage[<<o, k, y>>])
      BY <2>0, <2>4, AllowedIsGranted DEF CheckAndConsume
    <3>2. \E g \in Standing[o] : Covers(g, k) /\ Admits(g, served[<<o, k, y>>])
      BY <2>0, <3>1 DEF Standing
    <3> QED BY <2>4, <3>2 DEF Consent!Serve, CheckAndConsume, Standing,
               Consent!Covers, Consent!Admits, Covers, Admits
  <2> QED BY <2>1, <2>2, <2>3, <2>4
          DEF Next, Consent!Next, Consent!Request, Request
<1> QED BY <1>1, <1>2, LedgerInvariant, PTL
        DEF Spec, ImplementsConsent, Consent!Spec

===============================================================================
