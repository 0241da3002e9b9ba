--------------------------- MODULE PermissionLedger ---------------------------
(***************************************************************************)
(* PermissionLedger of src/databank/permissions.py, one ledger per owner.  *)
(*                                                                         *)
(* grants[o] is the list _grants of owner o's ledger, in the order of      *)
(* granting, and usage the counters _usage, keyed by requestor, algorithm, *)
(* attribute and year.  ever and served are history variables: every       *)
(* permission an owner ever granted, withdrawn or not, and the queries     *)
(* counted since the beginning; no guard reads them, apart from the bound  *)
(* MaxUsage.                                                               *)
(***************************************************************************)
EXTENDS PermissionTypes, Sequences, FiniteSets

CONSTANTS
  MaxGrants,    \* bound on the length of an owner's list of grants
  MaxUsage      \* bound on the queries of one kind served in a year

ASSUME BoundsAssumption == MaxGrants \in Nat /\ MaxUsage \in Nat

VARIABLES grants, usage, ever, served

vars == <<grants, usage, ever, served>>

Init ==
  /\ grants = [o \in Owners |-> <<>>]
  /\ usage = [c \in Key |-> 0]
  /\ ever = [o \in Owners |-> {}]
  /\ served = [c \in Key |-> 0]

-----------------------------------------------------------------------------
(* The operations.                                                         *)

\* The grants that cover k, and the one _matching returns: the oldest.
Matches(o, k) == {i \in DOMAIN grants[o] : Covers(grants[o][i], k)}

\* A plausible mistake: the newest grant rules.
MatchingNewest(o, k) ==
  grants[o][CHOOSE i \in Matches(o, k) : \A j \in Matches(o, k) : j <= i]

Matching(o, k) ==
  grants[o][CHOOSE i \in Matches(o, k) : \A j \in Matches(o, k) : i <= j]

\* A plausible mistake: the quota admits one query too many.
DecisionLate(o, k, y) ==
  IF Matches(o, k) = {} THEN "consent_required"
  ELSE IF usage[<<o, k, y>>] = 0 \/ Admits(Matching(o, k), usage[<<o, k, y>>] - 1)
  THEN "allow" ELSE "deny"

\* The decision of check(k, y).
Decision(o, k, y) ==
  IF Matches(o, k) = {} THEN "consent_required"
  ELSE IF Admits(Matching(o, k), usage[<<o, k, y>>]) THEN "allow" ELSE "deny"

Grant(o, g) ==
  /\ Len(grants[o]) < MaxGrants
  /\ grants' = [grants EXCEPT ![o] = Append(@, g)]
  /\ ever' = [ever EXCEPT ![o] = @ \cup {g}]
  /\ UNCHANGED <<usage, served>>

\* A plausible mistake: revoke removes only the grant in force.
RevokedFirst(o, r, alg) ==
  LET named == {i \in DOMAIN grants[o] : /\ grants[o][i].requestor_id = r
                                         /\ grants[o][i].algorithm_id = alg}
  IN  {i \in named : \A j \in named : i <= j}

\* The grants that revoke(r, alg) removes, whatever attribute they are for.
Revoked(o, r, alg) ==
  {i \in DOMAIN grants[o] : /\ grants[o][i].requestor_id = r
                            /\ grants[o][i].algorithm_id = alg}

\* A plausible mistake: a withdrawn permission takes its counter along.
RevokeForgetful(o, r, alg) ==
  LET kept == DOMAIN grants[o] \ Revoked(o, r, alg)
  IN  \E pick \in [1..Cardinality(kept) -> kept] :
        /\ \A i, j \in DOMAIN pick : i < j => pick[i] < pick[j]
        /\ grants' = [grants EXCEPT ![o] = [i \in DOMAIN pick |-> @[pick[i]]]]
        /\ usage' = [c \in Key |->
             IF c[1] = o /\ c[2].requestor_id = r /\ c[2].algorithm_id = alg
             THEN 0 ELSE usage[c]]
        /\ UNCHANGED <<ever, served>>

\* revoke: the list is rebuilt, in order, from the grants that remain (pick
\* enumerates their places from left to right).  The usage counters stay.
Revoke(o, r, alg) ==
  LET kept == DOMAIN grants[o] \ Revoked(o, r, alg)
  IN  \E pick \in [1..Cardinality(kept) -> kept] :
        /\ \A i, j \in DOMAIN pick : i < j => pick[i] < pick[j]
        /\ grants' = [grants EXCEPT ![o] = [i \in DOMAIN pick |-> @[pick[i]]]]
        /\ UNCHANGED <<usage, ever, served>>

\* check admits the query, it is executed, and consume counts it.
CheckAndConsume(o, k, y) ==
  /\ Decision(o, k, y) = "allow"
  /\ served[<<o, k, y>>] < MaxUsage
  /\ usage' = [usage EXCEPT ![<<o, k, y>>] = @ + 1]
  /\ served' = [served EXCEPT ![<<o, k, y>>] = @ + 1]
  /\ UNCHANGED <<grants, ever>>

Next ==
  \E o \in Owners :
    \/ \E g \in Permissions : Grant(o, g)
    \/ \E r \in Requestors, alg \in Algorithms : Revoke(o, r, alg)
    \/ \E k \in Request, y \in Years : CheckAndConsume(o, k, y)

Spec == Init /\ [][Next]_vars

-----------------------------------------------------------------------------
(* Properties.                                                             *)

(***************************************************************************)
(* The ledgers hold lists of permissions and counters, within the bounds.  *)
(***************************************************************************)
TypeOK ==
  /\ grants \in [Owners -> Seq(StandingPermission)]
  /\ usage \in [Key -> Nat]
  /\ ever \in [Owners -> SUBSET StandingPermission]
  /\ served \in [Key -> Nat]

(***************************************************************************)
(* "Twice per requestor per year": no sequence of grants, withdrawals and  *)
(* renewed grants lets a requestor run an algorithm more often in a year   *)
(* than the most generous permission the owner ever granted it allows, and *)
(* never at all without one.                                               *)
(***************************************************************************)
QuotaHonoured ==
  \A o \in Owners, k \in Request, y \in Years : served[<<o, k, y>>] > 0 =>
    \E g \in ever[o] :
      /\ Covers(g, k)
      /\ g.quota_per_year = NoQuota \/ served[<<o, k, y>>] <= g.quota_per_year

(***************************************************************************)
(* A withdrawal never opens a door: no query is admitted after a revoke    *)
(* that was not admitted before it, although grants hidden behind the one  *)
(* in force may have had larger quotas.                                    *)
(***************************************************************************)
RevokeNeverAdmits ==
  [][\A o \in Owners, k \in Request, y \in Years :
       Len(grants'[o]) < Len(grants[o]) =>
         (Decision(o, k, y)' = "allow" => Decision(o, k, y) = "allow")]_vars

(***************************************************************************)
(* The oldest permission rules: while one stands, granting the same query  *)
(* again, with whatever quota, changes no decision.                        *)
(***************************************************************************)
RegrantChangesNothing ==
  [][\A o \in Owners, k \in Request, y \in Years :
       /\ Len(grants'[o]) > Len(grants[o])
       /\ Matches(o, k) # {}
       => Decision(o, k, y)' = Decision(o, k, y)]_vars

(***************************************************************************)
(* The ledger implements the promise of OwnerConsent: the permissions that *)
(* stand are those on the list, whatever their order and multiplicity.     *)
(***************************************************************************)
Standing == [o \in Owners |-> {grants[o][i] : i \in DOMAIN grants[o]}]

Consent == INSTANCE OwnerConsent WITH standing <- Standing

ImplementsConsent == Consent!Spec

===============================================================================
