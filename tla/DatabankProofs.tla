---------------------------- MODULE DatabankProofs ----------------------------
(***************************************************************************)
(* Theorems about Databank, for every set of owners, requestors,           *)
(* algorithms, attributes, policies, permissions and queries.              *)
(*                                                                         *)
(* What LeakageBudgetProofs and PermissionLedgerProofs show of the two     *)
(* components is used here through instances of those modules.             *)
(***************************************************************************)
EXTENDS Databank, Counting

LedgerProofs == INSTANCE PermissionLedgerProofs

BudgetProofs == INSTANCE LeakageBudgetProofs

-----------------------------------------------------------------------------
(* The components, in Databank and in the modules with their proofs.       *)

(***************************************************************************)
(* The Databank's constants are what the ledgers ask for.                  *)
(***************************************************************************)
LEMMA LedgerConstants ==
  /\ Permissions \subseteq LedgerProofs!StandingPermission
  /\ NoQuota \notin Nat
  /\ MaxGrants \in Nat /\ MaxUsage \in Nat
BY PermissionsAssumption, BoundsAssumption
   DEF StandingPermission, LedgerProofs!StandingPermission

(***************************************************************************)
(* The Databank's constants are what the budget asks for.                  *)
(***************************************************************************)
LEMMA BudgetConstants ==
  /\ DAY \in Nat \ {0}
  /\ \A p \in Policies : p \in BudgetProofs!DatumPolicy /\ BudgetProofs!ValidPolicy(p)
  /\ MaxTime \in Nat /\ MaxUses \in Nat
  /\ NoPolicy \notin Policies /\ NoGroup \notin Groups
<1>1. ASSUME NEW p \in Policies
      PROVE  p \in BudgetProofs!DatumPolicy /\ BudgetProofs!ValidPolicy(p)
  BY BudgetAssumption
     DEF Budget!DatumPolicy, Budget!ValidPolicy, Budget!per_window,
         Budget!answers_to_resolve, BudgetProofs!DatumPolicy,
         BudgetProofs!ValidPolicy, BudgetProofs!per_window,
         BudgetProofs!answers_to_resolve
<1> QED BY <1>1, BudgetAssumption, BoundsAssumption

(***************************************************************************)
(* The ledgers that Databank calls are those the theorems are about.       *)
(***************************************************************************)
LEMMA SameLedger ==
  /\ Ledger!Init <=> LedgerProofs!Init
  /\ Ledger!Next <=> LedgerProofs!Next
  /\ \A o, g : Ledger!Grant(o, g) <=> LedgerProofs!Grant(o, g)
  /\ \A o, r, alg : Ledger!Revoke(o, r, alg) <=> LedgerProofs!Revoke(o, r, alg)
  /\ \A o, k, y : Ledger!CheckAndConsume(o, k, y) <=> LedgerProofs!CheckAndConsume(o, k, y)
  /\ Ledger!vars = LedgerProofs!vars
  /\ Ledger!TypeOK <=> LedgerProofs!TypeOK
<1>1. \A S : Ledger!Cardinality(S) = LedgerProofs!Cardinality(S)
  BY DEF Ledger!Cardinality, LedgerProofs!Cardinality,
         Ledger!IsFiniteSet, LedgerProofs!IsFiniteSet
<1>2. Ledger!Request = LedgerProofs!Request /\ Ledger!Key = LedgerProofs!Key
      /\ Ledger!StandingPermission = LedgerProofs!StandingPermission
  BY DEF Ledger!Request, LedgerProofs!Request, Ledger!Key, LedgerProofs!Key,
         Ledger!StandingPermission, LedgerProofs!StandingPermission
<1>3. \A o, k, y : Ledger!Decision(o, k, y) = LedgerProofs!Decision(o, k, y)
  BY DEF Ledger!Decision, LedgerProofs!Decision, Ledger!Matches, LedgerProofs!Matches,
         Ledger!Matching, LedgerProofs!Matching, Ledger!Admits, LedgerProofs!Admits,
         Ledger!Covers, LedgerProofs!Covers
<1>4. \A o, g : Ledger!Grant(o, g) <=> LedgerProofs!Grant(o, g)
  BY DEF Ledger!Grant, LedgerProofs!Grant
<1>5. \A o, r, alg : Ledger!Revoke(o, r, alg) <=> LedgerProofs!Revoke(o, r, alg)
  BY <1>1 DEF Ledger!Revoke, LedgerProofs!Revoke, Ledger!Revoked, LedgerProofs!Revoked
<1>6. \A o, k, y : Ledger!CheckAndConsume(o, k, y) <=> LedgerProofs!CheckAndConsume(o, k, y)
  BY <1>3 DEF Ledger!CheckAndConsume, LedgerProofs!CheckAndConsume
<1>7. Ledger!Next <=> LedgerProofs!Next
  BY <1>2, <1>4, <1>5, <1>6 DEF Ledger!Next, LedgerProofs!Next
<1> QED BY <1>2, <1>4, <1>5, <1>6, <1>7 DEF Ledger!Init, LedgerProofs!Init, Ledger!vars, LedgerProofs!vars,
           Ledger!TypeOK, LedgerProofs!TypeOK

(***************************************************************************)
(* The budget that Databank calls is the one the theorems are about.       *)
(***************************************************************************)
LEMMA SameBudget ==
  /\ Budget!Init <=> BudgetProofs!Init
  /\ Budget!Tick <=> BudgetProofs!Tick
  /\ \A p : Budget!Add(p) <=> BudgetProofs!Add(p)
  /\ \A o, r, a, at : Budget!Check(o, r, a, at) <=> BudgetProofs!Check(o, r, a, at)
  /\ \A o, r, a, at :
       Budget!CheckAndConsume(o, r, a, at) <=> BudgetProofs!CheckAndConsume(o, r, a, at)
  /\ \A a : Budget!policy_for(a) = BudgetProofs!policy_for(a)
  /\ \A o, r, a, at : Budget!Decision(o, r, a, at) = BudgetProofs!Decision(o, r, a, at)
  /\ \A o, a, at : Budget!RemainingOf(o, a, at) = BudgetProofs!RemainingOf(o, a, at)
  /\ \A p : Budget!per_window(p) = BudgetProofs!per_window(p)
  /\ Budget!Next <=> BudgetProofs!Next
  /\ Budget!vars = BudgetProofs!vars
  /\ Budget!Datum = BudgetProofs!Datum /\ Budget!Times = BudgetProofs!Times
  /\ Budget!TypeOK <=> BudgetProofs!TypeOK
<1>1. \A S : Budget!Cardinality(S) = BudgetProofs!Cardinality(S)
  BY DEF Budget!Cardinality, BudgetProofs!Cardinality,
         Budget!IsFiniteSet, BudgetProofs!IsFiniteSet
<1>2. /\ Budget!Datum = BudgetProofs!Datum /\ Budget!Times = BudgetProofs!Times
      /\ Budget!Use = BudgetProofs!Use
  BY DEF Budget!Datum, BudgetProofs!Datum, Budget!Times, BudgetProofs!Times,
         Budget!Use, BudgetProofs!Use
<1>3. \A a : Budget!policy_for(a) = BudgetProofs!policy_for(a)
  BY DEF Budget!policy_for, BudgetProofs!policy_for
<1>4. \A p : Budget!per_window(p) = BudgetProofs!per_window(p)
  BY DEF Budget!per_window, BudgetProofs!per_window,
         Budget!answers_to_resolve, BudgetProofs!answers_to_resolve
<1>5. \A s, at : Budget!Pruned(s, at) = BudgetProofs!Pruned(s, at)
  BY DEF Budget!Pruned, BudgetProofs!Pruned, Budget!Dropped, BudgetProofs!Dropped,
         Budget!Stale, BudgetProofs!Stale
<1>6. \A p, s, r, at : Budget!Verdict(p, s, r, at) = BudgetProofs!Verdict(p, s, r, at)
  BY <1>1, <1>4 DEF Budget!Verdict, BudgetProofs!Verdict, Budget!Judge, BudgetProofs!Judge,
         Budget!InWindow, BudgetProofs!InWindow, Budget!Counted, BudgetProofs!Counted
<1>7. \A o, r, a, at : Budget!Decision(o, r, a, at) = BudgetProofs!Decision(o, r, a, at)
  BY <1>3, <1>5, <1>6 DEF Budget!Decision, BudgetProofs!Decision,
         Budget!Governed, BudgetProofs!Governed
<1>a. \A o, a, at : Budget!RemainingOf(o, a, at) = BudgetProofs!RemainingOf(o, a, at)
  BY <1>1, <1>3, <1>5 DEF Budget!RemainingOf, BudgetProofs!RemainingOf,
         Budget!Counted, BudgetProofs!Counted
<1>8. \A o, r, a, at : Budget!AfterCheck(o, r, a, at) = BudgetProofs!AfterCheck(o, r, a, at)
  BY <1>3, <1>5 DEF Budget!AfterCheck, BudgetProofs!AfterCheck, Budget!Recent,
         BudgetProofs!Recent, Budget!Governed, BudgetProofs!Governed
<1>9. \A o, r, a, at : Budget!Check(o, r, a, at) <=> BudgetProofs!Check(o, r, a, at)
  BY <1>8 DEF Budget!Check, BudgetProofs!Check
<1>10. \A o, r, a, at :
         Budget!CheckAndConsume(o, r, a, at) <=> BudgetProofs!CheckAndConsume(o, r, a, at)
  <2>1. Budget!Cardinality(Budget!AllUses) = BudgetProofs!Cardinality(BudgetProofs!AllUses)
    BY <1>1, <1>2 DEF Budget!AllUses, BudgetProofs!AllUses
  <2>2. \A p, r, at : Budget!Recorded(p, r, at) = BudgetProofs!Recorded(p, r, at)
    BY DEF Budget!Recorded, BudgetProofs!Recorded
  <2> SUFFICES ASSUME NEW o, NEW r, NEW a, NEW at
               PROVE  Budget!CheckAndConsume(o, r, a, at)
                        <=> BudgetProofs!CheckAndConsume(o, r, a, at)
    OBVIOUS
  <2> DEFINE p == BudgetProofs!policy_for(a)
             d == <<o, p.group>>
             s == BudgetProofs!AfterCheck(o, r, a, at)
             use == BudgetProofs!Recorded(p, r, at)
             Charges ==
               /\ BudgetProofs!Decision(o, r, a, at) = "allow"
               /\ p # NoPolicy
               /\ BudgetProofs!Cardinality(BudgetProofs!AllUses) < MaxUses
               /\ uses' = [s EXCEPT ![d] = Append(@, use)]
               /\ history' = [history EXCEPT ![d] = Append(@, use)]
               /\ UNCHANGED <<policies, group_of, now>>
  <2>3. BudgetProofs!CheckAndConsume(o, r, a, at) <=> Charges
    BY DEF BudgetProofs!CheckAndConsume
  <2>4. Budget!CheckAndConsume(o, r, a, at) <=> Charges
    BY <1>3, <1>7, <1>8, <2>1, <2>2, Zenon DEF Budget!CheckAndConsume
  <2> QED BY <2>3, <2>4
<1>11. Budget!Init <=> BudgetProofs!Init
  BY <1>2 DEF Budget!Init, BudgetProofs!Init
<1>12. (Budget!Tick <=> BudgetProofs!Tick) /\ \A p : Budget!Add(p) <=> BudgetProofs!Add(p)
  BY DEF Budget!Tick, BudgetProofs!Tick, Budget!Add, BudgetProofs!Add
<1>13. (Budget!TypeOK <=> BudgetProofs!TypeOK) /\ Budget!vars = BudgetProofs!vars
  BY <1>2 DEF Budget!TypeOK, BudgetProofs!TypeOK, Budget!vars, BudgetProofs!vars
<1>14. Budget!Next <=> BudgetProofs!Next
  <2>1. \A o, a, at : Budget!Remaining(o, a, at) <=> BudgetProofs!Remaining(o, a, at)
    BY <1>3, <1>5 DEF Budget!Remaining, BudgetProofs!Remaining, Budget!Recent,
                      BudgetProofs!Recent
  <2>2. \A at : Budget!Operation(at) <=> BudgetProofs!Operation(at)
    BY <1>9, <1>10, <2>1 DEF Budget!Operation, BudgetProofs!Operation
  <2> QED BY <1>12, <2>2 DEF Budget!Next, BudgetProofs!Next
<1> QED BY <1>2, <1>3, <1>4, <1>7, <1>9, <1>10, <1>11, <1>12, <1>13, <1>14, <1>a

-----------------------------------------------------------------------------
(* The steps of the Databank.                                              *)

\* What a call of submit_query amounts to for the log, the ledgers and the
\* budget.  It asks, and nothing is charged; or it pays, and is logged so.
Asks(q) ==
  /\ UNCHANGED <<records, ledger>>
  /\ \/ audit' = audit
     \/ \E e \in AuditEntry : ~Charged(e) /\ audit' = Append(audit, e)
  /\ \/ UNCHANGED budget
     \/ BudgetProofs!Check(q.owner_id, q.requestor_id, q.attribute, At(q))

PaidEntry(q, e) ==
  /\ e \in AuditEntry /\ Charged(e)
  /\ e.at = now /\ e.owner_id = q.owner_id /\ e.request = RequestOf(q)

Pays(q) ==
  /\ UNCHANGED records
  /\ LedgerProofs!CheckAndConsume(q.owner_id, RequestOf(q), Year(q))
  /\ \E e \in AuditEntry : PaidEntry(q, e) /\ audit' = Append(audit, e)
  /\ IF BudgetProofs!policy_for(q.attribute) = NoPolicy
     THEN UNCHANGED budget
     ELSE BudgetProofs!CheckAndConsume(q.owner_id, q.requestor_id, q.attribute, At(q))

\* The other steps leave the log alone and move one component at most.
Rests ==
  /\ UNCHANGED <<audit, submitted>>
  /\ records' \subseteq records \cup (Owners \X Attributes)
  /\ \/ UNCHANGED <<ledger, budget>>
     \/ /\ \E o \in Owners :
             \/ \E g \in Permissions : LedgerProofs!Grant(o, g)
             \/ \E r \in Requestors, alg \in Algorithms : LedgerProofs!Revoke(o, r, alg)
        /\ UNCHANGED budget
     \/ /\ BudgetProofs!Tick \/ \E p \in Policies : BudgetProofs!Add(p)
        /\ UNCHANGED ledger

(***************************************************************************)
(* The fields of a query.                                                  *)
(***************************************************************************)
LEMMA QueryFacts ==
  ASSUME NEW q \in Queries, now \in Budget!Times
  PROVE  /\ q.owner_id \in Owners /\ q.requestor_id \in Requestors
         /\ q.attribute \in Attributes
         /\ At(q) \in BudgetProofs!Times
         /\ Year(q) \in Years
         /\ Registered(q) => RequestOf(q) \in Request
<1>1. q \in Query
  BY QueriesAssumption
<1>2. YearOf(now) \in Years
  BY YearAssumption DEF YearOf, Budget!Times
<1>3. Budget!Times = BudgetProofs!Times
  BY SameBudget
<1> QED BY <1>1, <1>2, <1>3 DEF Query, At, Year, Registered, RequestOf, Request

(***************************************************************************)
(* Whichever of its eight ways out submit_query takes, it asks or it pays; *)
(* and it pays exactly when it logs that the algorithm answered or refused.*)
(***************************************************************************)
LEMMA CallAsksOrPays ==
  ASSUME NEW q \in Queries, now \in Budget!Times, Submit(q)
  PROVE  Call /\ (Asks(q) \/ (Applicable(q) /\ Pays(q)))
<1>1. q.owner_id \in Owners /\ (Registered(q) => RequestOf(q) \in Request)
  BY QueryFacts
<1>2. ASSUME Registered(q),
             NEW decision \in {"allow", "deny", "consent_required"},
             NEW reason \in {"attribute", "permission", "budget", "no_record",
                             "refused", "answered"},
             Log(q, decision, reason)
      PROVE  \E e \in AuditEntry :
               /\ e.at = now /\ e.owner_id = q.owner_id
               /\ e.request = RequestOf(q) /\ e.reason = reason
               /\ audit' = Append(audit, e)
  <2> DEFINE e == [at |-> now, owner_id |-> q.owner_id, request |-> RequestOf(q),
                   decision |-> decision, reason |-> reason]
  <2>1. e \in AuditEntry
    BY <1>1, <1>2 DEF AuditEntry
  <2>2. audit' = Append(audit, e)
    BY <1>2 DEF Log
  <2> QED BY <2>1, <2>2
<1>3. AskBudget(q)
        => BudgetProofs!Check(q.owner_id, q.requestor_id, q.attribute, At(q))
  BY SameBudget DEF AskBudget
<1>4. ASSUME Charge(q), UNCHANGED records,
             \E e \in AuditEntry : PaidEntry(q, e) /\ audit' = Append(audit, e)
      PROVE  Pays(q)
  <2>1. LedgerProofs!CheckAndConsume(q.owner_id, RequestOf(q), Year(q))
    BY <1>4, SameLedger DEF Charge
  <2>2. IF BudgetProofs!policy_for(q.attribute) = NoPolicy
        THEN UNCHANGED budget
        ELSE BudgetProofs!CheckAndConsume(q.owner_id, q.requestor_id, q.attribute, At(q))
    BY <1>4, SameBudget DEF Charge
  <2> QED BY <1>4, <2>1, <2>2 DEF Pays
<1>5. CASE UnknownAlgorithm(q)
  BY <1>5 DEF UnknownAlgorithm, Asks
<1>6. CASE WrongAttribute(q)
  <2>1. Registered(q) /\ Log(q, "deny", "attribute")
    BY <1>6 DEF WrongAttribute
  <2>2. \E e \in AuditEntry : ~Charged(e) /\ audit' = Append(audit, e)
    BY <1>2, <2>1 DEF Charged
  <2> QED BY <1>6, <2>2 DEF WrongAttribute, Asks
<1>7. CASE NotPermitted(q)
  <2>1. Registered(q) /\ Log(q, Permission(q), "permission")
    BY <1>7 DEF NotPermitted, Applicable
  <2>2. Permission(q) \in {"allow", "deny", "consent_required"}
    BY DEF Permission, Ledger!Decision
  <2>3. \E e \in AuditEntry : ~Charged(e) /\ audit' = Append(audit, e)
    BY <1>2, <2>1, <2>2 DEF Charged
  <2> QED BY <1>7, <2>3 DEF NotPermitted, Asks
<1>8. CASE OverBudget(q)
  <2>1. Registered(q) /\ Log(q, "deny", "budget")
    BY <1>8 DEF OverBudget, Permitted, Applicable
  <2>2. \E e \in AuditEntry : ~Charged(e) /\ audit' = Append(audit, e)
    BY <1>2, <2>1 DEF Charged
  <2> QED BY <1>3, <1>8, <2>2 DEF OverBudget, Asks
<1>9. CASE NoRecord(q)
  <2>1. Registered(q) /\ Log(q, "deny", "no_record")
    BY <1>9 DEF NoRecord, Permitted, Applicable
  <2>2. \E e \in AuditEntry : ~Charged(e) /\ audit' = Append(audit, e)
    BY <1>2, <2>1 DEF Charged
  <2> QED BY <1>3, <1>9, <2>2 DEF NoRecord, Asks
<1>10. CASE Refused(q)
  <2>1. Registered(q) /\ Log(q, "deny", "refused")
    BY <1>10 DEF Refused, Executed, Permitted, Applicable
  <2>2. \E e \in AuditEntry : PaidEntry(q, e) /\ audit' = Append(audit, e)
    BY <1>2, <2>1 DEF PaidEntry, Charged
  <2> QED BY <1>4, <1>10, <2>2 DEF Refused, Executed, Permitted
<1>11. CASE Answered(q)
  <2>1. Registered(q) /\ Log(q, "allow", "answered")
    BY <1>11 DEF Answered, Executed, Permitted, Applicable
  <2>2. \E e \in AuditEntry : PaidEntry(q, e) /\ audit' = Append(audit, e)
    BY <1>2, <2>1 DEF PaidEntry, Charged
  <2> QED BY <1>4, <1>11, <2>2 DEF Answered, Executed, Permitted
<1>12. CASE Faulted(q)
  BY <1>3, <1>12 DEF Faulted, Asks
<1> QED BY <1>5, <1>6, <1>7, <1>8, <1>9, <1>10, <1>11, <1>12 DEF Submit

(***************************************************************************)
(* Every step of the Databank is a call of submit_query, or one of those   *)
(* that leave the log alone.                                               *)
(***************************************************************************)
LEMMA StepIsCallOrRests ==
  ASSUME [Next]_vars
  PROVE  (\E q \in Queries : Submit(q)) \/ Rests
<1>1. CASE UNCHANGED vars
  BY <1>1 DEF vars, own, Rests
<1>2. ASSUME NEW o \in Owners, NEW a \in Attributes, Deposit(o, a) \/ Erase(o, a)
      PROVE  Rests
  BY <1>2 DEF Deposit, Erase, Rests
<1>3. ASSUME NEW o \in Owners, NEW g \in Permissions, Grant(o, g)
      PROVE  Rests
  BY <1>3, SameLedger DEF Grant, own, Rests
<1>4. ASSUME NEW o \in Owners, NEW r \in Requestors, NEW alg \in Algorithms,
             Revoke(o, r, alg)
      PROVE  Rests
  BY <1>4, SameLedger DEF Revoke, own, Rests
<1>5. ASSUME NEW p \in Policies, Configure(p) PROVE Rests
  BY <1>5, SameBudget DEF Configure, own, Rests
<1>6. CASE Tick
  BY <1>6, SameBudget DEF Tick, own, Rests
<1> QED BY <1>1, <1>2, <1>3, <1>4, <1>5, <1>6 DEF Next

-----------------------------------------------------------------------------
(* The components inside the Databank.                                     *)

\* No requestor names an instant, or a date: each query is about the day it
\* is asked, as it is when submit_query is called without submitted_at and
\* as_of.
SubmittedNow == \A q \in Queries : q.submitted_at = None

AskedForToday == \A q \in Queries : q.as_of = None

(***************************************************************************)
(* Every step of the Databank is a step of the ledgers or leaves them      *)
(* alone.                                                                  *)
(***************************************************************************)
LEMMA StepIsLedger ==
  ASSUME now \in Budget!Times, [Next]_vars
  PROVE  [LedgerProofs!Next]_(LedgerProofs!vars)
<1>1. ASSUME NEW q \in Queries, Applicable(q), Pays(q) PROVE LedgerProofs!Next
  <2>1. q.owner_id \in Owners /\ Year(q) \in Years /\ RequestOf(q) \in Request
    BY <1>1, QueryFacts DEF Applicable
  <2>2. LedgerProofs!CheckAndConsume(q.owner_id, RequestOf(q), Year(q))
    BY <1>1 DEF Pays
  <2>3. LedgerProofs!Request = Request
    BY DEF LedgerProofs!Request, Request
  <2> QED BY <2>1, <2>2, <2>3 DEF LedgerProofs!Next
<1>2. ASSUME NEW q \in Queries, Asks(q) PROVE UNCHANGED LedgerProofs!vars
  BY <1>2 DEF Asks, ledger, LedgerProofs!vars
<1>3. Rests => [LedgerProofs!Next]_(LedgerProofs!vars)
  BY DEF Rests, ledger, LedgerProofs!vars, LedgerProofs!Next
<1> QED BY <1>1, <1>2, <1>3, StepIsCallOrRests, CallAsksOrPays

(***************************************************************************)
(* Every step of the Databank is a step of the budget, at the instant the  *)
(* query names, or leaves it alone.                                        *)
(***************************************************************************)
LEMMA StepIsBudget ==
  ASSUME now \in Budget!Times, [Next]_vars
  PROVE  [BudgetProofs!AnyStep]_(BudgetProofs!vars)
<1>1. ASSUME NEW q \in Queries, Asks(q) \/ Pays(q)
      PROVE  [BudgetProofs!Operation(At(q))]_(BudgetProofs!vars)
  <2>1. q.owner_id \in Owners /\ q.requestor_id \in Requestors /\ q.attribute \in Attributes
    BY QueryFacts
  <2> QED BY <1>1, <2>1 DEF Asks, Pays, budget, BudgetProofs!Operation, BudgetProofs!vars
<1>2. \A q \in Queries : At(q) \in BudgetProofs!Times
  BY QueryFacts
<1>3. Rests => [BudgetProofs!AnyStep]_(BudgetProofs!vars)
  BY DEF Rests, budget, BudgetProofs!vars, BudgetProofs!AnyStep
<1> QED BY <1>1, <1>2, <1>3, StepIsCallOrRests, CallAsksOrPays DEF BudgetProofs!AnyStep

(***************************************************************************)
(* When queries reach the budget as they are submitted, the clock of the   *)
(* budget is the clock of the Databank.                                    *)
(***************************************************************************)
LEMMA StepIsTimely ==
  ASSUME SubmittedNow, now \in Budget!Times, [Next]_vars
  PROVE  [BudgetProofs!Next]_(BudgetProofs!vars)
<1>1. ASSUME NEW q \in Queries, Asks(q) \/ Pays(q)
      PROVE  [BudgetProofs!Operation(now)]_(BudgetProofs!vars)
  <2>1. q.owner_id \in Owners /\ q.requestor_id \in Requestors /\ q.attribute \in Attributes
    BY QueryFacts
  <2>2. At(q) = now
    BY DEF SubmittedNow, At
  <2> QED BY <1>1, <2>1, <2>2
          DEF Asks, Pays, budget, BudgetProofs!Operation, BudgetProofs!vars
<1>2. Rests => [BudgetProofs!Next]_(BudgetProofs!vars)
  BY DEF Rests, budget, BudgetProofs!vars, BudgetProofs!Next
<1> QED BY <1>1, <1>2, StepIsCallOrRests, CallAsksOrPays DEF BudgetProofs!Next

\* What holds whatever instants and dates the queries name.
Typed ==
  /\ records \subseteq Owners \X Attributes
  /\ audit \in Seq(AuditEntry)
  /\ submitted \in 0..MaxSubmitted
  /\ LedgerProofs!IInv
  /\ BudgetProofs!Registered

(***************************************************************************)
(* The clock of the Databank is one of the instants of the model.          *)
(***************************************************************************)
LEMMA ClockTyped == Typed => now \in Budget!Times
BY SameBudget DEF Typed, BudgetProofs!Registered, BudgetProofs!TypeOK

(***************************************************************************)
(* The Databank starts empty.                                              *)
(***************************************************************************)
LEMMA InitTyped == Init => Typed
<1> SUFFICES ASSUME Init PROVE Typed
  OBVIOUS
<1>1. LedgerProofs!IInv
  BY SameLedger, LedgerProofs!InitIInv, LedgerConstants DEF Init
<1>2. BudgetProofs!Registered
  BY SameBudget, BudgetProofs!InitRegistered, BudgetConstants DEF Init
<1>3. audit \in Seq(AuditEntry)
  BY DEF Init
<1>4. submitted \in 0..MaxSubmitted
  BY BoundsAssumption DEF Init
<1> QED BY <1>1, <1>2, <1>3, <1>4 DEF Init, Typed

(***************************************************************************)
(* Every step keeps the types, and the components their invariants.        *)
(***************************************************************************)
LEMMA NextTyped == Typed /\ [Next]_vars => Typed'
<1> SUFFICES ASSUME Typed, [Next]_vars PROVE Typed'
  OBVIOUS
<1>1. now \in Budget!Times
  BY ClockTyped
<1>2. LedgerProofs!IInv'
  <2>1. [LedgerProofs!Next]_(LedgerProofs!vars)
    BY <1>1, StepIsLedger
  <2> QED BY <2>1, LedgerProofs!NextIInv, LedgerConstants DEF Typed
<1>3. BudgetProofs!Registered'
  <2>1. [BudgetProofs!AnyStep]_(BudgetProofs!vars)
    BY <1>1, StepIsBudget
  <2> QED BY <2>1, BudgetProofs!RegisteredStep, BudgetConstants DEF Typed
<1>4. (records \subseteq Owners \X Attributes)' /\ (audit \in Seq(AuditEntry))'
      /\ (submitted \in 0..MaxSubmitted)'
  <2>1. ASSUME NEW q \in Queries, Call, Asks(q) \/ Pays(q)
        PROVE  /\ records' = records
               /\ submitted' \in 0..MaxSubmitted
               /\ audit' \in Seq(AuditEntry)
    <3>1. submitted' \in 0..MaxSubmitted
      BY <2>1, BoundsAssumption DEF Call, Typed
    <3>2. \A e \in AuditEntry : Append(audit, e) \in Seq(AuditEntry)
      BY DEF Typed
    <3> QED BY <2>1, <3>1, <3>2 DEF Asks, Pays, Typed
  <2>2. CASE Rests
    BY <2>2 DEF Rests, Typed
  <2> QED BY <1>1, <2>1, <2>2, StepIsCallOrRests, CallAsksOrPays DEF Typed
<1> QED BY <1>2, <1>3, <1>4 DEF Typed

(***************************************************************************)
(* Every behaviour of the Databank keeps the invariants of its components. *)
(***************************************************************************)
THEOREM DatabankInvariant == Spec => []Typed
<1> QED BY InitTyped, NextTyped, PTL DEF Spec

(***************************************************************************)
(* The records, the log, the ledgers and the budget stay well-formed,      *)
(* whatever queries are submitted (databank.py: every way out of           *)
(* submit_query, deposit, erase and grant).                                *)
(***************************************************************************)
THEOREM TypeCorrect == Spec => []TypeOK
<1>1. Typed => TypeOK
  BY SameLedger, SameBudget DEF Typed, TypeOK, LedgerProofs!IInv, BudgetProofs!Registered
<1> QED BY <1>1, DatabankInvariant, PTL

(***************************************************************************)
(* Inside the Databank the ledgers keep the promise of PermissionLedger,   *)
(* and so every theorem about it holds of them (databank.py: submit_query  *)
(* checks and consumes within one call).                                   *)
(***************************************************************************)
THEOREM ImplementsLedger == Spec => Ledger!Spec
<1>1. Init => Ledger!Init
  BY DEF Init
<1>2. Typed /\ [Next]_vars => [Ledger!Next]_(Ledger!vars)
  BY ClockTyped, StepIsLedger, SameLedger DEF Ledger!vars, LedgerProofs!vars
<1> QED BY <1>1, <1>2, DatabankInvariant, PTL DEF Spec, Ledger!Spec

(***************************************************************************)
(* When queries reach the Databank as they are submitted, both components  *)
(* keep their promises inside it.                                          *)
(***************************************************************************)
THEOREM ComponentsImplemented ==
  ASSUME SubmittedNow
  PROVE  Spec => ImplementsComponents
<1>1. Init => Budget!Init
  BY DEF Init
<1>2. Typed /\ [Next]_vars => [Budget!Next]_(Budget!vars)
  BY ClockTyped, StepIsTimely, SameBudget DEF Budget!vars, BudgetProofs!vars
<1>3. Spec => Budget!Spec
  BY <1>1, <1>2, DatabankInvariant, PTL DEF Spec, Budget!Spec
<1> QED BY <1>3, ImplementsLedger, PTL DEF ImplementsComponents

(***************************************************************************)
(* Whatever else a Databank does, and whichever year a query names: what   *)
(* its counters hold is within a permission that was granted, and no       *)
(* withdrawal admits a query that was denied before (databank.py:          *)
(* submit_query is the only caller of check and consume).                  *)
(***************************************************************************)
THEOREM ConsentInside ==
  Spec => []LedgerProofs!QuotaHonoured /\ [][LedgerProofs!Tightens]_vars
<1>1. Typed => LedgerProofs!IInv
  BY DEF Typed
<1>2. LedgerProofs!IInv => LedgerProofs!QuotaHonoured /\ LedgerProofs!TypeOK
  BY DEF LedgerProofs!IInv
<1>3. Typed /\ [Next]_vars /\ LedgerProofs!TypeOK /\ LedgerProofs!TypeOK'
        => LedgerProofs!Tightens
  BY ClockTyped, StepIsLedger, LedgerConstants, LedgerProofs!StepTightens
<1> QED BY <1>1, <1>2, <1>3, DatabankInvariant, PTL DEF Spec

-----------------------------------------------------------------------------
(* The statement.                                                          *)

(***************************************************************************)
(* The places of a log are a finite set of natural numbers.                *)
(***************************************************************************)
LEMMA PlacesFinite ==
  ASSUME audit \in Seq(AuditEntry), NEW S \in SUBSET DOMAIN audit
  PROVE  S \in SUBSET Nat /\ IsFiniteSet(S) /\ Cardinality(S) \in Nat
<1>1. IsFiniteSet(DOMAIN audit) /\ DOMAIN audit \subseteq Nat
  BY FS_Interval
<1> QED BY <1>1, FS_Subset, FS_CardinalityType

(***************************************************************************)
(* Recording an entry adds the last place to what its owner paid, if the   *)
(* entry is charged, and disturbs nothing that was logged.                 *)
(***************************************************************************)
LEMMA EntryAppended ==
  ASSUME audit \in Seq(AuditEntry), NEW e \in AuditEntry, audit' = Append(audit, e)
  PROVE  /\ Len(audit) + 1 \notin DOMAIN audit
         /\ DOMAIN audit' = DOMAIN audit \cup {Len(audit) + 1}
         /\ audit'[Len(audit) + 1] = e
         /\ \A i \in DOMAIN audit : audit'[i] = audit[i] /\ i < Len(audit) + 1
         /\ \A o, K :
              Paid(o, K)' = IF Charged(e) /\ e.owner_id = o /\ e.request \in K
                            THEN Paid(o, K) \cup {Len(audit) + 1}
                            ELSE Paid(o, K)
<1> DEFINE n == Len(audit)
<1>1. n \in Nat /\ DOMAIN audit = 1..n /\ DOMAIN audit' = 1..n + 1
  OBVIOUS
<1>2. audit'[n + 1] = e /\ \A i \in 1..n : audit'[i] = audit[i]
  OBVIOUS
<1> HIDE DEF n
<1>3. n + 1 \notin 1..n /\ 1..n + 1 = (1..n) \cup {n + 1} /\ \A i \in 1..n : i < n + 1
  BY <1>1
<1>4. ASSUME NEW o, NEW K
      PROVE  Paid(o, K)' = IF Charged(e) /\ e.owner_id = o /\ e.request \in K
                           THEN Paid(o, K) \cup {n + 1}
                           ELSE Paid(o, K)
  BY <1>1, <1>2, <1>3 DEF Paid, Charged
<1> QED BY <1>1, <1>2, <1>3, <1>4 DEF n

\* What no step but a paid call does.
Idle ==
  /\ \A o, K : Paid(o, K)' = Paid(o, K)
  /\ \A i \in DOMAIN audit : audit'[i] = audit[i]
  /\ UNCHANGED <<usage, served, history>>

(***************************************************************************)
(* Only a call that pays adds a charged entry, counts a query or records a *)
(* use; it does all three.                                                 *)
(***************************************************************************)
LEMMA StepIdlesOrPays ==
  ASSUME Typed, [Next]_vars
  PROVE  Idle \/ \E q \in Queries : Applicable(q) /\ Pays(q)
<1>1. audit \in Seq(AuditEntry) /\ now \in Budget!Times
  BY ClockTyped DEF Typed
<1>2. ASSUME audit' = audit
      PROVE  (\A o, K : Paid(o, K)' = Paid(o, K)) /\ \A i \in DOMAIN audit : audit'[i] = audit[i]
  BY <1>2 DEF Paid, Charged
<1>3. ASSUME NEW q \in Queries, Asks(q) PROVE Idle
  <2>1. UNCHANGED <<usage, served, history>>
    BY <1>3 DEF Asks, ledger, budget, BudgetProofs!Check
  <2>2. CASE audit' = audit
    BY <1>2, <2>1, <2>2 DEF Idle
  <2>3. ASSUME NEW e \in AuditEntry, ~Charged(e), audit' = Append(audit, e)
        PROVE  Idle
    BY <1>1, <2>1, <2>3, EntryAppended DEF Idle
  <2> QED BY <1>3, <2>2, <2>3 DEF Asks
<1>4. Rests => Idle
  <2> SUFFICES ASSUME Rests PROVE Idle
    OBVIOUS
  <2>1. audit' = audit
    BY DEF Rests
  <2>2. UNCHANGED <<usage, served, history>>
    BY DEF Rests, ledger, budget, LedgerProofs!Grant, LedgerProofs!Revoke,
           BudgetProofs!Tick, BudgetProofs!Add
  <2> QED BY <1>2, <2>1, <2>2 DEF Idle
<1> QED BY <1>1, <1>3, <1>4, StepIsCallOrRests, CallAsksOrPays

(***************************************************************************)
(* What a paid call does to the counters of the ledgers.                   *)
(***************************************************************************)
LEMMA PaidCallCounts ==
  ASSUME Typed, NEW q \in Queries, Applicable(q), Pays(q)
  PROVE  LET c == <<q.owner_id, RequestOf(q), Year(q)>>
         IN  /\ c \in Key
             /\ \A d \in Key : usage'[d] = IF d = c THEN usage[d] + 1 ELSE usage[d]
             /\ \A d \in Key : served'[d] = IF d = c THEN served[d] + 1 ELSE served[d]
             /\ ever' = ever
<1> DEFINE c == <<q.owner_id, RequestOf(q), Year(q)>>
<1>1. c \in Key
  BY ClockTyped, QueryFacts DEF Applicable, Key
<1>2. LedgerProofs!Key = Key
  BY DEF LedgerProofs!Key, Key, LedgerProofs!Request, Request
<1>3. usage \in [Key -> Nat] /\ served \in [Key -> Nat]
  BY <1>2 DEF Typed, LedgerProofs!IInv, LedgerProofs!TypeOK
<1>4. /\ usage' = [usage EXCEPT ![c] = @ + 1]
      /\ served' = [served EXCEPT ![c] = @ + 1]
      /\ ever' = ever
  BY DEF Pays, LedgerProofs!CheckAndConsume
<1> HIDE DEF c
<1> QED BY <1>1, <1>3, <1>4 DEF c

\* The queries of kind k counted for owner o are as many as those she paid.
CountsAgree(o, k) ==
  /\ IsFiniteSet(Counted(o, k))
  /\ Cardinality(Counted(o, k)) = Cardinality(Paid(o, {k}))

StatementCounts == \A o \in Owners, k \in Request : CountsAgree(o, k)

(***************************************************************************)
(* Counting one more query of a year adds its number to those of the year. *)
(***************************************************************************)
LEMMA OneMoreCounted ==
  ASSUME NEW o, NEW k, NEW y \in Years, NEW n \in Nat,
         usage[<<o, k, y>>] = n, usage'[<<o, k, y>>] = n + 1,
         \A z \in Years : z # y => usage'[<<o, k, z>>] = usage[<<o, k, z>>]
  PROVE  /\ Counted(o, k)' = Counted(o, k) \cup {<<y, n + 1>>}
         /\ <<y, n + 1>> \notin Counted(o, k)
<1> DEFINE Old(z) == {z} \X (1..usage[<<o, k, z>>])
           New(z) == {z} \X (1..usage'[<<o, k, z>>])
           x == <<y, n + 1>>
<1>1. \A v : /\ v \in Counted(o, k) <=> \E z \in Years : v \in Old(z)
             /\ v \in Counted(o, k)' <=> \E z \in Years : v \in New(z)
  BY DEF Counted
<1>2. \A z \in Years : z # y => New(z) = Old(z)
  OBVIOUS
<1>3. New(y) = Old(y) \cup {x}
  <2>1. 1..n + 1 = (1..n) \cup {n + 1}
    OBVIOUS
  <2>2. \A S, T, m : S = T \cup {m} => {y} \X S = ({y} \X T) \cup {<<y, m>>}
    OBVIOUS
  <2> QED BY <2>1, <2>2
<1>4. \A z \in Years : x \notin Old(z)
  OBVIOUS
<1> HIDE DEF Old, New, x
<1>5. \A v : v \in Counted(o, k)' <=> v \in Counted(o, k) \/ v = x
  BY <1>1, <1>2, <1>3
<1>6. Counted(o, k)' = Counted(o, k) \cup {x}
  BY <1>5
<1>7. x \notin Counted(o, k)
  BY <1>1, <1>4
<1> QED BY <1>6, <1>7 DEF x

(***************************************************************************)
(* Nothing is counted, and nothing paid, in the beginning.                 *)
(***************************************************************************)
LEMMA InitCounts == Init => StatementCounts
<1> SUFFICES ASSUME Init, NEW o \in Owners, NEW k \in Request PROVE CountsAgree(o, k)
  BY DEF StatementCounts
<1>1. \A y \in Years : usage[<<o, k, y>>] = 0
  <2>1. usage = [c \in Ledger!Key |-> 0]
    BY DEF Init, Ledger!Init
  <2> QED BY <2>1 DEF Ledger!Key, Ledger!Request, Request
<1>2. Counted(o, k) = {}
  <2>1. \A y \in Years : {y} \X (1..usage[<<o, k, y>>]) = {}
    BY <1>1
  <2> QED BY <2>1 DEF Counted
<1>3. Paid(o, {k}) = {}
  BY DEF Init, Paid
<1> QED BY <1>2, <1>3, FS_EmptySet DEF CountsAgree

(***************************************************************************)
(* A paid call counts one query and leaves one charged entry, of the same  *)
(* owner and the same kind.                                                *)
(***************************************************************************)
LEMMA NextCounts == Typed /\ StatementCounts /\ [Next]_vars => StatementCounts'
<1> SUFFICES ASSUME Typed, StatementCounts, [Next]_vars,
                    NEW o \in Owners, NEW k \in Request
             PROVE  CountsAgree(o, k)'
  BY DEF StatementCounts
<1>1. CountsAgree(o, k) /\ audit \in Seq(AuditEntry)
  BY DEF StatementCounts, Typed
<1>2. CASE Idle
  <2>1. Counted(o, k)' = Counted(o, k) /\ Paid(o, {k})' = Paid(o, {k})
    BY <1>2 DEF Idle, Counted
  <2> QED BY <1>1, <2>1 DEF CountsAgree
<1>3. ASSUME NEW q \in Queries, Applicable(q), Pays(q)
      PROVE  CountsAgree(o, k)'
  <2> DEFINE c == <<q.owner_id, RequestOf(q), Year(q)>>
             n == Len(audit) + 1
  <2>1. /\ c \in Key
        /\ \A d \in Key : usage'[d] = IF d = c THEN usage[d] + 1 ELSE usage[d]
    BY <1>3, PaidCallCounts
  <2>2. PICK e \in AuditEntry : PaidEntry(q, e) /\ audit' = Append(audit, e)
    BY <1>3 DEF Pays
  <2>3. /\ n \notin DOMAIN audit
        /\ Paid(o, {k})' = IF Charged(e) /\ e.owner_id = o /\ e.request \in {k}
                           THEN Paid(o, {k}) \cup {n} ELSE Paid(o, {k})
    BY <1>1, <2>2, EntryAppended
  <2>4. n \notin Paid(o, {k}) /\ IsFiniteSet(Paid(o, {k}))
    BY <1>1, <2>3, PlacesFinite DEF Paid
  <2>5. \A y \in Years : <<o, k, y>> \in Key
    BY DEF Key
  <2>6. CASE o = q.owner_id /\ k = RequestOf(q)
    <3> DEFINE y == Year(q)
    <3>1. y \in Years /\ c = <<o, k, y>> /\ usage[c] \in Nat
      <4>1. usage \in [LedgerProofs!Key -> Nat] /\ LedgerProofs!Key = Key
        BY DEF Typed, LedgerProofs!IInv, LedgerProofs!TypeOK,
               LedgerProofs!Key, Key, LedgerProofs!Request, Request
      <4> QED BY <2>1, <2>6, <4>1 DEF Key
    <3> HIDE DEF c, y
    <3>2. \A z \in Years : z # y => usage'[<<o, k, z>>] = usage[<<o, k, z>>]
      BY <2>1, <2>5, <3>1
    <3>3. usage'[<<o, k, y>>] = usage[c] + 1
      BY <2>1, <3>1
    <3>4. PICK x : Counted(o, k)' = Counted(o, k) \cup {x} /\ x \notin Counted(o, k)
      BY <3>1, <3>2, <3>3, OneMoreCounted
    <3>5. /\ IsFiniteSet(Counted(o, k)')
          /\ Cardinality(Counted(o, k)') = Cardinality(Counted(o, k)) + 1
      BY <1>1, <3>4, FS_AddElement DEF CountsAgree
    <3>6. Paid(o, {k})' = Paid(o, {k}) \cup {n}
      BY <2>2, <2>3, <2>6 DEF PaidEntry
    <3>7. Cardinality(Paid(o, {k})') = Cardinality(Paid(o, {k})) + 1
      BY <2>4, <3>6, FS_AddElement
    <3> QED BY <1>1, <3>5, <3>7 DEF CountsAgree
  <2>7. CASE ~ (o = q.owner_id /\ k = RequestOf(q))
    <3>1. \A y \in Years : usage'[<<o, k, y>>] = usage[<<o, k, y>>]
      BY <2>1, <2>5, <2>7
    <3>2. Counted(o, k)' = Counted(o, k)
      BY <3>1 DEF Counted
    <3>3. Paid(o, {k})' = Paid(o, {k})
      BY <2>2, <2>3, <2>7 DEF PaidEntry
    <3> QED BY <1>1, <3>2, <3>3 DEF CountsAgree
  <2> QED BY <2>6, <2>7
<1> QED BY <1>2, <1>3, StepIdlesOrPays

(***************************************************************************)
(* Whatever queries are submitted, about whatever year, the counters of a  *)
(* ledger add up to the charged entries of its owner's statement           *)
(* (databank.py: submit_query consumes and records together; erase and     *)
(* revoke touch neither).                                                  *)
(***************************************************************************)
THEOREM CountersOnStatement == Spec => []UsageMatchesStatement
<1>1. StatementCounts => UsageMatchesStatement
  BY DEF StatementCounts, CountsAgree, UsageMatchesStatement
<1> QED BY <1>1, InitCounts, NextCounts, DatabankInvariant, PTL DEF Spec

\* The entries owner o paid for requests of kind k in year y.
OfYear(o, k, y) == {i \in Paid(o, {k}) : YearOf(audit[i].at) = y}

YearsAgree ==
  \A o \in Owners, k \in Request, y \in Years :
    Cardinality(OfYear(o, k, y)) = served[<<o, k, y>>]

(***************************************************************************)
(* Nothing is served, and nothing logged, in the beginning.                *)
(***************************************************************************)
LEMMA InitYears == Init => YearsAgree
<1> SUFFICES ASSUME Init, NEW o \in Owners, NEW k \in Request, NEW y \in Years
             PROVE  Cardinality(OfYear(o, k, y)) = served[<<o, k, y>>]
  BY DEF YearsAgree
<1>1. served[<<o, k, y>>] = 0
  <2>1. served = [c \in Ledger!Key |-> 0]
    BY DEF Init, Ledger!Init
  <2> QED BY <2>1 DEF Ledger!Key, Ledger!Request, Request
<1>2. OfYear(o, k, y) = {}
  BY DEF Init, OfYear, Paid
<1> QED BY <1>1, <1>2, FS_EmptySet

(***************************************************************************)
(* A query about today is counted in the year its entry is logged in.      *)
(***************************************************************************)
LEMMA NextYears ==
  ASSUME AskedForToday
  PROVE  Typed /\ YearsAgree /\ [Next]_vars => YearsAgree'
<1> SUFFICES ASSUME Typed, YearsAgree, [Next]_vars,
                    NEW o \in Owners, NEW k \in Request, NEW y \in Years
             PROVE  Cardinality(OfYear(o, k, y)') = served'[<<o, k, y>>]
  BY DEF YearsAgree
<1>1. audit \in Seq(AuditEntry) /\ Cardinality(OfYear(o, k, y)) = served[<<o, k, y>>]
  BY DEF Typed, YearsAgree
<1>2. Paid(o, {k}) \subseteq DOMAIN audit
  BY DEF Paid
<1>3. CASE Idle
  <2>1. Paid(o, {k})' = Paid(o, {k}) /\ \A i \in DOMAIN audit : audit'[i] = audit[i]
    BY <1>3 DEF Idle
  <2>2. OfYear(o, k, y)' = OfYear(o, k, y)
    BY <1>2, <2>1 DEF OfYear, YearOf
  <2> QED BY <1>1, <1>3, <2>2 DEF Idle
<1>4. ASSUME NEW q \in Queries, Applicable(q), Pays(q)
      PROVE  Cardinality(OfYear(o, k, y)') = served'[<<o, k, y>>]
  <2> DEFINE c == <<q.owner_id, RequestOf(q), Year(q)>>
             n == Len(audit) + 1
  <2>1. c \in Key /\ \A d \in Key : served'[d] = IF d = c THEN served[d] + 1 ELSE served[d]
    BY <1>4, PaidCallCounts
  <2>2. PICK e \in AuditEntry : PaidEntry(q, e) /\ audit' = Append(audit, e)
    BY <1>4 DEF Pays
  <2>3. /\ n \notin DOMAIN audit
        /\ audit'[n] = e
        /\ \A i \in DOMAIN audit : audit'[i] = audit[i]
        /\ Paid(o, {k})' = IF Charged(e) /\ e.owner_id = o /\ e.request \in {k}
                           THEN Paid(o, {k}) \cup {n} ELSE Paid(o, {k})
    BY <1>1, <2>2, EntryAppended
  <2>4. <<o, k, y>> \in Key /\ Year(q) = YearOf(now)
    BY DEF Key, AskedForToday, Year
  <2>5. OfYear(o, k, y)' = {i \in Paid(o, {k})' : YearOf(audit'[i].at) = y}
    BY DEF OfYear, YearOf
  <2>6. CASE <<o, k, y>> = c
    <3>1. OfYear(o, k, y)' = OfYear(o, k, y) \cup {n}
      <4>1. Paid(o, {k})' = Paid(o, {k}) \cup {n}
        BY <2>2, <2>3, <2>6 DEF PaidEntry
      <4>2. YearOf(audit'[n].at) = y
        BY <2>2, <2>3, <2>4, <2>6 DEF PaidEntry
      <4> HIDE DEF n
      <4> QED BY <1>2, <2>3, <2>5, <4>1, <4>2 DEF OfYear
    <3>2. n \notin OfYear(o, k, y) /\ IsFiniteSet(OfYear(o, k, y))
      BY <1>1, <1>2, <2>3, PlacesFinite DEF OfYear
    <3>3. Cardinality(OfYear(o, k, y)') = Cardinality(OfYear(o, k, y)) + 1
      BY <3>1, <3>2, FS_AddElement
    <3> QED BY <1>1, <2>1, <2>4, <2>6, <3>3
  <2>7. CASE <<o, k, y>> # c
    <3>1. OfYear(o, k, y)' = OfYear(o, k, y)
      <4>1. CASE Paid(o, {k})' = Paid(o, {k})
        BY <1>2, <2>3, <2>5, <4>1 DEF OfYear
      <4>2. CASE Paid(o, {k})' # Paid(o, {k})
        <5>1. Paid(o, {k})' = Paid(o, {k}) \cup {n} /\ o = q.owner_id /\ k = RequestOf(q)
          BY <2>2, <2>3, <4>2 DEF PaidEntry
        <5>2. YearOf(audit'[n].at) # y
          BY <2>2, <2>3, <2>4, <2>7, <5>1 DEF PaidEntry
        <5> HIDE DEF n
        <5> QED BY <1>2, <2>3, <2>5, <5>1, <5>2 DEF OfYear
      <4> QED BY <4>1, <4>2
    <3> QED BY <1>1, <2>1, <2>4, <2>7, <3>1
  <2> QED BY <2>6, <2>7
<1> QED BY <1>3, <1>4, StepIdlesOrPays

(***************************************************************************)
(* When queries are about the day they are asked, the statement of one     *)
(* calendar year never shows more answers than the most generous           *)
(* permission the owner ever gave (databank.py: submit_query charges the   *)
(* year of the query to the ledger and logs the entry in the same call).   *)
(***************************************************************************)
THEOREM QuotaShown ==
  ASSUME AskedForToday
  PROVE  Spec => []QuotaOnStatement
<1>1. Typed /\ YearsAgree => QuotaOnStatement
  <2> SUFFICES ASSUME Typed, YearsAgree,
                      NEW o \in Owners, NEW k \in Request, NEW y \in Years,
                      Cardinality(OfYear(o, k, y)) > 0
               PROVE  \E g \in ever[o] :
                        /\ Covers(g, k)
                        /\ \/ g.quota_per_year = NoQuota
                           \/ Cardinality(OfYear(o, k, y)) <= g.quota_per_year
    BY DEF QuotaOnStatement, OfYear
  <2>1. Cardinality(OfYear(o, k, y)) = served[<<o, k, y>>]
    BY DEF YearsAgree
  <2>2. k \in LedgerProofs!Request
    BY DEF LedgerProofs!Request, Request
  <2> QED BY <2>1, <2>2
          DEF Typed, LedgerProofs!IInv, LedgerProofs!QuotaHonoured,
              LedgerProofs!Covers, Covers
<1> QED BY <1>1, InitYears, NextYears, DatabankInvariant, PTL DEF Spec

-----------------------------------------------------------------------------
(* The budget and the statement.                                           *)

(***************************************************************************)
(* Databank counts with the operators of the budget.                       *)
(***************************************************************************)
LEMMA SameCardinality == \A S : BudgetProofs!Cardinality(S) = Cardinality(S)
BY DEF BudgetProofs!Cardinality, Cardinality, BudgetProofs!IsFiniteSet, IsFiniteSet

(***************************************************************************)
(* The policy of a group that has one, and the history charged to it.      *)
(***************************************************************************)
LEMMA PolicyOfGroup ==
  ASSUME Typed, NEW o \in Owners, NEW g \in Groups, policies[g] # NoPolicy
  PROVE  /\ policies[g] \in Policies
         /\ policies[g].group = g
         /\ policies[g].attributes \subseteq Attributes
         /\ policies[g].exempt \subseteq Requestors
         /\ history[<<o, g>>] \in Seq(BudgetProofs!Use)
<1>1. policies[g] \in Policies /\ policies[g].group = g
  BY DEF Typed, BudgetProofs!Registered, BudgetProofs!TypeOK, BudgetProofs!PoliciesNamed
<1>2. policies[g] \in BudgetProofs!DatumPolicy
  BY <1>1, BudgetConstants
<1>3. history[<<o, g>>] \in Seq(BudgetProofs!Use)
  BY DEF Typed, BudgetProofs!Registered, BudgetProofs!TypeOK, BudgetProofs!Datum
<1> QED BY <1>1, <1>2, <1>3 DEF BudgetProofs!DatumPolicy

(***************************************************************************)
(* A paid call is recorded in the history of its owner and of the group    *)
(* that covers its attribute, and in no other.                             *)
(***************************************************************************)
LEMMA PaidCallRecords ==
  ASSUME Typed, NEW q \in Queries, Applicable(q), Pays(q),
         NEW o \in Owners, NEW g \in Groups, policies[g] # NoPolicy
  PROVE  /\ policies' = policies
         /\ IF o = q.owner_id /\ RequestOf(q) \in About(policies[g])
            THEN history'[<<o, g>>] = Append(history[<<o, g>>],
                   [at |-> At(q), requestor_id |-> q.requestor_id,
                    exempt |-> q.requestor_id \in policies[g].exempt])
            ELSE history'[<<o, g>>] = history[<<o, g>>]
<1> DEFINE a == q.attribute
           p == BudgetProofs!policy_for(a)
           use == [at |-> At(q), requestor_id |-> q.requestor_id,
                   exempt |-> q.requestor_id \in p.exempt]
<1>1. a \in Attributes /\ RequestOf(q) \in Request /\ q.owner_id \in Owners
  BY ClockTyped, QueryFacts DEF Applicable
<1>2. RequestOf(q) \in About(policies[g]) <=> a \in policies[g].attributes
  BY <1>1 DEF About, RequestOf
<1>3. group_of[a] = g <=> a \in policies[g].attributes
  BY <1>1 DEF Typed, BudgetProofs!Registered, BudgetProofs!GroupsAgree
<1>4. g # NoGroup
  BY BudgetAssumption
<1>5. CASE p = NoPolicy
  <2>1. UNCHANGED <<policies, history>>
    BY <1>5 DEF Pays, budget
  <2>2. group_of[a] # g
    BY <1>4, <1>5 DEF BudgetProofs!policy_for
  <2> QED BY <1>2, <1>3, <2>1, <2>2
<1>6. CASE p # NoPolicy
  <2> DEFINE d == <<q.owner_id, p.group>>
  <2>1. BudgetProofs!CheckAndConsume(q.owner_id, q.requestor_id, a, At(q))
    BY <1>6 DEF Pays
  <2>2. policies' = policies /\ history' = [history EXCEPT ![d] = Append(history[d], use)]
    BY <2>1 DEF BudgetProofs!CheckAndConsume, BudgetProofs!Recorded
  <2>3. group_of[a] \in Groups /\ p = policies[group_of[a]] /\ p.group = group_of[a]
    BY <1>1, <1>6
       DEF BudgetProofs!policy_for, Typed, BudgetProofs!Registered, BudgetProofs!TypeOK,
           BudgetProofs!PoliciesNamed
  <2>4. <<o, g>> \in BudgetProofs!Datum /\ d \in BudgetProofs!Datum
        /\ history \in [BudgetProofs!Datum -> Seq(BudgetProofs!Use)]
    BY <1>1, <2>3 DEF BudgetProofs!Datum, Typed, BudgetProofs!Registered, BudgetProofs!TypeOK
  <2> HIDE DEF p, use
  <2>5. CASE o = q.owner_id /\ g = p.group
    <3>1. history'[<<o, g>>] = Append(history[<<o, g>>], use)
      BY <2>2, <2>4, <2>5
    <3>2. p = policies[g] /\ a \in policies[g].attributes
      BY <1>3, <2>3, <2>5
    <3> QED BY <1>2, <2>2, <2>5, <3>1, <3>2 DEF use
  <2>6. CASE ~ (o = q.owner_id /\ g = p.group)
    <3>1. history'[<<o, g>>] = history[<<o, g>>]
      BY <2>2, <2>4, <2>6
    <3>2. ~ (o = q.owner_id /\ RequestOf(q) \in About(policies[g]))
      BY <1>2, <1>3, <2>3, <2>6
    <3> QED BY <2>2, <3>1, <3>2
  <2> QED BY <2>5, <2>6
<1> QED BY <1>5, <1>6

\* What BudgetFollowsStatement says of one step, for datum d.
Follows(d) ==
  LET p == policies[d[2]]
      new == Paid(d[1], About(p))' \ Paid(d[1], About(p))
      recorded == DOMAIN history'[d] \ DOMAIN history[d]
  IN  /\ Cardinality(recorded) = Cardinality(new)
      /\ \A i \in new, j \in recorded :
           /\ history'[d][j].requestor_id = audit'[i].request.requestor_id
           /\ history'[d][j].exempt = (audit'[i].request.requestor_id \in p.exempt)

(***************************************************************************)
(* A policy in force stays in force.                                       *)
(***************************************************************************)
LEMMA PolicyStands ==
  ASSUME Typed, [Next]_vars, NEW g \in Groups, policies[g] # NoPolicy
  PROVE  policies'[g] = policies[g]
<1>1. CASE Rests
  <2>1. ASSUME NEW p \in Policies, BudgetProofs!Add(p)
        PROVE  policies'[g] = policies[g]
    BY <2>1 DEF BudgetProofs!Add, Typed, BudgetProofs!Registered, BudgetProofs!TypeOK
  <2> QED BY <1>1, <2>1 DEF Rests, budget, BudgetProofs!Tick
<1>2. ASSUME NEW q \in Queries, Asks(q) PROVE policies'[g] = policies[g]
  BY <1>2 DEF Asks, budget, BudgetProofs!Check
<1>3. ASSUME NEW q \in Queries, Pays(q) PROVE policies'[g] = policies[g]
  BY <1>3 DEF Pays, budget, BudgetProofs!CheckAndConsume
<1> QED BY <1>1, <1>2, <1>3, ClockTyped, StepIsCallOrRests, CallAsksOrPays

(***************************************************************************)
(* Whoever asks, whatever instant a query names: a call that pays leaves   *)
(* one entry in the log and, if a policy covers the attribute, one use     *)
(* with the same requestor in the history of the owner's datum; no other   *)
(* step leaves either.                                                     *)
(***************************************************************************)
LEMMA StepFollows ==
  ASSUME Typed, [Next]_vars, NEW d \in Budget!Datum, policies[d[2]] # NoPolicy
  PROVE  Follows(d)
<1>0. PICK o \in Owners, g \in Groups : d = <<o, g>> /\ o = d[1] /\ g = d[2]
  BY DEF Budget!Datum
<1>1. PICK p \in Policies : p = policies[g] /\ p = policies'[g]
  BY <1>0, PolicyOfGroup, PolicyStands
<1>2. About(p) = About(policies[g]) /\ About(p) = About(policies[g])'
  BY <1>1 DEF About
<1>3. /\ Paid(d[1], About(policies[d[2]]))' = Paid(o, About(p))'
      /\ Paid(d[1], About(policies[d[2]])) = Paid(o, About(p))
  <2>1. About(policies[d[2]])' = About(p) /\ About(policies[d[2]]) = About(p)
    BY <1>0, <1>1 DEF About
  <2> QED BY <1>0, <2>1 DEF Paid, Charged
<1> DEFINE new == Paid(o, About(p))' \ Paid(o, About(p))
           recorded == DOMAIN history'[d] \ DOMAIN history[d]
<1>4. SUFFICES /\ Cardinality(recorded) = Cardinality(new)
               /\ \A i \in new, j \in recorded :
                    /\ history'[d][j].requestor_id = audit'[i].request.requestor_id
                    /\ history'[d][j].exempt
                         = (audit'[i].request.requestor_id \in p.exempt)
  <2> DEFINE dif == Paid(d[1], About(policies[d[2]]))' \ Paid(d[1], About(policies[d[2]]))
  <2>1. dif = new
    BY <1>3
  <2>2. policies[d[2]] = p
    BY <1>0, <1>1
  <2>3. Follows(d) <=>
          /\ Cardinality(recorded) = Cardinality(dif)
          /\ \A i \in dif, j \in recorded :
               /\ history'[d][j].requestor_id = audit'[i].request.requestor_id
               /\ history'[d][j].exempt
                    = (audit'[i].request.requestor_id \in policies[d[2]].exempt)
    BY Zenon DEF Follows
  <2> HIDE DEF dif, new, recorded
  <2> QED BY <2>1, <2>2, <2>3
<1>5. CASE Idle
  <2>1. new = {} /\ recorded = {}
    BY <1>5 DEF Idle
  <2> QED BY <2>1
<1>6. ASSUME NEW q \in Queries, Applicable(q), Pays(q)
      PROVE  /\ Cardinality(recorded) = Cardinality(new)
             /\ \A i \in new, j \in recorded :
                  /\ history'[d][j].requestor_id = audit'[i].request.requestor_id
                  /\ history'[d][j].exempt
                       = (audit'[i].request.requestor_id \in p.exempt)
  <2> DEFINE n == Len(audit) + 1
             m == Len(history[d]) + 1
             use == [at |-> At(q), requestor_id |-> q.requestor_id,
                     exempt |-> q.requestor_id \in p.exempt]
  <2>1. PICK e \in AuditEntry : PaidEntry(q, e) /\ audit' = Append(audit, e)
    BY <1>6 DEF Pays
  <2>2. /\ n \notin DOMAIN audit /\ audit'[n] = e
        /\ Paid(o, About(p))' = IF Charged(e) /\ e.owner_id = o /\ e.request \in About(p)
                                THEN Paid(o, About(p)) \cup {n} ELSE Paid(o, About(p))
    BY <2>1, EntryAppended DEF Typed
  <2>3. IF o = q.owner_id /\ RequestOf(q) \in About(p)
        THEN history'[d] = Append(history[d], use)
        ELSE history'[d] = history[d]
    BY <1>0, <1>1, <1>2, <1>6, PaidCallRecords
  <2>4. CASE o = q.owner_id /\ RequestOf(q) \in About(p)
    <3>1. new = {n}
      BY <2>1, <2>2, <2>4 DEF PaidEntry, Paid
    <3>2. history[d] \in Seq(BudgetProofs!Use) /\ history'[d] = Append(history[d], use)
      BY <1>0, <2>3, <2>4, PolicyOfGroup
    <3>3. recorded = {m} /\ history'[d][m] = use
      <4> HIDE DEF use
      <4>1. DOMAIN history[d] = 1..Len(history[d]) /\ Len(history[d]) \in Nat
        BY <3>2
      <4>2. DOMAIN history'[d] = 1..Len(history[d]) + 1 /\ history'[d][m] = use
        BY <3>2
      <4> QED BY <4>1, <4>2
    <3>4. audit'[n].request.requestor_id = q.requestor_id
      BY <2>1, <2>2 DEF PaidEntry, RequestOf
    <3>5. Cardinality(new) = 1 /\ Cardinality(recorded) = 1
      BY <3>1, <3>3, FS_Singleton
    <3> HIDE DEF n, m, new, recorded
    <3> QED BY <3>1, <3>3, <3>4, <3>5
  <2>5. CASE ~ (o = q.owner_id /\ RequestOf(q) \in About(p))
    <3>1. new = {} /\ recorded = {}
      BY <2>1, <2>2, <2>3, <2>5 DEF PaidEntry
    <3> QED BY <3>1
  <2> QED BY <2>4, <2>5
<1> QED BY <1>5, <1>6, StepIdlesOrPays

(***************************************************************************)
(* The budget and the statement never disagree (databank.py: _consume and  *)
(* audit.record are reached together; leakage.py: consume records exempt   *)
(* requestors too).                                                        *)
(***************************************************************************)
THEOREM BudgetOnStatement == Spec => BudgetFollowsStatement
<1> DEFINE AllFollow ==
      \A d \in Budget!Datum : policies[d[2]] # NoPolicy => Follows(d)
<1>1. Typed /\ [Next]_vars => [AllFollow]_vars
  BY StepFollows
<1> HIDE DEF AllFollow
<1>2. Spec => [][AllFollow]_vars
  BY <1>1, DatabankInvariant, PTL DEF Spec
<1> QED BY <1>2 DEF AllFollow, Follows, BudgetFollowsStatement

(***************************************************************************)
(* A denied call leaves the ledgers as they were, and prunes the budget at *)
(* most.                                                                   *)
(***************************************************************************)
LEMMA DeniedAsks ==
  ASSUME Typed, [Next]_vars, Len(audit') > Len(audit), ~Charged(audit'[Len(audit')])
  PROVE  \E q \in Queries : Asks(q)
<1>1. audit \in Seq(AuditEntry) /\ now \in Budget!Times
  BY ClockTyped DEF Typed
<1>2. ASSUME NEW q \in Queries, Pays(q) PROVE FALSE
  <2>1. PICK e \in AuditEntry : PaidEntry(q, e) /\ audit' = Append(audit, e)
    BY <1>2 DEF Pays
  <2>2. audit'[Len(audit')] = e
    BY <1>1, <2>1
  <2> QED BY <2>1, <2>2 DEF PaidEntry
<1>3. ~Rests
  BY <1>1 DEF Rests
<1> QED BY <1>1, <1>2, <1>3, StepIsCallOrRests, CallAsksOrPays

(***************************************************************************)
(* When queries reach the Databank as they are submitted, a denied one     *)
(* changes no decision of the ledgers or of the budget, of anyone, now or  *)
(* later, and nothing that remaining reports (databank.py: submit_query    *)
(* returns before _consume; leakage.py: check only prunes what neither a   *)
(* later check nor remaining would count).                                 *)
(***************************************************************************)
THEOREM DenialsAreFree ==
  ASSUME SubmittedNow
  PROVE  Spec => DeniedIsFree
<1> DEFINE Free ==
      Len(audit') > Len(audit) /\ ~Charged(audit'[Len(audit')]) =>
        \A o \in Owners :
          /\ \A r \in Requestors, a \in Attributes, t \in now..MaxTime + DAY :
               Budget!Decision(o, r, a, t)' = Budget!Decision(o, r, a, t)
          /\ \A a \in Attributes, t \in now..MaxTime + DAY :
               Budget!policy_for(a) # NoPolicy =>
                 Budget!RemainingOf(o, a, t)' = Budget!RemainingOf(o, a, t)
          /\ \A k \in Request, y \in Years :
               Ledger!Decision(o, k, y)' = Ledger!Decision(o, k, y)
<1>1. (\A o, r, a, t : Budget!Decision(o, r, a, t) = BudgetProofs!Decision(o, r, a, t))'
  <2>1. \A o, r, a, t : Budget!Decision(o, r, a, t) = BudgetProofs!Decision(o, r, a, t)
    BY SameBudget
  <2> QED BY <2>1, PTL
<1>a. (\A o, a, t : Budget!RemainingOf(o, a, t) = BudgetProofs!RemainingOf(o, a, t))'
  <2>1. \A o, a, t : Budget!RemainingOf(o, a, t) = BudgetProofs!RemainingOf(o, a, t)
    BY SameBudget
  <2> QED BY <2>1, PTL
<1>2. Typed /\ [Next]_vars => [Free]_vars
  <2> SUFFICES ASSUME Typed, [Next]_vars,
                      Len(audit') > Len(audit), ~Charged(audit'[Len(audit')]),
                      NEW o \in Owners
               PROVE  /\ \A r \in Requestors, a \in Attributes, t \in now..MaxTime + DAY :
                           Budget!Decision(o, r, a, t)' = Budget!Decision(o, r, a, t)
                      /\ \A a \in Attributes, t \in now..MaxTime + DAY :
                           Budget!policy_for(a) # NoPolicy =>
                             Budget!RemainingOf(o, a, t)' = Budget!RemainingOf(o, a, t)
                      /\ \A k \in Request, y \in Years :
                           Ledger!Decision(o, k, y)' = Ledger!Decision(o, k, y)
    OBVIOUS
  <2>1. PICK q \in Queries : Asks(q)
    BY DeniedAsks
  <2>2. UNCHANGED <<grants, usage>>
    BY <2>1 DEF Asks, ledger
  <2>3. ASSUME NEW k \in Request, NEW y \in Years
        PROVE  Ledger!Decision(o, k, y)' = Ledger!Decision(o, k, y)
    BY <2>2 DEF Ledger!Decision, Ledger!Matches, Ledger!Matching, Ledger!Admits, Ledger!Covers
  <2>4. ASSUME NEW r \in Requestors, NEW a \in Attributes, NEW t \in now..MaxTime + DAY
        PROVE  /\ Budget!Decision(o, r, a, t)' = Budget!Decision(o, r, a, t)
               /\ Budget!policy_for(a) # NoPolicy =>
                    Budget!RemainingOf(o, a, t)' = Budget!RemainingOf(o, a, t)
    <3>1. now \in Nat /\ t \in Nat /\ now <= t /\ At(q) = now
      BY ClockTyped, BudgetConstants DEF Budget!Times, SubmittedNow, At
    <3>2. CASE UNCHANGED budget
      BY <1>1, <1>a, <3>2, SameBudget
         DEF budget, BudgetProofs!Decision, BudgetProofs!Governed, BudgetProofs!policy_for,
             BudgetProofs!RemainingOf
    <3>3. CASE BudgetProofs!Check(q.owner_id, q.requestor_id, q.attribute, now)
      <4>1. q.owner_id \in Owners /\ q.requestor_id \in Requestors /\ q.attribute \in Attributes
        BY ClockTyped, QueryFacts
      <4>2. BudgetProofs!Registered
        BY DEF Typed
      <4>3. /\ BudgetProofs!Decision(o, r, a, t)' = BudgetProofs!Decision(o, r, a, t)
            /\ BudgetProofs!policy_for(a) # NoPolicy =>
                 BudgetProofs!RemainingOf(o, a, t)' = BudgetProofs!RemainingOf(o, a, t)
        BY <3>1, <3>3, <4>1, <4>2, BudgetProofs!CheckChangesNothing, BudgetConstants
      <4> QED BY <1>1, <1>a, <4>3, SameBudget
    <3> QED BY <2>1, <3>1, <3>2, <3>3 DEF Asks
  <2>5. ASSUME NEW a \in Attributes, NEW t \in now..MaxTime + DAY
        PROVE  Budget!policy_for(a) # NoPolicy =>
                 Budget!RemainingOf(o, a, t)' = Budget!RemainingOf(o, a, t)
    <3>1. q.requestor_id \in Requestors
      BY ClockTyped, QueryFacts
    <3> QED BY <2>4, <3>1
  <2> QED BY <2>3, <2>4, <2>5
<1> HIDE DEF Free
<1>3. Spec => [][Free]_vars
  BY <1>2, DatabankInvariant, PTL DEF Spec
<1> QED BY <1>3 DEF Free, DeniedIsFree

\* The entries AnswersBounded counts, and the uses the budget counts.
Shown(o, g, t) ==
  {i \in Governed(o, g) :
     /\ audit[i].request.requestor_id \notin policies[g].exempt
     /\ audit[i].at <= t /\ t < audit[i].at + policies[g].tau}

HeldFor(o, g, t) ==
  BudgetProofs!Held(history[<<o, g>>], t, policies[g].tau, Requestors)

AnswersAgree ==
  \A o \in Owners, g \in Groups, t \in Budget!Times : policies[g] # NoPolicy =>
    Cardinality(Shown(o, g, t)) = Cardinality(HeldFor(o, g, t))

(***************************************************************************)
(* When a policy is added, its data have no history: nothing on the        *)
(* statements is governed by it yet.                                       *)
(***************************************************************************)
LEMMA NewPolicyGovernsNothing ==
  ASSUME Typed, [Next]_vars, NEW o \in Owners, NEW g \in Groups,
         policies[g] = NoPolicy, policies'[g] # NoPolicy, NEW t
  PROVE  Shown(o, g, t)' = {} /\ HeldFor(o, g, t)' = {}
<1>1. Rests
  <2>1. ASSUME NEW q \in Queries, Asks(q) \/ Pays(q) PROVE policies' = policies
    BY <2>1 DEF Asks, Pays, budget, BudgetProofs!Check, BudgetProofs!CheckAndConsume
  <2> QED BY <2>1, ClockTyped, StepIsCallOrRests, CallAsksOrPays
<1>2. history'[<<o, g>>] = <<>>
  <2>1. history' = history
    BY <1>1 DEF Rests, budget, BudgetProofs!Tick, BudgetProofs!Add
  <2> QED BY <2>1 DEF Typed, BudgetProofs!Registered, BudgetProofs!UnusedBefore,
                      BudgetProofs!Datum
<1>3. HeldFor(o, g, t)' = {}
  BY <1>2 DEF HeldFor, BudgetProofs!Held
<1>4. Governed(o, g)' = {}
  <2> DEFINE paid == Paid(o, About(policies[g]))'
  <2>1. audit' \in Seq(AuditEntry)
    BY <1>1 DEF Rests, Typed
  <2>2. paid \subseteq DOMAIN audit'
    BY DEF Paid
  <2>3. IsFiniteSet(paid) /\ paid \subseteq Nat
    <3>1. DOMAIN audit' = 1..Len(audit') /\ Len(audit') \in Nat
      BY <2>1
    <3>2. IsFiniteSet(1..Len(audit')) /\ 1..Len(audit') \subseteq Nat
      BY <3>1, FS_Interval
    <3> HIDE DEF paid
    <3> QED BY <2>2, <3>1, <3>2, FS_Subset
  <2>4. Governed(o, g)' =
          {i \in paid : Cardinality({j \in paid : i <= j}) <= Len(history'[<<o, g>>])}
    BY DEF Governed
  <2> HIDE DEF paid
  <2>5. ASSUME NEW i \in paid PROVE ~ (Cardinality({j \in paid : i <= j}) <= 0)
    <3> DEFINE S == {j \in paid : i <= j}
    <3>1. IsFiniteSet(S) /\ Cardinality(S) \in Nat /\ i \in S
      BY <2>3, FS_Subset, FS_CardinalityType
    <3> HIDE DEF S
    <3>2. Cardinality(S) # 0
      BY <3>1, FS_EmptySet
    <3>3. ~ (Cardinality(S) <= 0)
      BY <3>1, <3>2
    <3> QED BY <3>3 DEF S
  <2>6. Len(history'[<<o, g>>]) = 0
    BY <1>2
  <2> QED BY <2>4, <2>5, <2>6
<1> QED BY <1>3, <1>4 DEF Shown

(***************************************************************************)
(* A step that is no paid call about the group leaves what is shown and    *)
(* what is held.                                                           *)
(***************************************************************************)
LEMMA ShownUnchanged ==
  ASSUME audit \in Seq(AuditEntry), NEW o, NEW g, NEW t, NEW p,
         policies[g] = p, policies'[g] = p,
         Paid(o, About(p))' = Paid(o, About(p)),
         \A i \in DOMAIN audit : audit'[i] = audit[i],
         history'[<<o, g>>] = history[<<o, g>>]
  PROVE  Shown(o, g, t)' = Shown(o, g, t) /\ HeldFor(o, g, t)' = HeldFor(o, g, t)
<1>1. HeldFor(o, g, t)' = HeldFor(o, g, t)
  BY DEF HeldFor, BudgetProofs!Held
<1>2. Paid(o, About(policies[g]))' = Paid(o, About(p))
      /\ Paid(o, About(policies[g])) = Paid(o, About(p))
  <2>1. About(policies[g])' = About(p) /\ About(policies[g]) = About(p)
    BY DEF About
  <2> QED BY <2>1 DEF Paid, Charged
<1> DEFINE paid == Paid(o, About(p))
           n == Len(history[<<o, g>>])
<1>3. /\ Governed(o, g) = {i \in paid : Cardinality({j \in paid : i <= j}) <= n}
      /\ Governed(o, g)' = {i \in paid : Cardinality({j \in paid : i <= j}) <= n}
  BY <1>2 DEF Governed
<1>4. Governed(o, g)' = Governed(o, g)
  BY <1>3
<1>5. Governed(o, g) \subseteq DOMAIN audit
  BY <1>3 DEF Paid
<1>6. \A i \in Governed(o, g) : audit'[i] = audit[i]
  BY <1>5
<1> QED BY <1>1, <1>4, <1>6 DEF Shown

(***************************************************************************)
(* A paid call about the group is shown if and only if it is held.         *)
(***************************************************************************)
LEMMA PaidCallShown ==
  ASSUME SubmittedNow, Typed, NEW q \in Queries, Applicable(q), Pays(q),
         NEW g \in Groups, NEW p \in Policies, policies[g] = p,
         RequestOf(q) \in About(p), NEW t \in Budget!Times
  PROVE  LET o == q.owner_id
             counts == /\ q.requestor_id \notin p.exempt
                       /\ now <= t /\ t < now + p.tau
             n == Len(audit) + 1
             m == Len(history[<<o, g>>]) + 1
         IN  /\ Shown(o, g, t)' = IF counts THEN Shown(o, g, t) \cup {n} ELSE Shown(o, g, t)
             /\ n \notin Shown(o, g, t) /\ IsFiniteSet(Shown(o, g, t))
             /\ HeldFor(o, g, t)'
                  = IF counts THEN HeldFor(o, g, t) \cup {m} ELSE HeldFor(o, g, t)
             /\ m \notin HeldFor(o, g, t) /\ IsFiniteSet(HeldFor(o, g, t))
<1> DEFINE o == q.owner_id
           h == history[<<o, g>>]
           counts == q.requestor_id \notin p.exempt /\ now <= t /\ t < now + p.tau
           n == Len(audit) + 1
           L == Len(h)
           paid == Paid(o, About(p))
           use == [at |-> At(q), requestor_id |-> q.requestor_id,
                   exempt |-> q.requestor_id \in p.exempt]
<1>1. /\ o \in Owners /\ q.requestor_id \in Requestors /\ At(q) = now
      /\ audit \in Seq(AuditEntry) /\ p # NoPolicy
  BY ClockTyped, QueryFacts, BudgetAssumption DEF SubmittedNow, At, Typed
<1>2. PICK e \in AuditEntry : PaidEntry(q, e) /\ audit' = Append(audit, e)
  BY DEF Pays
<1>3. /\ n \notin DOMAIN audit /\ audit'[n] = e
      /\ \A i \in DOMAIN audit : audit'[i] = audit[i] /\ i < n
      /\ Paid(o, About(p))' = paid \cup {n}
  BY <1>1, <1>2, EntryAppended DEF PaidEntry
<1>4. policies' = policies /\ history'[<<o, g>>] = Append(h, use)
  BY <1>1, PaidCallRecords
<1>5. h \in Seq(BudgetProofs!Use) /\ L \in Nat /\ DOMAIN h = 1..L
  BY <1>1, PolicyOfGroup
<1>6. paid \in SUBSET DOMAIN audit
  BY DEF Paid
<1>7. paid \in SUBSET Nat /\ IsFiniteSet(paid) /\ n \in Nat /\ \A i \in paid : i < n
  BY <1>1, <1>3, <1>6, PlacesFinite
<1>8. /\ Len(Append(h, use)) = L + 1 /\ DOMAIN Append(h, use) = (1..L) \cup {L + 1}
      /\ Append(h, use)[L + 1] = use
      /\ \A i \in 1..L : Append(h, use)[i] = h[i]
  <2> HIDE DEF use, h
  <2>1. Len(Append(h, use)) = L + 1 /\ DOMAIN Append(h, use) = 1..L + 1
    BY <1>5
  <2>2. Append(h, use)[L + 1] = use /\ \A i \in 1..L : Append(h, use)[i] = h[i]
    BY <1>5
  <2>3. 1..L + 1 = (1..L) \cup {L + 1}
    BY <1>5
  <2> QED BY <2>1, <2>2, <2>3
<1>9. /\ HeldFor(o, g, t)' = IF counts THEN HeldFor(o, g, t) \cup {L + 1} ELSE HeldFor(o, g, t)
      /\ L + 1 \notin HeldFor(o, g, t) /\ IsFiniteSet(HeldFor(o, g, t))
  <2> DEFINE x == Append(h, use)
             H == {i \in DOMAIN h : /\ ~h[i].exempt /\ h[i].requestor_id \in Requestors
                                    /\ h[i].at <= t /\ t < h[i].at + p.tau}
             X == {i \in DOMAIN x : /\ ~x[i].exempt /\ x[i].requestor_id \in Requestors
                                    /\ x[i].at <= t /\ t < x[i].at + p.tau}
  <2>1. HeldFor(o, g, t)' = X
    BY <1>4 DEF HeldFor, BudgetProofs!Held
  <2>2. HeldFor(o, g, t) = H
    BY DEF HeldFor, BudgetProofs!Held
  <2>3. use.at = now /\ use.requestor_id \in Requestors
        /\ (use.exempt <=> q.requestor_id \in p.exempt)
    BY <1>1
  <2> HIDE DEF x, h, L, use
  <2>4. X = IF counts THEN H \cup {L + 1} ELSE H
    <3>1. ASSUME NEW i \in 1..L PROVE i \in X <=> i \in H
      BY <1>5, <1>8, <3>1 DEF x
    <3>2. L + 1 \in X <=> counts
      BY <1>8, <2>3 DEF x
    <3>3. X \subseteq (1..L) \cup {L + 1} /\ H \subseteq 1..L
      BY <1>5, <1>8 DEF x
    <3> HIDE DEF X, H, counts
    <3>4. CASE counts
      BY <3>1, <3>2, <3>3, <3>4
    <3>5. CASE ~counts
      <4>1. X \subseteq 1..L
        BY <3>2, <3>3, <3>5
      <4>2. X = H
        BY <3>1, <3>3, <4>1
      <4> QED BY <3>5, <4>2
    <3> QED BY <3>4, <3>5
  <2>5. L + 1 \notin H /\ IsFiniteSet(H)
    <3>1. L + 1 \notin 1..L /\ IsFiniteSet(1..L)
      BY <1>5, FS_Interval
    <3> QED BY <1>5, <3>1, FS_Subset
  <2> QED BY <2>1, <2>2, <2>4, <2>5
<1> HIDE DEF L, use, h, counts
<1>10. Governed(o, g)' = Governed(o, g) \cup {n}
  <2> DEFINE S == paid
  <2>1. Paid(o, About(policies[g]))' = S \cup {n} /\ Paid(o, About(policies[g])) = S
    <3>1. About(policies[g])' = About(p) /\ About(policies[g]) = About(p)
      BY <1>4 DEF About
    <3>2. Paid(o, About(policies[g]))' = Paid(o, About(p))'
      BY <3>1 DEF Paid, Charged
    <3> QED BY <1>3, <3>1, <3>2
  <2>2. Governed(o, g)
          = {i \in S : Cardinality({j \in S : i <= j}) <= L}
    BY <2>1 DEF Governed, L, h
  <2>3. Governed(o, g)'
          = {i \in S \cup {n} : Cardinality({j \in S \cup {n} : i <= j}) <= L + 1}
    BY <1>4, <1>8, <2>1 DEF Governed
  <2>5. S \in SUBSET Nat /\ IsFiniteSet(S) /\ n \in Nat /\ \A i \in S : i < n
    BY <1>7
  <2> HIDE DEF S, n
  <2>4. Governed(o, g)' = {i \in S : Cardinality({j \in S : i <= j}) <= L} \cup {n}
    BY <1>5, <2>3, <2>5, LastOfLarger
  <2> QED BY <2>2, <2>4
<1>11. Governed(o, g) \subseteq paid
  <2>1. Paid(o, About(policies[g])) = paid
    BY DEF About
  <2> QED BY <2>1 DEF Governed
<1>12. Shown(o, g, t)' = IF counts THEN Shown(o, g, t) \cup {n} ELSE Shown(o, g, t)
  <2>1. /\ audit'[n].request.requestor_id = q.requestor_id
        /\ audit'[n].at = now
    BY <1>2, <1>3 DEF PaidEntry, RequestOf
  <2>2. \A i \in Governed(o, g) : audit'[i] = audit[i]
    BY <1>3, <1>6, <1>11
  <2>3. Shown(o, g, t)' =
          {i \in Governed(o, g)' :
             /\ audit'[i].request.requestor_id \notin p.exempt
             /\ audit'[i].at <= t /\ t < audit'[i].at + p.tau}
    BY <1>4 DEF Shown
  <2> HIDE DEF n
  <2> QED BY <1>10, <2>1, <2>2, <2>3 DEF Shown, counts
<1>13. n \notin Shown(o, g, t) /\ IsFiniteSet(Shown(o, g, t))
  <2>1. Shown(o, g, t) \subseteq paid
    BY <1>11 DEF Shown
  <2> QED BY <1>7, <2>1, FS_Subset
<1> QED BY <1>9, <1>12, <1>13 DEF L, h, counts

(***************************************************************************)
(* The answers a statement shows within a retention window are as many as  *)
(* the uses the budget held in it.                                         *)
(***************************************************************************)
LEMMA NextAnswers ==
  ASSUME SubmittedNow
  PROVE  Typed /\ AnswersAgree /\ [Next]_vars => AnswersAgree'
<1> SUFFICES ASSUME Typed, AnswersAgree, [Next]_vars,
                    NEW o \in Owners, NEW g \in Groups, NEW t \in Budget!Times,
                    policies'[g] # NoPolicy
             PROVE  Cardinality(Shown(o, g, t)') = Cardinality(HeldFor(o, g, t)')
  BY DEF AnswersAgree, Budget!Times
<1>1. CASE policies[g] = NoPolicy
  BY <1>1, NewPolicyGovernsNothing, FS_EmptySet
<1>2. CASE policies[g] # NoPolicy
  <2>1. PICK p \in Policies : policies[g] = p /\ policies'[g] = p
    BY <1>2, PolicyOfGroup, PolicyStands
  <2>2. Cardinality(Shown(o, g, t)) = Cardinality(HeldFor(o, g, t))
    BY <1>2 DEF AnswersAgree
  <2>3. audit \in Seq(AuditEntry)
    BY DEF Typed
  <2>4. ASSUME Paid(o, About(p))' = Paid(o, About(p)),
               \A i \in DOMAIN audit : audit'[i] = audit[i],
               history'[<<o, g>>] = history[<<o, g>>]
        PROVE  Cardinality(Shown(o, g, t)') = Cardinality(HeldFor(o, g, t)')
    BY <2>1, <2>2, <2>3, <2>4, ShownUnchanged
  <2>5. CASE Idle
    BY <2>4, <2>5 DEF Idle
  <2>6. ASSUME NEW q \in Queries, Applicable(q), Pays(q)
        PROVE  Cardinality(Shown(o, g, t)') = Cardinality(HeldFor(o, g, t)')
    <3>1. CASE o = q.owner_id /\ RequestOf(q) \in About(p)
      <4> DEFINE counts == /\ q.requestor_id \notin p.exempt
                           /\ now <= t /\ t < now + p.tau
                 n == Len(audit) + 1
                 m == Len(history[<<o, g>>]) + 1
      <4>1. /\ Shown(o, g, t)' = IF counts THEN Shown(o, g, t) \cup {n} ELSE Shown(o, g, t)
            /\ n \notin Shown(o, g, t) /\ IsFiniteSet(Shown(o, g, t))
            /\ HeldFor(o, g, t)'
                 = IF counts THEN HeldFor(o, g, t) \cup {m} ELSE HeldFor(o, g, t)
            /\ m \notin HeldFor(o, g, t) /\ IsFiniteSet(HeldFor(o, g, t))
        BY <2>1, <2>6, <3>1, PaidCallShown
      <4> HIDE DEF counts, n, m
      <4>2. CASE counts
        <5>1. Shown(o, g, t)' = Shown(o, g, t) \cup {n}
              /\ HeldFor(o, g, t)' = HeldFor(o, g, t) \cup {m}
          BY <4>1, <4>2
        <5>2. /\ Cardinality(Shown(o, g, t)') = Cardinality(Shown(o, g, t)) + 1
              /\ Cardinality(HeldFor(o, g, t)') = Cardinality(HeldFor(o, g, t)) + 1
          BY <4>1, <5>1, FS_AddElement
        <5> QED BY <2>2, <5>2
      <4>3. CASE ~counts
        BY <2>2, <4>1, <4>3
      <4> QED BY <4>2, <4>3
    <3>2. CASE ~ (o = q.owner_id /\ RequestOf(q) \in About(p))
      <4>1. PICK e \in AuditEntry : PaidEntry(q, e) /\ audit' = Append(audit, e)
        BY <2>6 DEF Pays
      <4>2. ~ (e.owner_id = o /\ e.request \in About(p))
        BY <3>2, <4>1 DEF PaidEntry
      <4>3. Paid(o, About(p))' = Paid(o, About(p)) /\ \A i \in DOMAIN audit : audit'[i] = audit[i]
        BY <2>3, <4>1, <4>2, EntryAppended
      <4>4. history'[<<o, g>>] = history[<<o, g>>]
        BY <1>2, <2>1, <2>6, <3>2, PaidCallRecords
      <4> QED BY <2>4, <4>3, <4>4
    <3> QED BY <3>1, <3>2
  <2> QED BY <2>5, <2>6, StepIdlesOrPays
<1> QED BY <1>1, <1>2

(***************************************************************************)
(* The budget inside the Databank keeps the invariant its limits rest on.  *)
(***************************************************************************)
LEMMA BudgetInside ==
  /\ Init => BudgetProofs!IInv
  /\ SubmittedNow /\ Typed /\ BudgetProofs!IInv /\ [Next]_vars => BudgetProofs!IInv'
<1>1. Init => BudgetProofs!IInv
  BY SameBudget, BudgetProofs!InitIInv, BudgetConstants DEF Init
<1>2. ASSUME SubmittedNow, Typed, BudgetProofs!IInv, [Next]_vars
      PROVE  BudgetProofs!IInv'
  <2>1. [BudgetProofs!Next]_(BudgetProofs!vars)
    BY <1>2, ClockTyped, StepIsTimely
  <2> QED BY <1>2, <2>1, BudgetProofs!NextIInv, BudgetConstants
<1> QED BY <1>1, <1>2

(***************************************************************************)
(* Whatever else a Databank does, its budget keeps all three limits over   *)
(* every interval of tau and of a day, as it does alone (databank.py:      *)
(* submit_query is the only caller of check and consume).                  *)
(***************************************************************************)
THEOREM LimitsInside ==
  ASSUME SubmittedNow
  PROVE  Spec => [](/\ BudgetProofs!WindowBound
                    /\ BudgetProofs!DailyBound
                    /\ BudgetProofs!ShareBound)
<1>1. BudgetProofs!IInv => /\ BudgetProofs!WindowBound
                          /\ BudgetProofs!DailyBound
                          /\ BudgetProofs!ShareBound
  BY DEF BudgetProofs!IInv, BudgetProofs!Bounds
<1>2. Init => BudgetProofs!IInv
  BY BudgetInside
<1>3. Typed /\ BudgetProofs!IInv /\ [Next]_vars => BudgetProofs!IInv'
  BY BudgetInside
<1> QED BY <1>1, <1>2, <1>3, DatabankInvariant, PTL DEF Spec

(***************************************************************************)
(* The Databank serves as the budget promises: a day after any instant     *)
(* every requestor is within the limits, no requestor alone keeps the      *)
(* others out, and no decision depends on what was pruned (leakage.py:     *)
(* _recent and check, as submit_query calls them).                         *)
(***************************************************************************)
THEOREM ServiceInside ==
  ASSUME SubmittedNow
  PROVE  Spec => [](/\ BudgetProofs!RenewsWithinADay
                    /\ BudgetProofs!OneRequestorCannotBlock
                    /\ BudgetProofs!DecisionIsIdeal)
<1>1. BudgetProofs!IInv => /\ BudgetProofs!RenewsWithinADay
                          /\ BudgetProofs!OneRequestorCannotBlock
                          /\ BudgetProofs!DecisionIsIdeal
  BY BudgetConstants, BudgetProofs!InvariantRenews, BudgetProofs!InvariantShares,
     BudgetProofs!InvariantDecides
<1>2. Init => BudgetProofs!IInv
  BY BudgetInside
<1>3. Typed /\ BudgetProofs!IInv /\ [Next]_vars => BudgetProofs!IInv'
  BY BudgetInside
<1> QED BY <1>1, <1>2, <1>3, DatabankInvariant, PTL DEF Spec

(***************************************************************************)
(* When queries reach the Databank as they are submitted, no retention     *)
(* window of an owner's statement shows more than n_tau answers about a    *)
(* group of correlated attributes to requestors that are not exempt,       *)
(* whatever is erased, withdrawn or granted in between (databank.py:       *)
(* submit_query checks, charges and logs at one instant; leakage.py: the   *)
(* quota attaches to the datum).                                           *)
(***************************************************************************)
THEOREM AnswersStayBounded ==
  ASSUME SubmittedNow
  PROVE  Spec => []AnswersBounded
<1>1. Init => AnswersAgree /\ BudgetProofs!IInv
  <2>1. Init => \A g \in Groups : policies[g] = NoPolicy
    BY DEF Init, Budget!Init
  <2> QED BY <2>1, BudgetInside DEF AnswersAgree
<1>2. Typed /\ BudgetProofs!IInv /\ [Next]_vars => BudgetProofs!IInv'
  BY BudgetInside
<1>3. AnswersAgree /\ BudgetProofs!IInv => AnswersBounded
  <2> SUFFICES ASSUME AnswersAgree, BudgetProofs!IInv,
                      NEW o \in Owners, NEW g \in Groups, NEW t \in Budget!Times,
                      policies[g] # NoPolicy
               PROVE  Cardinality(Shown(o, g, t)) <= Budget!per_window(policies[g])
    BY DEF AnswersBounded, Shown
  <2>1. Cardinality(Shown(o, g, t)) = Cardinality(HeldFor(o, g, t))
    BY DEF AnswersAgree
  <2>2. BudgetProofs!Cardinality(HeldFor(o, g, t)) <= BudgetProofs!per_window(policies[g])
    <3>1. <<o, g>> \in BudgetProofs!Datum /\ t \in BudgetProofs!Times
      BY SameBudget DEF BudgetProofs!Datum
    <3> QED BY <3>1 DEF BudgetProofs!IInv, BudgetProofs!Bounds, BudgetProofs!WindowBound,
                        BudgetProofs!Bounded, HeldFor
  <2>3. Budget!per_window(policies[g]) = BudgetProofs!per_window(policies[g])
    BY SameBudget
  <2> QED BY <2>1, <2>2, <2>3, SameCardinality
<1>4. Typed /\ AnswersAgree /\ [Next]_vars => AnswersAgree'
  BY NextAnswers
<1> QED BY <1>1, <1>2, <1>3, <1>4, DatabankInvariant, PTL DEF Spec

===============================================================================
