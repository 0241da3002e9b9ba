-------------------------------- MODULE Databank --------------------------------
(***************************************************************************)
(* Databank of src/databank/databank.py: deposits and erasures, permission *)
(* ledgers, the leakage budget and the statement of every owner, composed  *)
(* by submit_query.                                                        *)
(*                                                                         *)
(* A call of submit_query is one step, as the program runs it; its eight   *)
(* ways out are eight actions.  The Databank's own state is                *)
(*   records    the pairs of owner and attribute for which a record is     *)
(*              held (RecordStore), and                                    *)
(*   audit      the AuditLog, in the order of recording.                   *)
(* grants, usage, ever and served are the ledgers' (PermissionLedger), and *)
(* policies, group_of, uses, history and now are the budget's              *)
(* (LeakageBudget).  A Databank without a budget behaves as one whose      *)
(* budget has no policy.  submitted is a history variable: the calls of    *)
(* submit_query so far.                                                    *)
(***************************************************************************)
EXTENDS PermissionTypes, Sequences, FiniteSets

CONSTANTS
  Groups, Policies, DAY, NoPolicy, NoGroup,
  YEAR,         \* length of a year; those that start by MaxTime are in Years
  reads,        \* the registry: the attribute each registered algorithm reads
  Unknown,      \* algorithm ids nobody registered
  Queries,      \* the Query objects requestors submit
  None,         \* an absent as_of or submitted_at
  MaxTime,      \* bound on the clock
  MaxGrants,    \* bound on the length of an owner's list of grants
  MaxUsage, MaxUses,  \* bounds of the ledgers and of the budget, never reached
  MaxSubmitted, \* bound on the calls of submit_query
  LatestPolicy  \* bound on the calls before a policy is added

VARIABLES
  records, audit, submitted,
  grants, usage, ever, served,
  policies, group_of, uses, history, now

Ledger == INSTANCE PermissionLedger

Budget == INSTANCE LeakageBudget

own == <<records, audit, submitted>>

ledger == <<grants, usage, ever, served>>

budget == <<policies, group_of, uses, history, now>>

vars == <<own, ledger, budget>>

\* The fields of a Query submit_query reads; as_of matters by its year.
Query ==
  [owner_id     : Owners,
   requestor_id : Requestors,
   algorithm_id : Algorithms \cup Unknown,
   attribute    : Attributes,
   as_of        : Years \cup {None},
   submitted_at : Budget!Times \cup {None}]

ASSUME RegistryAssumption ==
  reads \in [Algorithms -> Attributes] /\ Unknown \cap Algorithms = {}

ASSUME QueriesAssumption == Queries \subseteq Query

\* What the components ask of their constants.
ASSUME BudgetAssumption ==
  /\ DAY \in Nat \ {0}
  /\ \A p \in Policies : p \in Budget!DatumPolicy /\ Budget!ValidPolicy(p)
  /\ NoPolicy \notin Policies /\ NoGroup \notin Groups

ASSUME BoundsAssumption ==
  {MaxTime, MaxGrants, MaxUsage, MaxUses, MaxSubmitted, LatestPolicy} \subseteq Nat

\* The years of the clock, and any others the as_of of a query may fall in.
ASSUME YearAssumption ==
  YEAR \in Nat \ {0} /\ {t \div YEAR : t \in 0..MaxTime} \subseteq Years

Init ==
  /\ records = {}
  /\ audit = <<>>
  /\ submitted = 0
  /\ Ledger!Init
  /\ Budget!Init

-----------------------------------------------------------------------------
(* What submit_query reads.                                                *)

RequestOf(q) ==
  [requestor_id |-> q.requestor_id, algorithm_id |-> q.algorithm_id,
   attribute |-> q.attribute]

YearOf(t) == t \div YEAR

\* The year whose quota is charged: as_of's, if the query names a date.
Year(q) == IF q.as_of = None THEN YearOf(now) ELSE q.as_of

\* The instant the leakage budget is asked about.
At(q) == IF q.submitted_at = None THEN now ELSE q.submitted_at

Registered(q) == q.algorithm_id \in Algorithms

Applicable(q) == Registered(q) /\ reads[q.algorithm_id] = q.attribute

Permission(q) == Ledger!Decision(q.owner_id, RequestOf(q), Year(q))

Permitted(q) == Applicable(q) /\ Permission(q) = "allow"

WithinBudget(q) ==
  Budget!Decision(q.owner_id, q.requestor_id, q.attribute, At(q)) = "allow"

Holds(q) == <<q.owner_id, q.attribute>> \in records

\* The query reaches the algorithm.
Executed(q) == Permitted(q) /\ WithinBudget(q) /\ Holds(q)

-----------------------------------------------------------------------------
(* What submit_query does on its ways out.                                 *)

Call == submitted < MaxSubmitted /\ submitted' = submitted + 1

AuditEntry ==
  [at       : Budget!Times,
   owner_id : Owners,
   request  : Request,
   decision : {"allow", "deny", "consent_required"},
   reason   : {"attribute", "permission", "budget", "no_record", "refused", "answered"}]

\* A plausible mistake: two arguments of the constructor change places.
LogSwapped(q, decision, reason) ==
  audit' = Append(audit,
    [at |-> now, owner_id |-> q.owner_id, request |-> RequestOf(q),
     decision |-> reason, reason |-> decision])

\* audit.record; the entry carries the time of recording, not submitted_at.
Log(q, decision, reason) ==
  audit' = Append(audit,
    [at |-> now, owner_id |-> q.owner_id, request |-> RequestOf(q),
     decision |-> decision, reason |-> reason])

\* The budget is asked and may prune; nothing is charged.
AskBudget(q) == Budget!Check(q.owner_id, q.requestor_id, q.attribute, At(q))

\* The budget is asked and _consume charges the ledger and the budget; a
\* datum outside every policy has no budget to charge.
Charge(q) ==
  /\ Ledger!CheckAndConsume(q.owner_id, RequestOf(q), Year(q))
  /\ IF Budget!policy_for(q.attribute) = NoPolicy
     THEN UNCHANGED budget
     ELSE Budget!CheckAndConsume(q.owner_id, q.requestor_id, q.attribute, At(q))

\* algorithms.get raises KeyError before anything is logged.
UnknownAlgorithm(q) ==
  /\ ~Registered(q)
  /\ Call
  /\ UNCHANGED <<records, audit, ledger, budget>>

WrongAttribute(q) ==
  /\ Registered(q) /\ ~Applicable(q)
  /\ Call
  /\ Log(q, "deny", "attribute")
  /\ UNCHANGED <<records, ledger, budget>>

NotPermitted(q) ==
  /\ Applicable(q) /\ ~Permitted(q)
  /\ Call
  /\ Log(q, Permission(q), "permission")
  /\ UNCHANGED <<records, ledger, budget>>

OverBudget(q) ==
  /\ Permitted(q) /\ ~WithinBudget(q)
  /\ Call
  /\ AskBudget(q)
  /\ Log(q, "deny", "budget")
  /\ UNCHANGED <<records, ledger>>

\* A plausible mistake: the charge comes before the look-up of the record.
NoRecordCharged(q) ==
  /\ Permitted(q) /\ WithinBudget(q) /\ ~Holds(q)
  /\ Call
  /\ Charge(q)
  /\ Log(q, "deny", "no_record")
  /\ UNCHANGED records

NoRecord(q) ==
  /\ Permitted(q) /\ WithinBudget(q) /\ ~Holds(q)
  /\ Call
  /\ AskBudget(q)
  /\ Log(q, "deny", "no_record")
  /\ UNCHANGED <<records, ledger>>

\* A plausible mistake: a query the algorithm refuses costs nothing.
RefusedFree(q) ==
  /\ Executed(q)
  /\ Call
  /\ AskBudget(q)
  /\ Log(q, "deny", "refused")
  /\ UNCHANGED <<records, ledger>>

\* A plausible mistake: a query the algorithm refuses is charged, not logged.
RefusedSilently(q) ==
  /\ Executed(q)
  /\ Call
  /\ Charge(q)
  /\ UNCHANGED <<records, audit>>

\* The algorithm raises AlgorithmRefusal.
Refused(q) ==
  /\ Executed(q)
  /\ Call
  /\ Charge(q)
  /\ Log(q, "deny", "refused")
  /\ UNCHANGED records

Answered(q) ==
  /\ Executed(q)
  /\ Call
  /\ Charge(q)
  /\ Log(q, "allow", "answered")
  /\ UNCHANGED records

\* The algorithm raises anything else, or its answer is over the bit budget:
\* the exception leaves submit_query before it charges or logs.
Faulted(q) ==
  /\ Executed(q)
  /\ Call
  /\ AskBudget(q)
  /\ UNCHANGED <<records, audit, ledger>>

Submit(q) ==
  \/ UnknownAlgorithm(q) \/ WrongAttribute(q) \/ NotPermitted(q)
  \/ OverBudget(q) \/ NoRecord(q)
  \/ Refused(q) \/ Answered(q) \/ Faulted(q)

-----------------------------------------------------------------------------
(* The owner's operations, the operator's, and time.                       *)

Deposit(o, a) ==
  /\ records' = records \cup {<<o, a>>}
  /\ UNCHANGED <<audit, submitted, ledger, budget>>

\* A plausible mistake: the trail goes with the record.
EraseTrail(o, a) ==
  /\ records' = records \ {<<o, a>>}
  /\ audit' = SelectSeq(audit, LAMBDA e : e.owner_id # o \/ e.request.attribute # a)
  /\ UNCHANGED <<submitted, ledger, budget>>

\* Two plausible mistakes: with the record, its owner's uses of the budget or
\* of the quotas for it are forgotten.
EraseBudget(o, a) ==
  /\ records' = records \ {<<o, a>>}
  /\ uses' = [d \in Budget!Datum |->
       IF d = <<o, group_of[a]>> THEN <<>> ELSE uses[d]]
  /\ UNCHANGED <<audit, submitted, ledger, policies, group_of, history, now>>
EraseUsage(o, a) ==
  /\ records' = records \ {<<o, a>>}
  /\ usage' = [c \in Key |-> IF c[1] = o /\ c[2].attribute = a THEN 0 ELSE usage[c]]
  /\ UNCHANGED <<audit, submitted, grants, ever, served, budget>>

Erase(o, a) ==
  /\ records' = records \ {<<o, a>>}
  /\ UNCHANGED <<audit, submitted, ledger, budget>>

\* An unknown algorithm raises KeyError before the ledger is touched.
Grant(o, g) ==
  /\ g.algorithm_id \in Algorithms
  /\ Ledger!Grant(o, g)
  /\ UNCHANGED <<own, budget>>

Revoke(o, r, alg) ==
  /\ Ledger!Revoke(o, r, alg)
  /\ UNCHANGED <<own, budget>>

\* The operator registers a policy of leakage, before the first query or later.
Configure(p) ==
  /\ submitted <= LatestPolicy
  /\ Budget!Add(p)
  /\ UNCHANGED <<own, ledger>>

Tick == Budget!Tick /\ UNCHANGED <<own, ledger>>

Next ==
  \/ \E q \in Queries : Submit(q)
  \/ \E o \in Owners :
       \/ \E a \in Attributes : Deposit(o, a) \/ Erase(o, a)
       \/ \E g \in Permissions : Grant(o, g)
       \/ \E r \in Requestors, alg \in Algorithms : Revoke(o, r, alg)
  \/ \E p \in Policies : Configure(p)
  \/ Tick

Spec == Init /\ [][Next]_vars

-----------------------------------------------------------------------------
(* Properties.                                                             *)

(***************************************************************************)
(* Records are held for owners and attributes that exist, and the log has  *)
(* well-formed entries.                                                    *)
(***************************************************************************)
TypeOK ==
  /\ records \subseteq Owners \X Attributes
  /\ audit \in Seq(AuditEntry)
  /\ submitted \in 0..MaxSubmitted
  /\ Ledger!TypeOK
  /\ Budget!TypeOK

\* The entries of queries the owner's quota and the budget paid for.
Charged(e) == e.reason \in {"refused", "answered"}

\* The places in the log of the charged entries of owner o for requests in K.
Paid(o, K) ==
  {i \in DOMAIN audit :
     Charged(audit[i]) /\ audit[i].owner_id = o /\ audit[i].request \in K}

\* The queries of kind k counted for owner o, numbered year by year.
Counted(o, k) == UNION {{y} \X (1..usage[<<o, k, y>>]) : y \in Years}

(***************************************************************************)
(* The owner can audit her quotas from her statement alone: for every      *)
(* query, the counters of all years add up to the entries that were        *)
(* answered or refused, through erasures, withdrawals and renewed grants.  *)
(***************************************************************************)
UsageMatchesStatement ==
  \A o \in Owners, k \in Request :
    Cardinality(Counted(o, k)) = Cardinality(Paid(o, {k}))

\* The requests about the attributes of policy p.
About(p) == {k \in Request : k.attribute \in p.attributes}

(***************************************************************************)
(* "Exempt requestors are still logged", and the budget and the statement  *)
(* never disagree: from the moment there is a policy for a group, a use is *)
(* recorded with every entry, answered or refused, about its attributes,   *)
(* in the same order, and with nothing else.                               *)
(***************************************************************************)
BudgetFollowsStatement ==
  [][\A d \in Budget!Datum : policies[d[2]] # NoPolicy =>
       LET p == policies[d[2]]
           new == Paid(d[1], About(p))' \ Paid(d[1], About(p))
           recorded == DOMAIN history'[d] \ DOMAIN history[d]
       IN  /\ Cardinality(recorded) = Cardinality(new)
           /\ \A i \in new, j \in recorded :
                /\ history'[d][j].requestor_id = audit'[i].request.requestor_id
                /\ history'[d][j].exempt = (audit'[i].request.requestor_id \in p.exempt)]_vars

\* What owner o's statement shows of the answers about group g since its policy
\* was added: as many of the last charged entries as the budget has seen.
Governed(o, g) ==
  LET paid == Paid(o, About(policies[g]))
  IN  {i \in paid : Cardinality({j \in paid : i <= j}) <= Len(history[<<o, g>>])}

(***************************************************************************)
(* "Within any retention window at most k - 1 queries run", as the owner   *)
(* reads it off her statement: since the policy was added, no interval of  *)
(* length tau shows more answers about a group of correlated attributes,   *)
(* whichever requestors that are not exempt and whichever algorithms       *)
(* asked.                                                                  *)
(***************************************************************************)
AnswersBounded ==
  \A o \in Owners, g \in Groups, t \in Budget!Times : policies[g] # NoPolicy =>
    LET p == policies[g]
    IN  Cardinality({i \in Governed(o, g) :
                       /\ audit[i].request.requestor_id \notin p.exempt
                       /\ audit[i].at <= t /\ t < audit[i].at + p.tau})
          <= Budget!per_window(p)

(***************************************************************************)
(* "Twice per requestor per year", as the owner reads it off her           *)
(* statement: the entries of one calendar year that were answered or       *)
(* refused never exceed the most generous permission she ever gave.        *)
(***************************************************************************)
QuotaOnStatement ==
  \A o \in Owners, k \in Request, y \in Years :
    LET n == Cardinality({i \in Paid(o, {k}) : YearOf(audit[i].at) = y})
    IN  n > 0 => \E g \in ever[o] :
                   Covers(g, k) /\ (g.quota_per_year = NoQuota \/ n <= g.quota_per_year)

(***************************************************************************)
(* "A denied query consumes nothing": no permission check and no budget    *)
(* check, of anyone, now or later, turns out differently because a query   *)
(* was denied, and remaining reports of no datum anything else, although   *)
(* the denial may have pruned the budget.                                  *)
(***************************************************************************)
DeniedIsFree ==
  [][Len(audit') > Len(audit) /\ ~Charged(audit'[Len(audit')]) =>
       \A o \in Owners :
         /\ \A r \in Requestors, a \in Attributes, t \in now..MaxTime + DAY :
              Budget!Decision(o, r, a, t)' = Budget!Decision(o, r, a, t)
         /\ \A a \in Attributes, t \in now..MaxTime + DAY :
              Budget!policy_for(a) # NoPolicy =>
                Budget!RemainingOf(o, a, t)' = Budget!RemainingOf(o, a, t)
         /\ \A k \in Request, y \in Years :
              Ledger!Decision(o, k, y)' = Ledger!Decision(o, k, y)]_vars

(***************************************************************************)
(* Inside the Databank the two components still keep their promises: every *)
(* step of it is a step of the ledgers' own specification or leaves them   *)
(* alone, and likewise for the budget.                                     *)
(***************************************************************************)
ImplementsComponents == Ledger!Spec /\ Budget!Spec

(***************************************************************************)
(* "Every query is logged": the log has an entry for every call of         *)
(* submit_query.                                                           *)
(***************************************************************************)
EveryQueryLogged == Len(audit) = submitted

===============================================================================
