---------------------------- MODULE LeakageBudget ----------------------------
(***************************************************************************)
(* LeakageBudget of src/databank/leakage.py: the per-datum quotas shared   *)
(* by all requestors.                                                      *)
(*                                                                         *)
(* policies, group_of and uses are the dictionaries _policies, _group_of   *)
(* and _uses (NoPolicy and NoGroup stand for an absent key).  history is a *)
(* history variable: every use ever recorded, never pruned; the program    *)
(* has no such state and no action reads it, apart from the bound MaxUses. *)
(* now is the wall clock, datetime.now(timezone.utc), which the Databank   *)
(* passes as `at` when a query names no submission time.                   *)
(***************************************************************************)
EXTENDS LeakagePolicy, Sequences

CONSTANTS
  Owners,
  NoPolicy, NoGroup,
  MaxTime,      \* bound on the clock
  MaxUses       \* bound on the uses recorded, over all data

ASSUME BoundsAssumption == MaxTime \in Nat /\ MaxUses \in Nat

ASSUME SentinelAssumption == NoPolicy \notin Policies /\ NoGroup \notin Groups

VARIABLES policies, group_of, uses, history, now

vars == <<policies, group_of, uses, history, now>>

Datum == Owners \X Groups

Times == 0..MaxTime

Init ==
  /\ policies = [g \in Groups |-> NoPolicy]
  /\ group_of = [a \in Attributes |-> NoGroup]
  /\ uses = [d \in Datum |-> <<>>]
  /\ history = [d \in Datum |-> <<>>]
  /\ now = 0

\* The uses recorded so far.
AllUses == UNION {{d} \X DOMAIN history[d] : d \in Datum}

policy_for(a) == IF group_of[a] = NoGroup THEN NoPolicy ELSE policies[group_of[a]]

-----------------------------------------------------------------------------
(* The deque of one datum.                                                 *)

\* Two plausible mistakes: the budget is emptied at midnight; a use is kept
\* for an instant too long.
StaleAtMidnight(u, at) == u.at \div DAY < at \div DAY
StaleLate(u, at) == u.at + DAY < at

Stale(u, at) == u.at + DAY <= at

\* A plausible mistake: `if` for `while`, one use is dropped at a time.
DroppedOne(s, at) == IF s # <<>> /\ Stale(s[1], at) THEN 1 ELSE 0

\* How many uses the loop `while uses and uses[0].at <= at - DAY` drops: it
\* stops at the first use that is not stale, whatever comes behind it.
Dropped(s, at) ==
  CHOOSE n \in 0..Len(s) :
    /\ \A i \in 1..n : Stale(s[i], at)
    /\ n < Len(s) => ~Stale(s[n + 1], at)

Pruned(s, at) == SubSeq(s, Dropped(s, at) + 1, Len(s))

\* A plausible mistake: exempt requestors use up the quota too.
CountedAll(s, at, R) ==
  {i \in DOMAIN s : s[i].at <= at /\ s[i].requestor_id \in R}

\* The uses of a pruned deque that check counts: those not after at, not
\* exempt, by requestors in R.  Their age is not examined again.
Counted(s, at, R) ==
  {i \in DOMAIN s : s[i].at <= at /\ ~s[i].exempt /\ s[i].requestor_id \in R}

InWindow(p, s, at) == {i \in Counted(s, at, Requestors) : at < s[i].at + p.tau}

\* A plausible mistake: the share counts the retention window, not the day.
VerdictByWindow(p, s, r, at) ==
  Judge(p, Cardinality(InWindow(p, s, at)),
           Cardinality(Counted(s, at, Requestors)),
           Cardinality(InWindow(p, s, at) \cap Counted(s, at, {r})))

Verdict(p, s, r, at) ==
  Judge(p, Cardinality(InWindow(p, s, at)),
           Cardinality(Counted(s, at, Requestors)),
           Cardinality(Counted(s, at, {r})))

\* A plausible mistake: exempt queries are charged like all others.
RecordedAsCounted(p, r, at) == [at |-> at, requestor_id |-> r, exempt |-> FALSE]

\* The use consume records.
Recorded(p, r, at) == [at |-> at, requestor_id |-> r, exempt |-> r \in p.exempt]

-----------------------------------------------------------------------------
(* The operations.                                                         *)

\* Does check look at the deque at all for requestor r and attribute a?
Governed(r, a) == policy_for(a) # NoPolicy /\ r \notin policy_for(a).exempt

\* The decision of check(o, r, a, at).
Decision(o, r, a, at) ==
  IF Governed(r, a)
  THEN LET p == policy_for(a)
       IN  Verdict(p, Pruned(uses[<<o, p.group>>], at), r, at)
  ELSE "allow"

\* uses after _recent has pruned the deque of owner o and policy p.
Recent(o, p, at) == [uses EXCEPT ![<<o, p.group>>] = Pruned(@, at)]

\* A plausible mistake: check counts over a pruned copy of the deque.
AfterCheckOfCopy(o, r, a, at) == uses

\* uses after check(o, r, a, at).
AfterCheck(o, r, a, at) ==
  IF Governed(r, a) THEN Recent(o, policy_for(a), at) ELSE uses

\* The value remaining(o, a, at) returns for a governed attribute.
RemainingOf(o, a, at) ==
  LET p == policy_for(a)
      used == Cardinality(Counted(Pruned(uses[<<o, p.group>>], at), at, Requestors))
  IN  IF used < p.daily_quota THEN p.daily_quota - used ELSE 0

\* add.  A second policy for the group, or for one of the attributes, raises
\* ValueError before anything is assigned.
Add(p) ==
  /\ policies[p.group] = NoPolicy
  /\ \A a \in p.attributes : group_of[a] = NoGroup
  /\ policies' = [policies EXCEPT ![p.group] = p]
  /\ group_of' = [a \in Attributes |->
                    IF a \in p.attributes THEN p.group ELSE group_of[a]]
  /\ UNCHANGED <<uses, history, now>>

\* check alone: the query is denied, or is admitted and then never charged
\* (no record is held, or the algorithm fails).
Check(o, r, a, at) ==
  /\ uses' = AfterCheck(o, r, a, at)
  /\ UNCHANGED <<policies, group_of, history, now>>

\* check admits the query and consume records it: the algorithm answered or
\* refused in between.
CheckAndConsume(o, r, a, at) ==
  LET p == policy_for(a)
      d == <<o, p.group>>
      use == Recorded(p, r, at)
  IN  /\ Decision(o, r, a, at) = "allow"
      /\ p # NoPolicy
      /\ Cardinality(AllUses) < MaxUses
      /\ uses' = [AfterCheck(o, r, a, at) EXCEPT ![d] = Append(@, use)]
      /\ history' = [history EXCEPT ![d] = Append(@, use)]
      /\ UNCHANGED <<policies, group_of, now>>

\* remaining prunes like check does.
Remaining(o, a, at) ==
  /\ policy_for(a) # NoPolicy
  /\ uses' = Recent(o, policy_for(a), at)
  /\ UNCHANGED <<policies, group_of, history, now>>

Tick ==
  /\ now < MaxTime
  /\ now' = now + 1
  /\ UNCHANGED <<policies, group_of, uses, history>>

Operation(at) ==
  \E o \in Owners, a \in Attributes :
    \/ \E r \in Requestors : Check(o, r, a, at)
    \/ \E r \in Requestors : CheckAndConsume(o, r, a, at)
    \/ Remaining(o, a, at)

\* Queries reach the budget as they are submitted, at a clock that does not
\* go back.
Next == Tick \/ (\E p \in Policies : Add(p)) \/ Operation(now)

Spec == Init /\ [][Next]_vars

\* Callers set submitted_at themselves, in any order.
ReplayNext == (\E p \in Policies : Add(p)) \/ (\E at \in Times : Operation(at))

ReplaySpec == Init /\ [][ReplayNext]_vars

-----------------------------------------------------------------------------
(* Properties.                                                             *)

(***************************************************************************)
(* The dictionaries hold policies, groups and uses of the right types.     *)
(***************************************************************************)
TypeOK ==
  /\ policies \in [Groups -> Policies \cup {NoPolicy}]
  /\ group_of \in [Attributes -> Groups \cup {NoGroup}]
  /\ uses \in [Datum -> Seq(Use)]
  /\ history \in [Datum -> Seq(Use)]
  /\ now \in Times

\* A limit of n on the counted uses of requestors R of datum d, in every
\* interval of length span.
Bounded(d, span, R, n) ==
  \A t \in Times : Cardinality(Held(history[d], t, span, R)) <= n

(***************************************************************************)
(* "The largest number of queries in any interval of length tau that stays *)
(* below the k answers needed": over the whole past of a datum, no         *)
(* retention window ever held more than n_tau counted queries, although    *)
(* the budget only remembers the current day.                              *)
(***************************************************************************)
WindowBound ==
  \A d \in Datum : policies[d[2]] # NoPolicy =>
    Bounded(d, policies[d[2]].tau, Requestors, per_window(policies[d[2]]))

(***************************************************************************)
(* The quota attaches to the datum and counts all requestors together: no  *)
(* interval of a day, wherever it starts, holds more than daily_quota      *)
(* counted queries.                                                        *)
(***************************************************************************)
DailyBound ==
  \A d \in Datum : policies[d[2]] # NoPolicy =>
    Bounded(d, DAY, Requestors, policies[d[2]].daily_quota)

(***************************************************************************)
(* No interval of a day holds more than requestor_share counted queries of *)
(* one requestor.                                                          *)
(***************************************************************************)
ShareBound ==
  \A d \in Datum, r \in Requestors : policies[d[2]] # NoPolicy =>
    Bounded(d, DAY, {r}, policies[d[2]].requestor_share)

(***************************************************************************)
(* "A compliant requestor can hold, at any moment, only the results of     *)
(* queries issued within the preceding tau": however the requestors        *)
(* combine the answers held in one retention window, halving the prior     *)
(* range once per answer leaves more than one resolution step.             *)
(***************************************************************************)
DatumUnresolved ==
  \A d \in Datum : policies[d[2]] # NoPolicy =>
    LET p == policies[d[2]]
    IN  \A t \in Times :
          p.resolution * 2^Cardinality(Held(history[d], t, p.tau, Requestors))
            < p.prior_range

(***************************************************************************)
(* Pruning is invisible: check decides over the pruned deque as it would   *)
(* over everything that was ever recorded.                                 *)
(***************************************************************************)
DecisionIsIdeal ==
  \A o \in Owners, a \in Attributes, r \in Requestors : Governed(r, a) =>
    LET p == policy_for(a)
        h == history[<<o, p.group>>]
    IN  Decision(o, r, a, now) =
          Judge(p, Cardinality(Held(h, now, p.tau, Requestors)),
                   Cardinality(Held(h, now, DAY, Requestors)),
                   Cardinality(Held(h, now, DAY, {r})))

(***************************************************************************)
(* remaining reports exactly what today's recorded queries leave of the    *)
(* daily quota; the quota is never overdrawn.                              *)
(***************************************************************************)
RemainingIsExact ==
  \A o \in Owners, a \in Attributes : policy_for(a) # NoPolicy =>
    LET p == policy_for(a)
    IN  RemainingOf(o, a, now)
          + Cardinality(Held(history[<<o, p.group>>], now, DAY, Requestors))
        = p.daily_quota

(***************************************************************************)
(* "This budget renews": whatever was asked, a day later every requestor   *)
(* is admitted again, at the very instant the last use is a day old.       *)
(***************************************************************************)
RenewsWithinADay ==
  \A o \in Owners, a \in Attributes, r \in Requestors :
    Decision(o, r, a, now + DAY) = "allow"

(***************************************************************************)
(* "No single requestor can exhaust the datum": while only one requestor's *)
(* queries count, every other requestor is admitted.  So it is for every   *)
(* policy whose share is smaller than its n_tau; __post_init__ asks that   *)
(* the share be smaller than the daily quota, which is not enough.         *)
(***************************************************************************)
OneRequestorCannotBlock ==
  \A o \in Owners, a \in Attributes, r \in Requestors :
    LET p == policy_for(a)
        h == history[<<o, p.group>>]
    IN  /\ p # NoPolicy
        /\ p.requestor_share < per_window(p)
        /\ Held(h, now, DAY, Requestors) = Held(h, now, DAY, {r})
        => \A other \in Requestors \ {r} : Decision(o, other, a, now) = "allow"

(***************************************************************************)
(* add keeps the two dictionaries in step: an attribute belongs to the     *)
(* group whose policy covers it and to no other.                           *)
(***************************************************************************)
GroupsAgree ==
  \A a \in Attributes, g \in Groups :
    group_of[a] = g <=> policies[g] # NoPolicy /\ a \in policies[g].attributes

(***************************************************************************)
(* What is stored of the queries that count is bounded however long the    *)
(* Databank runs: every query that grows the deque has pruned it first.    *)
(* (Queries of exempt requestors never prune; those do pile up, until      *)
(* somebody else asks.)                                                    *)
(***************************************************************************)
StoredWithinQuota ==
  \A d \in Datum : policies[d[2]] # NoPolicy =>
    Cardinality({i \in DOMAIN uses[d] : ~uses[d][i].exempt})
      <= policies[d[2]].daily_quota

(***************************************************************************)
(* The budget implements the promise of IdealBudget.                       *)
(***************************************************************************)
Ideal == INSTANCE IdealBudget
           WITH active <- {policies[g] : g \in Groups} \ {NoPolicy}

ImplementsIdeal == Ideal!Spec

===============================================================================
