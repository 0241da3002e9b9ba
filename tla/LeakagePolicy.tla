---------------------------- MODULE LeakagePolicy ----------------------------
(***************************************************************************)
(* DatumPolicy and _Use of src/databank/leakage.py: the value types of the *)
(* retention-bounded leakage budget, the rule that derives n_tau from the  *)
(* prior range and the resolution, and the order in which the three limits *)
(* of a policy are applied.                                                *)
(*                                                                         *)
(* Instants are natural numbers, DAY of them to a day.  An interval of     *)
(* length span that ends at t is half open on the left: t - span < at <= t *)
(* (the comparisons `u.at > at - policy.tau`, `uses[0].at <= at - DAY` and *)
(* `u.at <= at` of the source).                                            *)
(***************************************************************************)
EXTENDS Naturals, FiniteSets

CONSTANTS
  Requestors,   \* requestor ids
  Attributes,   \* attribute names a policy may cover
  Groups,       \* names of groups of correlated attributes
  Policies,     \* the DatumPolicy objects the program constructs
  DAY           \* length of a day

(***************************************************************************)
(* ceil(log2(prior_range / resolution)), at least 1.                       *)
(***************************************************************************)
answers_to_resolve(prior_range, resolution) ==
  CHOOSE k \in 1..prior_range :
    /\ prior_range <= resolution * 2^k
    /\ \A j \in 1..k - 1 : resolution * 2^j < prior_range

\* A plausible mistake: k answers per window, the number that resolves.
k_per_window(p) == answers_to_resolve(p.prior_range, p.resolution)

\* n_tau: the queries allowed in any window of length tau.
per_window(p) == answers_to_resolve(p.prior_range, p.resolution) - 1

DatumPolicy ==
  [group           : Groups,
   attributes      : SUBSET Attributes,
   tau             : Nat,
   daily_quota     : Nat,
   requestor_share : Nat,
   prior_range     : Nat \ {0},
   resolution      : Nat \ {0},
   exempt          : SUBSET Requestors]

\* __post_init__: a DatumPolicy for which this is false is never constructed.
ValidPolicy(p) ==
  /\ p.attributes # {}
  /\ p.tau \in 1..DAY
  /\ p.daily_quota >= 1
  /\ p.requestor_share \in 1..p.daily_quota - 1
  /\ per_window(p) \in Nat \ {0}

ASSUME DayAssumption == DAY \in Nat \ {0}

ASSUME PoliciesAssumption ==
  \A p \in Policies : p \in DatumPolicy /\ ValidPolicy(p)

\* One recorded query: when, by whom, and whether it counts.
Use == [at : Nat, requestor_id : Requestors, exempt : BOOLEAN]

\* A plausible mistake: the window is full only once it is overfull.
JudgeLate(p, in_window, counted, own) ==
  IF in_window > per_window(p) THEN "window_limit"
  ELSE IF counted >= p.daily_quota THEN "daily_quota"
  ELSE IF own >= p.requestor_share THEN "requestor_share"
  ELSE "allow"

\* A plausible mistake: a requestor may exceed its share by one.
JudgeGenerous(p, in_window, counted, own) ==
  IF in_window >= per_window(p) THEN "window_limit"
  ELSE IF counted >= p.daily_quota THEN "daily_quota"
  ELSE IF own > p.requestor_share THEN "requestor_share"
  ELSE "allow"

\* A plausible mistake: the share is not looked at.
JudgeUnshared(p, in_window, counted, own) ==
  IF in_window >= per_window(p) THEN "window_limit"
  ELSE IF counted >= p.daily_quota THEN "daily_quota"
  ELSE "allow"

(***************************************************************************)
(* The limits of a policy in the order LeakageBudget.check applies them to *)
(* the number of uses inside the retention window, today, and today by the *)
(* requestor itself.                                                       *)
(***************************************************************************)
Judge(p, in_window, counted, own) ==
  IF in_window >= per_window(p) THEN "window_limit"
  ELSE IF counted >= p.daily_quota THEN "daily_quota"
  ELSE IF own >= p.requestor_share THEN "requestor_share"
  ELSE "allow"

(***************************************************************************)
(* What the limits are about: the counted uses of sequence h, made by      *)
(* requestors in R, in the interval of length span that ends at t.         *)
(***************************************************************************)
Held(h, t, span, R) ==
  {i \in DOMAIN h : /\ ~h[i].exempt
                    /\ h[i].requestor_id \in R
                    /\ h[i].at <= t
                    /\ t < h[i].at + span}

===============================================================================
