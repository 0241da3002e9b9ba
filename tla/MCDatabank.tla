------------------------------ MODULE MCDatabank ------------------------------
(***************************************************************************)
(* Instances of Databank for TLC.                                          *)
(***************************************************************************)
EXTENDS Databank, TLC

CONSTANTS alice, retailer, school, birth, date_of_birth, age,
          age_over_threshold, age_band, unregistered

\* Two algorithms read correlated attributes, which share one budget.
OneRead == age_over_threshold :> date_of_birth

MCReads == age_over_threshold :> date_of_birth @@ age_band :> age

\* n_tau = 1, at most two queries a day and one a day for each requestor; the
\* school may be exempt.
MCPolicies ==
  [group : {birth}, attributes : {{date_of_birth, age}}, tau : {1},
   daily_quota : {2}, requestor_share : {1}, prior_range : {4},
   resolution : {1}, exempt : {{}, {school}}]

\* The one without exempt requestors.
PlainPolicies == {p \in MCPolicies : p.exempt = {}}

\* One query, granted with different quotas.
QuotaPermissions ==
  [requestor_id : {retailer}, algorithm_id : {age_over_threshold},
   attribute : {date_of_birth}, quota_per_year : {1, 2}]

\* Queries about correlated attributes, without quotas.
OpenPermissions ==
  {[requestor_id |-> retailer, algorithm_id |-> age_over_threshold,
    attribute |-> date_of_birth, quota_per_year |-> NoQuota],
   [requestor_id |-> school, algorithm_id |-> age_band,
    attribute |-> age, quota_per_year |-> NoQuota]}

QueryOf(r, alg, a, year, at) ==
  [owner_id |-> alice, requestor_id |-> r, algorithm_id |-> alg,
   attribute |-> a, as_of |-> year, submitted_at |-> at]

\* The query the owner may permit, and the two malformed ones.
QuotaQueries ==
  {QueryOf(retailer, age_over_threshold, date_of_birth, None, None),
   QueryOf(retailer, age_over_threshold, age, None, None),
   QueryOf(retailer, unregistered, age, None, None)}

OpenQueries ==
  {QueryOf(retailer, age_over_threshold, date_of_birth, None, None),
   QueryOf(school, age_band, age, None, None)}

\* Queries about a date the requestor names.
AsOfQueries ==
  {QueryOf(retailer, age_over_threshold, date_of_birth, year, None) :
     year \in Years \cup {None}}

===============================================================================
