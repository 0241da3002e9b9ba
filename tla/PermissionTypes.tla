---------------------------- MODULE PermissionTypes ----------------------------
(***************************************************************************)
(* StandingPermission of src/databank/models.py, the part of a Query a     *)
(* permission is matched on, and the keys of the usage counters.           *)
(***************************************************************************)
EXTENDS Naturals

CONSTANTS
  Owners, Requestors, Algorithms, Attributes,
  Years,
  Permissions,  \* the StandingPermission objects owners grant
  NoQuota       \* a quota_per_year of None

Request ==
  [requestor_id : Requestors, algorithm_id : Algorithms, attribute : Attributes]

StandingPermission ==
  [requestor_id   : Requestors,
   algorithm_id   : Algorithms,
   attribute      : Attributes,
   quota_per_year : Nat \cup {NoQuota}]

ASSUME PermissionsAssumption ==
  Permissions \subseteq StandingPermission /\ NoQuota \notin Nat

\* Whose data, which query, in which year.
Key == Owners \X Request \X Years

\* Permission g is for query k.
Covers(g, k) ==
  /\ g.requestor_id = k.requestor_id
  /\ g.algorithm_id = k.algorithm_id
  /\ g.attribute = k.attribute

\* Permission g admits one more query when `used` were counted this year.
Admits(g, used) == g.quota_per_year = NoQuota \/ used < g.quota_per_year

===============================================================================
