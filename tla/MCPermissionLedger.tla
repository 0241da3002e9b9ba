-------------------------- MODULE MCPermissionLedger --------------------------
(***************************************************************************)
(* An instance of PermissionLedger for TLC.                                *)
(***************************************************************************)
EXTENDS PermissionLedger

CONSTANTS alice, retailer, age_over_threshold, school_year_of, date_of_birth, address

Permission(alg, attr, quota) ==
  [requestor_id |-> retailer, algorithm_id |-> alg, attribute |-> attr,
   quota_per_year |-> quota]

\* One query granted with three quotas, the same algorithm on an attribute it
\* does not read, and another algorithm.
MCPermissions ==
  {Permission(age_over_threshold, date_of_birth, 1),
   Permission(age_over_threshold, date_of_birth, 2),
   Permission(age_over_threshold, date_of_birth, NoQuota),
   Permission(age_over_threshold, address, 1),
   Permission(school_year_of, date_of_birth, 1)}

===============================================================================
