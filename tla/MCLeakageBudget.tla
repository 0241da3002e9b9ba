--------------------------- MODULE MCLeakageBudget ---------------------------
(***************************************************************************)
(* Instances of LeakageBudget for TLC.                                     *)
(***************************************************************************)
EXTENDS LeakageBudget

CONSTANTS alice, r1, r2, police, date_of_birth, age, birth, ages

Policy(g, attrs, tau, quota, share, range) ==
  [group |-> g, attributes |-> attrs, tau |-> tau, daily_quota |-> quota,
   requestor_share |-> share, prior_range |-> range, resolution |-> 1,
   exempt |-> {police}]

\* The shapes a policy takes: the window (n_tau = 2) is tighter than the daily
\* quota, or the daily quota (2) is tighter than the window (n_tau = 3).
TightWindow == Policy(birth, {date_of_birth, age}, 2, 3, 2, 8)
TightDay    == Policy(birth, {date_of_birth}, 2, 2, 1, 9)

\* A policy for another group: it clashes with the first over an attribute and
\* stands beside the second.
OnAge == Policy(ages, {age}, 1, 2, 1, 8)

MCPolicies == {TightWindow, TightDay, OnAge}

===============================================================================
