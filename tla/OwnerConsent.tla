----------------------------- MODULE OwnerConsent -----------------------------
(***************************************************************************)
(* What a permission ledger promises an owner, stated without the list it  *)
(* keeps: a query is served only under a permission that stands, one that  *)
(* was granted and not withdrawn since, and whose annual quota the queries *)
(* served before it have not used up, whichever permission they were       *)
(* served under.                                                           *)
(*                                                                         *)
(* PermissionLedger implements this module.                                *)
(***************************************************************************)
EXTENDS PermissionTypes

VARIABLES
  standing,     \* the permissions that stand, per owner
  served        \* the queries served, per owner, query and year

vars == <<standing, served>>

Init ==
  /\ standing = [o \in Owners |-> {}]
  /\ served = [c \in Key |-> 0]

Permit(o, g) ==
  /\ standing' = [standing EXCEPT ![o] = @ \cup {g}]
  /\ UNCHANGED served

\* Withdraw every permission of requestor r for algorithm alg.
Withdraw(o, r, alg) ==
  /\ standing' = [standing EXCEPT ![o] =
       {g \in @ : ~(g.requestor_id = r /\ g.algorithm_id = alg)}]
  /\ UNCHANGED served

Serve(o, k, y) ==
  /\ \E g \in standing[o] : Covers(g, k) /\ Admits(g, served[<<o, k, y>>])
  /\ served' = [served EXCEPT ![<<o, k, y>>] = @ + 1]
  /\ UNCHANGED standing

Next ==
  \E o \in Owners :
    \/ \E g \in Permissions : Permit(o, g)
    \/ \E r \in Requestors, alg \in Algorithms : Withdraw(o, r, alg)
    \/ \E k \in Request, y \in Years : Serve(o, k, y)

Spec == Init /\ [][Next]_vars

===============================================================================
