----------------------------- MODULE IdealBudget -----------------------------
(***************************************************************************)
(* What a leakage budget promises, stated without a queue to prune.  The   *)
(* budget remembers every query it ever charged to a datum and admits a    *)
(* further one exactly when no limit of the datum's policy is reached by   *)
(* the queries of the last tau and of the last day.  Policies in force     *)
(* never share a group name or an attribute.                               *)
(*                                                                         *)
(* LeakageBudget implements this module.                                   *)
(***************************************************************************)
EXTENDS LeakagePolicy, Sequences

CONSTANTS
  Owners,
  MaxTime,      \* bound on the clock
  MaxUses       \* bound on the queries charged, over all data

VARIABLES
  active,       \* the policies in force
  history,      \* all queries ever charged, per owner and group
  now           \* the clock

vars == <<active, history, now>>

Datum == Owners \X Groups

Init ==
  /\ active = {}
  /\ history = [d \in Datum |-> <<>>]
  /\ now = 0

\* The queries charged so far.
AllUses == UNION {{d} \X DOMAIN history[d] : d \in Datum}

Adopt(p) ==
  /\ \A q \in active : q.group # p.group /\ q.attributes \cap p.attributes = {}
  /\ active' = active \cup {p}
  /\ UNCHANGED <<history, now>>

\* No limit of policy p stops requestor r at this instant.
Admissible(p, h, r) ==
  \/ r \in p.exempt
  \/ Judge(p, Cardinality(Held(h, now, p.tau, Requestors)),
              Cardinality(Held(h, now, DAY, Requestors)),
              Cardinality(Held(h, now, DAY, {r}))) = "allow"

Charge(o, p, r) ==
  LET d == <<o, p.group>>
  IN  /\ Admissible(p, history[d], r)
      /\ Cardinality(AllUses) < MaxUses
      /\ history' = [history EXCEPT ![d] =
           Append(@, [at |-> now, requestor_id |-> r, exempt |-> r \in p.exempt])]
      /\ UNCHANGED <<active, now>>

Tick ==
  /\ now < MaxTime
  /\ now' = now + 1
  /\ UNCHANGED <<active, history>>

Next ==
  \/ \E p \in Policies : Adopt(p)
  \/ \E o \in Owners, p \in active, r \in Requestors : Charge(o, p, r)
  \/ Tick

Spec == Init /\ [][Next]_vars

===============================================================================
