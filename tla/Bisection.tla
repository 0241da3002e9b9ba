------------------------------- MODULE Bisection -------------------------------
(***************************************************************************)
(* Bisecting a birthday, as examples/leakage_budget.py does it: a broker   *)
(* that knows in which year the owner comes of age asks "is she at least   *)
(* 18 on this date?", halving the interval each time, at a Databank        *)
(* without a leakage budget and at one with adult_birth_date_policy.       *)
(*                                                                         *)
(* The Databank is the module Databank, the answer that of Dates.  The     *)
(* script bisects with one broker; here several may pool their answers.    *)
(***************************************************************************)
EXTENDS Dates, SequencesExt

CONSTANTS
  ALICE, RETAILER,
  PROBES,       \* the brokers, in the order in which the owner grants
  age_over, date_of_birth, age, school_year, birth_date,
  Births,       \* dates on which the owner may be born
  NoPolicy, NoGroup, NoQuota, None,
  MaxMinute,    \* the last minute anything is submitted at
  MaxQueries    \* bound on queries, never reached

ASSUME BirthsAssumption == \A d \in Births : IsDate(d)

VARIABLES
  records, audit, submitted, grants, usage, ever, served,
  policies, group_of, uses, history, now,
  born,      \* the date sealed in the record
  budgeted,  \* has the Databank a leakage budget
  lo, hi,    \* days of the year in which she comes of age, from 0
  asked,     \* answers so far
  stopped,   \* the brokers that were denied
  pc

bank == <<records, audit, submitted, grants, usage, ever, served,
          policies, group_of, uses, history, now>>

vars == <<bank, born, budgeted, lo, hi, asked, stopped, pc>>

Requestors == ToSet(PROBES) \cup {RETAILER}

THRESHOLD == 18

\* Minutes to the day; quarters of a day for 70 years and for one.
DAY == 1440

adult_birth_date_policy ==
  [group |-> birth_date, attributes |-> {date_of_birth, age, school_year},
   tau |-> 5, daily_quota |-> 5, requestor_share |-> 3,
   prior_range |-> 70 * 1461, resolution |-> 1461, exempt |-> {}]

\* The script is over within the day; PROBES is a list of brokers.
ASSUME ScriptAssumption ==
  /\ MaxMinute \in 0..DAY - 1
  /\ PROBES \in Seq(ToSet(PROBES)) /\ PROBES # <<>>
  /\ NoPolicy # adult_birth_date_policy /\ NoGroup # birth_date /\ None \notin Nat

Permission(r) ==
  [requestor_id |-> r, algorithm_id |-> age_over, attribute |-> date_of_birth,
   quota_per_year |-> NoQuota]

\* What the Databank sees of eighteen_on: the date asked about is the query's
\* as_of, which matters to it by its year; the algorithm below gets the day.
eighteen_on(r, year, minute) ==
  [owner_id |-> ALICE, requestor_id |-> r, algorithm_id |-> age_over,
   attribute |-> date_of_birth, as_of |-> year, submitted_at |-> minute]

\* The year of the shop's question, and the years of all questions.
CheckYear == 2026
AskedYears == {CheckYear} \cup {b.year + THRESHOLD : b \in Births}

\* Year 0 is the clock's; every question names a date, so none is counted in it.
Bank ==
  INSTANCE Databank WITH
    Owners <- {ALICE}, Algorithms <- {age_over},
    Attributes <- {date_of_birth, age, school_year},
    Permissions <- {Permission(r) : r \in Requestors},
    Groups <- {birth_date}, Policies <- {adult_birth_date_policy},
    YEAR <- MaxMinute + 1, Years <- {0} \cup AskedYears, MaxTime <- MaxMinute,
    reads <- [alg \in {age_over} |-> date_of_birth], Unknown <- {},
    Queries <- {eighteen_on(r, year, t) :
                  r \in Requestors, year \in AskedYears, t \in 0..MaxMinute},
    MaxGrants <- Cardinality(Requestors),
    MaxUsage <- MaxQueries, MaxUses <- MaxQueries, MaxSubmitted <- MaxQueries,
    LatestPolicy <- 0

\* The year in which she comes of age, and its days.
Year18 == born.year + THRESHOLD
Last18 == IF IsLeap(Year18) THEN 365 ELSE 364

\* Who is given a permission and asks.
Customers == IF budgeted THEN Append(PROBES, RETAILER) ELSE <<PROBES[1]>>

Init ==
  /\ Bank!Init
  /\ born \in Births /\ budgeted \in BOOLEAN
  /\ lo = 0 /\ hi = Last18
  /\ asked = 0 /\ stopped = {}
  /\ pc = "new"

-----------------------------------------------------------------------------
(* Databank(leakage=...), deposit, grant.                                  *)

Construct ==
  /\ pc = "new" /\ pc' = "constructed"
  /\ IF budgeted THEN Bank!Configure(adult_birth_date_policy) ELSE UNCHANGED bank
  /\ UNCHANGED <<born, budgeted, lo, hi, asked, stopped>>

Deposit ==
  /\ pc = "constructed" /\ pc' = "granting"
  /\ Bank!Deposit(ALICE, date_of_birth)
  /\ UNCHANGED <<born, budgeted, lo, hi, asked, stopped>>

Grant ==
  LET n == Len(grants[ALICE]) + 1
  IN  /\ pc = "granting"
      /\ Bank!Grant(ALICE, Permission(Customers[n]))
      /\ pc' = IF n = Len(Customers) THEN "bisecting" ELSE "granting"
      /\ UNCHANGED <<born, budgeted, lo, hi, asked, stopped>>

-----------------------------------------------------------------------------
(* bisect.                                                                 *)

\* Who got an answer.
Served == {audit[i].request.requestor_id : i \in {j \in DOMAIN audit :
            audit[j].decision = "allow"}}

mid == lo + (hi - lo) \div 2

\* Two plausible mistakes: the day asked about is not left out after a "no",
\* or left out after a "yes".
NarrowedFromMid(value) == IF value THEN <<lo, mid>> ELSE <<mid, hi>>
NarrowedBelowMid(value) == IF value THEN <<lo, mid - 1>> ELSE <<mid + 1, hi>>

\* The interval after an answer about the day in its middle.
Narrowed(value) == IF value THEN <<lo, mid>> ELSE <<mid + 1, hi>>

Answered(r) ==
  LET value == age_over_threshold(born, THRESHOLD, DayOfYear(Year18, mid))
  IN  /\ Bank!Executed(eighteen_on(r, Year18, asked))
      /\ Bank!Answered(eighteen_on(r, Year18, asked))
      /\ asked' = asked + 1
      /\ lo' = Narrowed(value)[1] /\ hi' = Narrowed(value)[2]
      /\ UNCHANGED stopped

\* break
Denied(r) ==
  /\ ~Bank!Executed(eighteen_on(r, Year18, asked))
  /\ Bank!Submit(eighteen_on(r, Year18, asked))
  /\ stopped' = stopped \cup {r}
  /\ UNCHANGED <<lo, hi, asked>>

\* One turn of the loop, of a broker that has not left it.
Ask(r) ==
  /\ pc = "bisecting" /\ lo < hi /\ r \notin stopped
  /\ Answered(r) \/ Denied(r)
  /\ UNCHANGED <<born, budgeted, pc>>

\* The loop is over: the interval is one day, or who joined in has been denied.
\* (A broker that has got no answer by then has not joined in.)
Finish ==
  /\ pc = "bisecting"
  /\ lo = hi \/ (stopped # {} /\ Served \subseteq stopped)
  /\ pc' = IF budgeted THEN "bisected" ELSE "done"
  /\ UNCHANGED <<bank, born, budgeted, lo, hi, asked, stopped>>

\* Half an hour later a shop asks whether she is of age.
RetailerCheck ==
  LET query == eighteen_on(RETAILER, CheckYear, MaxMinute)
  IN  /\ pc = "bisected" /\ pc' = "done"
      /\ IF Bank!Executed(query) THEN Bank!Answered(query) ELSE Bank!Submit(query)
      /\ UNCHANGED <<born, budgeted, lo, hi, asked, stopped>>

Next ==
  \/ Construct \/ Deposit \/ Grant
  \/ \E r \in ToSet(Customers) \ {RETAILER} : Ask(r)
  \/ Finish \/ RetailerCheck

\* The script waits for nobody: every call returns.
Spec == Init /\ [][Next]_vars /\ WF_vars(Next)

-----------------------------------------------------------------------------
(* Properties.                                                             *)

\* The day she comes of age; 1 March for who was born on 29 February.
Birthday ==
  IF born.month = 2 /\ born.day = 29 /\ ~IsLeap(Year18)
  THEN DaysBefore(Year18, 3)
  ELSE DaysBefore(Year18, born.month) + born.day - 1

(***************************************************************************)
(* One bit, one half: after n answers the interval is as wide as n         *)
(* halvings leave it, to the day, so "about nine questions once the year   *)
(* is known" suffice and fewer than eight cannot.                          *)
(***************************************************************************)
EveryAnswerHalves ==
  /\ (hi - lo) * 2^asked <= Last18
  /\ hi - lo + 1 >= (Last18 + 1) \div 2^asked

(***************************************************************************)
(* "The quota that stops it": whatever brokers pool, within the half hour  *)
(* their answers leave the interval as wide as the shares of those who got *)
(* one, or the daily quota of all, allow.                                  *)
(***************************************************************************)
BudgetKeepsWidth ==
  budgeted =>
    LET p == adult_birth_date_policy
        most == Min({p.daily_quota,
                     p.requestor_share * Cardinality(Served \ {RETAILER})})
    IN  hi - lo + 1 >= (Last18 + 1) \div 2^most

(***************************************************************************)
(* "The probe's share is spent; a legitimate check still goes through":    *)
(* when only one broker got answers, as in the script, it was stopped with *)
(* room left in the daily quota and in the window, and the shop, which     *)
(* asks half an hour later, is answered.                                   *)
(***************************************************************************)
RetailerServed ==
  pc = "done" /\ budgeted /\ Cardinality(Served \ {RETAILER}) <= 1 => RETAILER \in Served

(***************************************************************************)
(* "Without a budget the birthday falls out": the open Databank ends up    *)
(* with the birthday pinned to the day.                                    *)
(***************************************************************************)
PinnedWithoutBudget == ~budgeted ~> pc = "done" /\ lo = hi /\ lo = Birthday

===============================================================================
