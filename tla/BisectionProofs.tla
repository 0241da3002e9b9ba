---------------------------- MODULE BisectionProofs ----------------------------
(***************************************************************************)
(* Theorems about Bisection: every answer halves the interval, whatever    *)
(* the date of birth, the brokers and the Databank's answers.              *)
(***************************************************************************)
EXTENDS Bisection, Counting

\* The interval is never empty, and its width, the days of the year and the
\* number of answers fit; the second bound is the property's, multiplied out.
Narrows ==
  /\ lo \in Nat /\ hi \in Nat /\ lo <= hi /\ asked \in Nat
  /\ (hi - lo) * 2^asked <= Last18
  /\ Last18 + 1 < (hi - lo + 2) * 2^asked

(***************************************************************************)
(* Halving an interval of w days and leaving out the day in its middle     *)
(* after a "no" leaves at most half of them and at least that less one.    *)
(***************************************************************************)
LEMMA Halved ==
  ASSUME lo \in Nat, hi \in Nat, lo < hi, NEW value \in BOOLEAN
  PROVE  LET l == Narrowed(value)[1]
             h == Narrowed(value)[2]
         IN  /\ l \in Nat /\ h \in Nat /\ l <= h
             /\ 2 * (h - l) <= hi - lo
             /\ hi - lo <= 2 * (h - l) + 2
<1> DEFINE w == hi - lo
           m == w \div 2
<1>1. w \in Nat /\ w > 0
  OBVIOUS
<1> HIDE DEF w
<1>2. m \in Nat /\ 2 * m <= w /\ w <= 2 * m + 1
  BY <1>1
<1> HIDE DEF m
<1>3. mid = lo + m
  BY DEF mid, m, w
<1>4. CASE value = TRUE
  BY <1>1, <1>2, <1>3, <1>4 DEF Narrowed, w
<1>5. CASE value = FALSE
  BY <1>1, <1>2, <1>3, <1>5 DEF Narrowed, w
<1> QED BY <1>4, <1>5

(***************************************************************************)
(* The bounds survive a step that halves the interval.                     *)
(***************************************************************************)
LEMMA HalvingKeepsBounds ==
  ASSUME PowersOfTwo, NEW n \in Nat, NEW w \in Nat, NEW u \in Nat, NEW days \in Nat,
         w * 2^n <= days, days + 1 < (w + 2) * 2^n, 2 * u <= w, w <= 2 * u + 2
  PROVE  u * 2^(n + 1) <= days /\ days + 1 < (u + 2) * 2^(n + 1)
<1> DEFINE P == 2^n
<1>1. P \in Nat /\ 2^(n + 1) = 2 * P
  BY DEF PowersOfTwo
<1>2. w * P <= days /\ days + 1 < (w + 2) * P
  OBVIOUS
<1> HIDE DEF P
<1>3. (2 * u) * P <= w * P
  BY <1>1
<1>4. (w + 2) * P <= (2 * u + 4) * P
  BY <1>1
<1>5. u * (2 * P) = (2 * u) * P /\ (u + 2) * (2 * P) = (2 * u + 4) * P
  BY <1>1
<1>6. (2 * u) * P \in Nat /\ (w + 2) * P \in Nat /\ (2 * u + 4) * P \in Nat /\ w * P \in Nat
  BY <1>1
<1>7. (2 * u) * P <= days /\ days + 1 < (2 * u + 4) * P
  BY <1>2, <1>3, <1>4, <1>6
<1> QED BY <1>1, <1>5, <1>7

(***************************************************************************)
(* A number below a multiple of another is that often divided by it.       *)
(***************************************************************************)
LEMMA BelowMultiple ==
  ASSUME NEW days \in Nat, NEW P \in Nat, P > 0, NEW k \in Nat, days < k * P
  PROVE  days \div P < k
<1> DEFINE q == days \div P
<1>1. q \in Nat /\ q * P <= days
  OBVIOUS
<1> HIDE DEF q
<1>2. q * P < k * P
  <2>1. q * P \in Nat /\ k * P \in Nat
    BY <1>1
  <2> QED BY <1>1, <2>1
<1>3. ~ (k <= q)
  <2> SUFFICES ASSUME k <= q PROVE FALSE
    OBVIOUS
  <2>1. k * P <= q * P
    BY <1>1
  <2>2. q * P \in Nat /\ k * P \in Nat
    BY <1>1
  <2> QED BY <1>2, <2>1, <2>2
<1> QED BY <1>1, <1>3 DEF q

(***************************************************************************)
(* At first the interval is the year.                                      *)
(***************************************************************************)
LEMMA InitNarrows ==
  ASSUME PowersOfTwo
  PROVE  Init => Narrows
<1> SUFFICES ASSUME Init PROVE Narrows
  OBVIOUS
<1>1. lo = 0 /\ hi = Last18 /\ asked = 0
  BY DEF Init
<1>2. 2^asked = 1
  BY <1>1 DEF PowersOfTwo
<1>3. Last18 \in Nat
  BY DEF Last18
<1> QED BY <1>1, <1>2, <1>3 DEF Narrows

(***************************************************************************)
(* An answer halves the interval; nothing else in the script touches it.   *)
(***************************************************************************)
LEMMA NextNarrows ==
  ASSUME PowersOfTwo
  PROVE  Narrows /\ [Next]_vars => Narrows'
<1> SUFFICES ASSUME Narrows, [Next]_vars PROVE Narrows'
  OBVIOUS
<1>1. Last18' = Last18 /\ Last18 \in Nat
  <2>1. born' = born
    BY DEF Next, vars, Construct, Deposit, Grant, Ask, Finish, RetailerCheck
  <2> QED BY <2>1 DEF Last18, Year18
<1>2. CASE UNCHANGED <<lo, hi, asked>>
  BY <1>1, <1>2 DEF Narrows
<1>3. ASSUME NEW r, lo < hi, Answered(r)
      PROVE  Narrows'
  <2> DEFINE value == age_over_threshold(born, THRESHOLD, DayOfYear(Year18, mid))
  <2>1. /\ lo' = Narrowed(value)[1] /\ hi' = Narrowed(value)[2]
        /\ asked' = asked + 1
    BY <1>3 DEF Answered
  <2>2. value \in BOOLEAN
    BY DEF age_over_threshold
  <2> HIDE DEF value
  <2>3. /\ lo' \in Nat /\ hi' \in Nat /\ lo' <= hi'
        /\ 2 * (hi' - lo') <= hi - lo
        /\ hi - lo <= 2 * (hi' - lo') + 2
    BY <1>3, <2>1, <2>2, Halved DEF Narrows
  <2>4. hi - lo \in Nat /\ asked \in Nat /\ hi' - lo' \in Nat
    <3>1. lo \in Nat /\ hi \in Nat /\ lo <= hi /\ asked \in Nat
      BY DEF Narrows
    <3>2. hi - lo \in Nat
      BY <3>1
    <3>3. hi' \in Nat /\ lo' \in Nat /\ lo' <= hi'
      BY <2>3
    <3>4. \A l, h \in Nat : l <= h => h - l \in Nat
      OBVIOUS
    <3>5. hi' - lo' \in Nat
      BY <3>3, <3>4
    <3> QED BY <3>1, <3>2, <3>5
  <2>5. /\ (hi - lo) * 2^asked <= Last18
        /\ Last18 + 1 < (hi - lo + 2) * 2^asked
    BY DEF Narrows
  <2>6. /\ (hi' - lo') * 2^(asked + 1) <= Last18
        /\ Last18 + 1 < (hi' - lo' + 2) * 2^(asked + 1)
    BY <1>1, <2>3, <2>4, <2>5, HalvingKeepsBounds
  <2> QED BY <1>1, <2>1, <2>3, <2>4, <2>6 DEF Narrows
<1> QED BY <1>2, <1>3 DEF Next, vars, Construct, Deposit, Grant, Ask, Denied, Finish, RetailerCheck

(***************************************************************************)
(* After n answers the interval is as wide as n halvings leave it, for     *)
(* every date of birth, however many brokers pool their answers and        *)
(* whatever is denied in between.                                          *)
(***************************************************************************)
THEOREM BisectionHalves ==
  ASSUME PowersOfTwo
  PROVE  Spec => []EveryAnswerHalves
<1>1. Narrows => EveryAnswerHalves
  <2> SUFFICES ASSUME Narrows PROVE EveryAnswerHalves
    OBVIOUS
  <2> DEFINE P == 2^asked
             days == Last18
  <2>1. /\ lo \in Nat /\ hi \in Nat /\ lo <= hi /\ asked \in Nat
        /\ (hi - lo) * P <= days /\ days + 1 < (hi - lo + 2) * P
    BY DEF Narrows
  <2>2. days + 1 \in Nat
    BY DEF Last18
  <2>3. P \in Nat /\ P > 0
    BY <2>1, PowersGrow
  <2> HIDE DEF P, days
  <2>4. (days + 1) \div P \in Nat /\ (days + 1) \div P < hi - lo + 2
    <3>1. hi - lo + 2 \in Nat
      BY <2>1
    <3>2. (days + 1) \div P < hi - lo + 2
      BY <2>1, <2>2, <2>3, <3>1, BelowMultiple
    <3> QED BY <2>2, <2>3, <3>2
  <2>5. hi - lo + 1 >= (days + 1) \div P
    BY <2>1, <2>4
  <2> QED BY <2>1, <2>5 DEF EveryAnswerHalves, P, days
<1> QED BY <1>1, InitNarrows, NextNarrows, PTL DEF Spec

-----------------------------------------------------------------------------
(* The Databank with the budget.                                           *)

\* The deque the questions are charged to.
Deque == <<ALICE, birth_date>>

\* Who asks.
Asking == ToSet(Customers) \ {RETAILER}

\* The Databank is configured with the policy for a birth date, and time
\* stands still: the questions carry theirs.
BankTyped ==
  /\ audit \in Seq(Bank!AuditEntry)
  /\ uses \in [Bank!Budget!Datum -> Seq(Bank!Budget!Use)]
  /\ now = 0
  /\ IF pc = "new"
     THEN /\ policies = [g \in {birth_date} |-> NoPolicy]
          /\ group_of = [a \in {date_of_birth, age, school_year} |-> NoGroup]
     ELSE /\ policies = [g \in {birth_date} |-> adult_birth_date_policy]
          /\ group_of = [a \in {date_of_birth, age, school_year} |-> birth_date]

(***************************************************************************)
(* Whoever asks is a requestor.                                            *)
(***************************************************************************)
LEMMA AskingAreRequestors == ToSet(Customers) \subseteq Requestors
<1>1. PROBES \in Seq(ToSet(PROBES)) /\ Len(PROBES) \in Nat /\ DOMAIN PROBES = 1..Len(PROBES)
      /\ PROBES # <<>>
  BY ScriptAssumption
<1>2. ToSet(Append(PROBES, RETAILER)) \subseteq Requestors
  <2> SUFFICES ASSUME NEW n \in DOMAIN Append(PROBES, RETAILER)
               PROVE  Append(PROBES, RETAILER)[n] \in Requestors
    BY DEF ToSet
  <2>1. CASE n \in DOMAIN PROBES
    BY <1>1, <2>1 DEF Requestors, ToSet
  <2>2. CASE n \notin DOMAIN PROBES
    <3>1. n = Len(PROBES) + 1
      BY <1>1, <2>2
    <3>2. Append(PROBES, RETAILER)[n] = RETAILER
      BY <1>1, <3>1
    <3> QED BY <3>2 DEF Requestors
  <2> QED BY <2>1, <2>2
<1>3. ToSet(<<PROBES[1]>>) \subseteq Requestors
  <2>1. 1 \in DOMAIN PROBES
    BY <1>1
  <2>2. PROBES[1] \in ToSet(PROBES)
    BY <2>1 DEF ToSet
  <2>3. ToSet(<<PROBES[1]>>) = {PROBES[1]}
    BY DEF ToSet
  <2> QED BY <2>2, <2>3 DEF Requestors
<1> QED BY <1>2, <1>3 DEF Customers

(***************************************************************************)
(* Within the day nothing is pruned from the deque.                        *)
(***************************************************************************)
LEMMA NothingStale ==
  ASSUME NEW s \in Seq(Bank!Budget!Use), NEW t \in 0..DAY - 1
  PROVE  Bank!Budget!Pruned(s, t) = s
<1>1. \A n \in DOMAIN s : ~Bank!Budget!Stale(s[n], t)
  <2> SUFFICES ASSUME NEW n \in DOMAIN s PROVE ~Bank!Budget!Stale(s[n], t)
    OBVIOUS
  <2>1. s[n] \in Bank!Budget!Use
    OBVIOUS
  <2>2. s[n].at \in Nat
    BY <2>1 DEF Bank!Budget!Use
  <2>3. t \in Nat /\ t < 1440
    BY DEF DAY
  <2>4. ~ (s[n].at + 1440 <= t)
    BY <2>2, <2>3
  <2> QED BY <2>4 DEF Bank!Budget!Stale, DAY
<1> DEFINE Drops(n) == /\ \A i \in 1..n : Bank!Budget!Stale(s[i], t)
                       /\ n < Len(s) => ~Bank!Budget!Stale(s[n + 1], t)
<1>2. Len(s) \in Nat /\ DOMAIN s = 1..Len(s)
  OBVIOUS
<1>3. \A n \in 0..Len(s) : Drops(n) <=> n = 0
  <2> SUFFICES ASSUME NEW n \in 0..Len(s) PROVE Drops(n) <=> n = 0
    OBVIOUS
  <2>1. ASSUME n = 0 PROVE Drops(n)
    <3>1. 1..n = {}
      BY <2>1
    <3>2. n < Len(s) => n + 1 \in DOMAIN s
      BY <1>2, <2>1
    <3> QED BY <1>1, <3>1, <3>2
  <2>2. ASSUME n # 0, Drops(n) PROVE FALSE
    <3>1. n \in 1..n /\ n \in DOMAIN s
      BY <1>2, <2>2
    <3> QED BY <1>1, <2>2, <3>1
  <2> QED BY <2>1, <2>2
<1>4. Bank!Budget!Dropped(s, t) = 0
  <2>1. 0 \in 0..Len(s)
    BY <1>2
  <2>2. Bank!Budget!Dropped(s, t) = CHOOSE n \in 0..Len(s) : Drops(n)
    BY DEF Bank!Budget!Dropped
  <2> HIDE DEF Drops
  <2> QED BY <1>3, <2>1, <2>2
<1>5. Bank!Budget!Pruned(s, t) = SubSeq(s, 1, Len(s))
  BY <1>4 DEF Bank!Budget!Pruned
<1> QED BY <1>2, <1>5

(***************************************************************************)
(* Asking about the deque within the day changes nothing in it; nor does a *)
(* question without a budget.                                              *)
(***************************************************************************)
LEMMA AskChangesNothing ==
  ASSUME BankTyped, pc # "new", NEW r, NEW t \in 0..DAY - 1
  PROVE  Bank!Budget!AfterCheck(ALICE, r, date_of_birth, t) = uses
<1>1. /\ policies = [g \in {birth_date} |-> adult_birth_date_policy]
      /\ group_of = [a \in {date_of_birth, age, school_year} |-> birth_date]
      /\ uses \in [Bank!Budget!Datum -> Seq(Bank!Budget!Use)]
  BY DEF BankTyped
<1>2. Bank!Budget!policy_for(date_of_birth) = adult_birth_date_policy
  BY <1>1, ScriptAssumption DEF Bank!Budget!policy_for
<1>3. adult_birth_date_policy.group = birth_date
  BY DEF adult_birth_date_policy
<1>4. Deque \in Bank!Budget!Datum
  BY DEF Deque, Bank!Budget!Datum
<1>5. Bank!Budget!Pruned(uses[Deque], t) = uses[Deque]
  <2>1. uses[Deque] \in Seq(Bank!Budget!Use)
    BY <1>1, <1>4
  <2> QED BY <2>1, NothingStale
<1>6. [uses EXCEPT ![Deque] = Bank!Budget!Pruned(@, t)] = uses
  <2> HIDE DEF Deque
  <2> QED BY <1>1, <1>4, <1>5
<1> QED BY <1>2, <1>3, <1>6 DEF Bank!Budget!AfterCheck, Bank!Budget!Recent, Deque

-----------------------------------------------------------------------------
(* What a question does to the Databank.                                   *)

\* The entry a question puts on the statement, and whether it was answered.
Entered(r, answered) ==
  \E e \in Bank!AuditEntry :
    /\ audit' = Append(audit, e)
    /\ e.request.requestor_id = r
    /\ e.decision = "allow" <=> answered

\* The use an answer is charged as.
UseOf(r, t) == [at |-> t, requestor_id |-> r, exempt |-> FALSE]

(***************************************************************************)
(* Only answers are entered as allowed.                                    *)
(***************************************************************************)
LEMMA LogEnters ==
  ASSUME BankTyped, NEW r \in Requestors, NEW y, NEW t,
         NEW decision \in {"allow", "deny", "consent_required"},
         NEW reason \in {"attribute", "permission", "budget", "no_record", "answered"},
         Bank!Log(eighteen_on(r, y, t), decision, reason)
  PROVE  Entered(r, decision = "allow")
<1> DEFINE k == [requestor_id |-> r, algorithm_id |-> age_over, attribute |-> date_of_birth]
           e == [at |-> now, owner_id |-> ALICE, request |-> k,
                 decision |-> decision, reason |-> reason]
<1>1. audit' = Append(audit, e)
  BY DEF Bank!Log, Bank!RequestOf, eighteen_on
<1>2. now \in Bank!Budget!Times
  BY ScriptAssumption DEF BankTyped, Bank!Budget!Times
<1>3. k \in Bank!Request /\ k.requestor_id = r
  BY DEF Bank!Request
<1>4. e \in Bank!AuditEntry /\ e.request = k /\ e.decision = decision
  <2> HIDE DEF k
  <2> QED BY <1>2, <1>3 DEF Bank!AuditEntry
<1> HIDE DEF e, k
<1> QED BY <1>1, <1>3, <1>4 DEF Entered

(***************************************************************************)
(* The questions are about the datum of the policy.                        *)
(***************************************************************************)
LEMMA PolicyInForce ==
  ASSUME BankTyped, pc # "new"
  PROVE  /\ Bank!Budget!policy_for(date_of_birth) = adult_birth_date_policy
         /\ adult_birth_date_policy # NoPolicy
         /\ adult_birth_date_policy.group = birth_date
         /\ \A r : Bank!Budget!Governed(r, date_of_birth)
         /\ Deque \in Bank!Budget!Datum
         /\ uses[Deque] \in Seq(Bank!Budget!Use)
<1>1. /\ policies = [g \in {birth_date} |-> adult_birth_date_policy]
      /\ group_of = [a \in {date_of_birth, age, school_year} |-> birth_date]
      /\ uses \in [Bank!Budget!Datum -> Seq(Bank!Budget!Use)]
  BY DEF BankTyped
<1>2. Bank!Budget!policy_for(date_of_birth) = adult_birth_date_policy
  BY <1>1, ScriptAssumption DEF Bank!Budget!policy_for
<1>3. /\ adult_birth_date_policy.group = birth_date
      /\ adult_birth_date_policy.exempt = {}
  BY DEF adult_birth_date_policy
<1>4. Deque \in Bank!Budget!Datum
  BY DEF Deque, Bank!Budget!Datum
<1>5. \A r : Bank!Budget!Governed(r, date_of_birth)
  BY <1>2, <1>3, ScriptAssumption DEF Bank!Budget!Governed
<1>6. uses[Deque] \in Seq(Bank!Budget!Use)
  <2> HIDE DEF Deque
  <2> QED BY <1>1, <1>4
<1> QED BY <1>2, <1>3, <1>4, <1>5, <1>6, ScriptAssumption

(***************************************************************************)
(* A question that is denied leaves only its entry.                        *)
(***************************************************************************)
LEMMA DeniedEffect ==
  ASSUME BankTyped, pc # "new", NEW r \in Requestors, NEW y, NEW t \in 0..DAY - 1,
         ~Bank!Executed(eighteen_on(r, y, t)), Bank!Submit(eighteen_on(r, y, t))
  PROVE  /\ UNCHANGED <<records, grants, policies, group_of, uses, now>>
         /\ Entered(r, FALSE)
<1> DEFINE q == eighteen_on(r, y, t)
<1>1. /\ q.owner_id = ALICE /\ q.requestor_id = r /\ q.attribute = date_of_birth
      /\ q.algorithm_id = age_over /\ Bank!At(q) = t
  <2>1. t \in Nat
    BY DEF DAY
  <2> QED BY <2>1, ScriptAssumption DEF eighteen_on, Bank!At
<1>2. ~Bank!Executed(q) /\ Bank!Submit(q)
  OBVIOUS
<1>3. Bank!Registered(q)
  BY <1>1 DEF Bank!Registered
<1>4. ASSUME Bank!AskBudget(q) PROVE UNCHANGED <<policies, group_of, uses, now>>
  BY <1>1, <1>4, AskChangesNothing DEF Bank!AskBudget, Bank!Budget!Check
<1>5. ASSUME NEW decision \in {"deny", "consent_required"},
             NEW reason \in {"attribute", "permission", "budget", "no_record"},
             Bank!Log(q, decision, reason)
      PROVE  Entered(r, FALSE)
  <2>1. Entered(r, decision = "allow")
    BY <1>5, LogEnters
  <2>2. (decision = "allow") = FALSE
    OBVIOUS
  <2> QED BY <2>1, <2>2
<1> HIDE DEF q
<1>6. CASE Bank!WrongAttribute(q)
  <2>1. Entered(r, FALSE)
    BY <1>5, <1>6 DEF Bank!WrongAttribute
  <2> QED BY <1>6, <2>1 DEF Bank!WrongAttribute, Bank!ledger, Bank!budget
<1>7. CASE Bank!NotPermitted(q)
  <2>1. Bank!Permission(q) \in {"deny", "consent_required"}
    BY <1>7 DEF Bank!NotPermitted, Bank!Permitted, Bank!Permission, Bank!Ledger!Decision
  <2>2. Entered(r, FALSE)
    BY <1>5, <1>7, <2>1 DEF Bank!NotPermitted
  <2> QED BY <1>7, <2>2 DEF Bank!NotPermitted, Bank!ledger, Bank!budget
<1>8. CASE Bank!OverBudget(q)
  <2>1. Entered(r, FALSE)
    BY <1>5, <1>8 DEF Bank!OverBudget
  <2> QED BY <1>4, <1>8, <2>1 DEF Bank!OverBudget, Bank!ledger
<1>9. CASE Bank!NoRecord(q)
  <2>1. Entered(r, FALSE)
    BY <1>5, <1>9 DEF Bank!NoRecord
  <2> QED BY <1>4, <1>9, <2>1 DEF Bank!NoRecord, Bank!ledger
<1> QED BY <1>2, <1>3, <1>6, <1>7, <1>8, <1>9
        DEF Bank!Submit, Bank!UnknownAlgorithm, Bank!Refused, Bank!Answered, Bank!Faulted

(***************************************************************************)
(* An answer is charged to the deque, and entered.                         *)
(***************************************************************************)
LEMMA AnsweredEffect ==
  ASSUME BankTyped, pc # "new", NEW r \in Requestors, NEW y, NEW t \in 0..DAY - 1,
         Bank!Answered(eighteen_on(r, y, t))
  PROVE  /\ UNCHANGED <<records, grants, policies, group_of, now>>
         /\ uses' = [uses EXCEPT ![Deque] = Append(@, UseOf(r, t))]
         /\ Entered(r, TRUE)
<1> DEFINE q == eighteen_on(r, y, t)
<1>1. /\ q.owner_id = ALICE /\ q.requestor_id = r /\ q.attribute = date_of_birth
      /\ Bank!At(q) = t
  <2>1. t \in Nat
    BY DEF DAY
  <2> QED BY <2>1, ScriptAssumption DEF eighteen_on, Bank!At
<1>2. Bank!Answered(q)
  OBVIOUS
<1>3. Entered(r, TRUE)
  <2>1. Bank!Log(eighteen_on(r, y, t), "allow", "answered")
    BY DEF Bank!Answered
  <2>2. Entered(r, "allow" = "allow")
    BY <2>1, LogEnters
  <2>3. ("allow" = "allow") = TRUE
    OBVIOUS
  <2> QED BY <2>2, <2>3
<1> HIDE DEF q
<1>4. Bank!Budget!CheckAndConsume(ALICE, r, date_of_birth, t)
  BY <1>1, <1>2, PolicyInForce DEF Bank!Answered, Bank!Charge
<1>5. Bank!Budget!Recorded(adult_birth_date_policy, r, t) = UseOf(r, t)
  <2>1. adult_birth_date_policy.exempt = {}
    BY DEF adult_birth_date_policy
  <2>2. (r \in adult_birth_date_policy.exempt) = FALSE
    BY <2>1
  <2>3. Bank!Budget!Recorded(adult_birth_date_policy, r, t)
          = [at |-> t, requestor_id |-> r, exempt |-> r \in adult_birth_date_policy.exempt]
    BY DEF Bank!Budget!Recorded
  <2> QED BY <2>2, <2>3 DEF UseOf
<1>6. uses' = [uses EXCEPT ![Deque] = Append(@, UseOf(r, t))]
  BY <1>4, <1>5, PolicyInForce, AskChangesNothing DEF Bank!Budget!CheckAndConsume, Deque
<1>7. UNCHANGED <<policies, group_of, now>>
  BY <1>4 DEF Bank!Budget!CheckAndConsume
<1>8. UNCHANGED <<records, grants>>
  BY <1>2 DEF Bank!Answered, Bank!Charge, Bank!Ledger!CheckAndConsume
<1> QED BY <1>3, <1>6, <1>7, <1>8

-----------------------------------------------------------------------------
(* What the budget lets through.                                           *)

(***************************************************************************)
(* Within the day the three limits are applied to all that was charged.    *)
(***************************************************************************)
LEMMA BudgetVerdict ==
  ASSUME BankTyped, pc # "new", NEW r, NEW y, NEW t \in 0..DAY - 1
  PROVE  LET s == uses[Deque]
             p == adult_birth_date_policy
         IN  Bank!WithinBudget(eighteen_on(r, y, t)) <=>
               /\ ~ (Cardinality(Bank!Budget!InWindow(p, s, t)) >= Bank!Budget!per_window(p))
               /\ ~ (Cardinality(Bank!Budget!Counted(s, t, Requestors)) >= 5)
               /\ ~ (Cardinality(Bank!Budget!Counted(s, t, {r})) >= 3)
<1> DEFINE s == uses[Deque]
           p == adult_birth_date_policy
           q == eighteen_on(r, y, t)
<1>1. /\ q.owner_id = ALICE /\ q.requestor_id = r /\ q.attribute = date_of_birth
      /\ Bank!At(q) = t
  <2>1. t \in Nat
    BY DEF DAY
  <2> QED BY <2>1, ScriptAssumption DEF eighteen_on, Bank!At
<1>2. p.daily_quota = 5 /\ p.requestor_share = 3 /\ p.group = birth_date
  BY DEF adult_birth_date_policy
<1> HIDE DEF q, p
<1>3. Bank!WithinBudget(q) <=> Bank!Budget!Decision(ALICE, r, date_of_birth, t) = "allow"
  BY <1>1 DEF Bank!WithinBudget
<1>4. Bank!Budget!Decision(ALICE, r, date_of_birth, t)
        = Bank!Budget!Verdict(p, Bank!Budget!Pruned(uses[<<ALICE, p.group>>], t), r, t)
  BY PolicyInForce DEF Bank!Budget!Decision, p
<1>5. Bank!Budget!Pruned(uses[<<ALICE, p.group>>], t) = s
  BY <1>2, PolicyInForce, NothingStale DEF Deque
<1>6. Bank!Budget!Verdict(p, s, r, t)
        = Bank!Budget!Judge(p, Cardinality(Bank!Budget!InWindow(p, s, t)),
                               Cardinality(Bank!Budget!Counted(s, t, Requestors)),
                               Cardinality(Bank!Budget!Counted(s, t, {r})))
  <2>1. \A S : Bank!Budget!Cardinality(S) = Cardinality(S)
    BY DEF Bank!Budget!Cardinality, Cardinality, Bank!Budget!IsFiniteSet, IsFiniteSet
  <2> HIDE DEF s
  <2> QED BY <2>1 DEF Bank!Budget!Verdict
<1> HIDE DEF s
<1>7. \A w, c, o : Bank!Budget!Judge(p, w, c, o) = "allow" <=>
        ~ (w >= Bank!Budget!per_window(p)) /\ ~ (c >= 5) /\ ~ (o >= 3)
  BY <1>2 DEF Bank!Budget!Judge
<1>8. Bank!WithinBudget(q) <=>
        /\ ~ (Cardinality(Bank!Budget!InWindow(p, s, t)) >= Bank!Budget!per_window(p))
        /\ ~ (Cardinality(Bank!Budget!Counted(s, t, Requestors)) >= 5)
        /\ ~ (Cardinality(Bank!Budget!Counted(s, t, {r})) >= 3)
  BY <1>3, <1>4, <1>5, <1>6, <1>7
<1> QED BY <1>8 DEF s, p, q

(***************************************************************************)
(* One more broker may have been served after an entry.                    *)
(***************************************************************************)
LEMMA ServedAfter ==
  ASSUME BankTyped, NEW r, NEW answered \in BOOLEAN, Entered(r, answered)
  PROVE  /\ Served' = IF answered THEN Served \cup {r} ELSE Served
         /\ audit' \in Seq(Bank!AuditEntry)
<1>1. PICK e \in Bank!AuditEntry :
        /\ audit' = Append(audit, e)
        /\ e.request.requestor_id = r
        /\ e.decision = "allow" <=> answered
  BY DEF Entered
<1>2. audit \in Seq(Bank!AuditEntry) /\ Len(audit) \in Nat /\ DOMAIN audit = 1..Len(audit)
  BY DEF BankTyped
<1>3. /\ audit' \in Seq(Bank!AuditEntry)
      /\ DOMAIN audit' = DOMAIN audit \cup {Len(audit) + 1}
      /\ audit'[Len(audit) + 1] = e
      /\ \A i \in DOMAIN audit : audit'[i] = audit[i]
      /\ Len(audit) + 1 \notin DOMAIN audit
  BY <1>1, <1>2
<1>4. CASE answered
  BY <1>1, <1>3, <1>4 DEF Served
<1>5. CASE ~answered
  BY <1>1, <1>3, <1>5 DEF Served
<1> QED BY <1>3, <1>4, <1>5

(***************************************************************************)
(* Only finitely many brokers are ever served.                             *)
(***************************************************************************)
LEMMA ServedFinite ==
  BankTyped =>
    /\ IsFiniteSet(Served \ {RETAILER})
    /\ Cardinality(Served \ {RETAILER}) \in Nat
<1> SUFFICES ASSUME BankTyped
             PROVE  /\ IsFiniteSet(Served \ {RETAILER})
                    /\ Cardinality(Served \ {RETAILER}) \in Nat
  OBVIOUS
<1> DEFINE Allowed == {j \in DOMAIN audit : audit[j].decision = "allow"}
<1>1. Len(audit) \in Nat /\ DOMAIN audit = 1..Len(audit)
  BY DEF BankTyped
<1>2. IsFiniteSet(DOMAIN audit)
  <2> DEFINE n == Len(audit)
  <2>1. n \in Nat
    BY <1>1
  <2> HIDE DEF n
  <2>2. IsFiniteSet(1..n)
    BY <2>1, FS_Interval
  <2> QED BY <1>1, <2>2 DEF n
<1>3. IsFiniteSet(Allowed)
  BY <1>2, FS_Subset
<1> DEFINE f == [j \in Allowed |-> audit[j].request.requestor_id]
<1>4. f \in Surjection(Allowed, Served)
  BY DEF Surjection, Served
<1>5. IsFiniteSet(Served)
  BY <1>3, <1>4, FS_Surjection
<1>6. IsFiniteSet(Served \ {RETAILER})
  BY <1>5, FS_Subset
<1> QED BY <1>6, FS_CardinalityType

-----------------------------------------------------------------------------
(* How many answers the budget allows.                                     *)

\* Until the retailer comes, the deque holds one use for each answer, in the
\* order of asking, and no broker has more of them than its share.
Charged ==
  pc # "done" =>
    LET s == uses[Deque]
    IN  /\ Len(s) = asked
        /\ \A i \in DOMAIN s : /\ s[i].at < asked
                               /\ ~s[i].exempt
                               /\ s[i].requestor_id \in Served \ {RETAILER}
        /\ \A r : Cardinality({i \in DOMAIN s : s[i].requestor_id = r}) <= 3

\* The answers of the brokers are within the limits of the policy.
Within ==
  /\ asked \in 0..5
  /\ asked <= 3 * Cardinality(Served \ {RETAILER})

BankIInv == budgeted => BankTyped /\ Charged /\ Within

(***************************************************************************)
(* At first nobody is charged.                                             *)
(***************************************************************************)
LEMMA InitBank == Init => BankIInv
<1> SUFFICES ASSUME Init PROVE BankTyped /\ Charged /\ Within
  BY DEF BankIInv
<1>1. /\ audit = <<>> /\ now = 0 /\ asked = 0 /\ pc = "new"
      /\ policies = [g \in {birth_date} |-> NoPolicy]
      /\ group_of = [a \in {date_of_birth, age, school_year} |-> NoGroup]
      /\ uses = [d \in Bank!Budget!Datum |-> <<>>]
  BY DEF Init, Bank!Init, Bank!Budget!Init
<1>2. BankTyped
  <2>1. uses \in [Bank!Budget!Datum -> Seq(Bank!Budget!Use)]
    <3>1. <<>> \in Seq(Bank!Budget!Use)
      OBVIOUS
    <3> QED BY <1>1, <3>1
  <2> QED BY <1>1, <2>1 DEF BankTyped
<1>3. uses[Deque] = <<>>
  <2>1. Deque \in Bank!Budget!Datum
    BY DEF Deque, Bank!Budget!Datum
  <2> HIDE DEF Deque
  <2> QED BY <1>1, <2>1
<1>4. Charged
  <2> DEFINE s == uses[Deque]
  <2>1. Len(s) = 0 /\ DOMAIN s = {}
    BY <1>3
  <2>2. ASSUME NEW r PROVE Cardinality({i \in DOMAIN s : s[i].requestor_id = r}) <= 3
    <3>1. {i \in DOMAIN s : s[i].requestor_id = r} = {}
      BY <2>1
    <3>2. Cardinality({i \in DOMAIN s : s[i].requestor_id = r}) = 0
      BY <3>1, FS_EmptySet
    <3> QED BY <3>2
  <2> HIDE DEF s
  <2> QED BY <1>1, <2>1, <2>2 DEF Charged, s
<1>5. Within
  <2>1. Cardinality(Served \ {RETAILER}) \in Nat
    BY <1>2, ServedFinite
  <2> QED BY <1>1, <2>1 DEF Within
<1> QED BY <1>2, <1>4, <1>5

(***************************************************************************)
(* An answer finds room in the broker's share and in the daily quota.      *)
(***************************************************************************)
LEMMA AnswerFindsRoom ==
  ASSUME BankTyped, Charged, Within, pc = "bisecting", NEW r \in Asking,
         Bank!Executed(eighteen_on(r, Year18, asked))
  PROVE  LET s == uses[Deque]
         IN  asked < 5 /\ Cardinality({i \in DOMAIN s : s[i].requestor_id = r}) < 3
<1> DEFINE s == uses[Deque]
           Own == {i \in DOMAIN s : s[i].requestor_id = r}
<1>1. s \in Seq(Bank!Budget!Use) /\ Len(s) = asked /\ DOMAIN s = 1..Len(s) /\ asked \in Nat
  BY PolicyInForce DEF Charged, Within
<1>2. asked \in 0..DAY - 1
  BY DEF Within, DAY
<1>3. Bank!WithinBudget(eighteen_on(r, Year18, asked))
  BY DEF Bank!Executed
<1>4. /\ ~ (Cardinality(Bank!Budget!Counted(s, asked, Requestors)) >= 5)
      /\ ~ (Cardinality(Bank!Budget!Counted(s, asked, {r})) >= 3)
  BY <1>2, <1>3, BudgetVerdict
<1>5. \A i \in DOMAIN s : /\ s[i].at <= asked /\ ~s[i].exempt
                          /\ s[i].requestor_id \in Requestors
  <2> SUFFICES ASSUME NEW i \in DOMAIN s
               PROVE  s[i].at <= asked /\ ~s[i].exempt /\ s[i].requestor_id \in Requestors
    OBVIOUS
  <2>1. s[i].at < asked /\ ~s[i].exempt
    BY DEF Charged
  <2>2. s[i] \in Bank!Budget!Use
    BY <1>1
  <2>3. s[i].at \in Nat /\ s[i].requestor_id \in Requestors
    BY <2>2 DEF Bank!Budget!Use
  <2> QED BY <1>1, <2>1, <2>3
<1> HIDE DEF s
<1>6. Bank!Budget!Counted(s, asked, Requestors) = 1..asked
  BY <1>1, <1>5 DEF Bank!Budget!Counted
<1>7. Bank!Budget!Counted(s, asked, {r}) = Own
  BY <1>1, <1>5 DEF Bank!Budget!Counted
<1>8. IsFiniteSet(1..asked) /\ Cardinality(1..asked) = asked
  BY <1>1, FS_Interval
<1>9. Cardinality(Own) \in Nat
  <2>1. Own \subseteq 1..asked
    BY <1>1
  <2> HIDE DEF Own
  <2> QED BY <1>8, <2>1, FS_Subset, FS_CardinalityType
<1>10. asked < 5 /\ Cardinality(Own) < 3
  <2> HIDE DEF Own
  <2> QED BY <1>1, <1>4, <1>6, <1>7, <1>8, <1>9
<1> QED BY <1>10 DEF s

(***************************************************************************)
(* An answer to a broker keeps the count.                                  *)
(***************************************************************************)
LEMMA AnswerKeepsBank ==
  ASSUME BankTyped, Charged, Within, pc = "bisecting", pc' = pc,
         NEW r \in Asking, Answered(r)
  PROVE  BankTyped' /\ Charged' /\ Within'
<1> DEFINE s == uses[Deque]
           new == UseOf(r, asked)
<1>1. asked \in 0..DAY - 1 /\ asked \in Nat
  BY DEF Within, DAY
<1>2. r \in Requestors /\ r # RETAILER
  BY AskingAreRequestors DEF Asking
<1>3. /\ UNCHANGED <<records, grants, policies, group_of, now>>
      /\ uses' = [uses EXCEPT ![Deque] = Append(@, new)]
      /\ Entered(r, TRUE)
  <2>1. Bank!Answered(eighteen_on(r, Year18, asked))
    BY DEF Answered
  <2> QED BY <1>1, <1>2, <2>1, AnsweredEffect
<1>4. asked' = asked + 1
  BY DEF Answered
<1>5. Served' = Served \cup {r} /\ audit' \in Seq(Bank!AuditEntry)
  BY <1>3, ServedAfter
<1>6. asked < 5 /\ Cardinality({i \in DOMAIN s : s[i].requestor_id = r}) < 3
  BY AnswerFindsRoom DEF Answered
<1>7. /\ Deque \in Bank!Budget!Datum
      /\ s \in Seq(Bank!Budget!Use) /\ Len(s) \in Nat /\ DOMAIN s = 1..Len(s)
      /\ uses \in [Bank!Budget!Datum -> Seq(Bank!Budget!Use)]
  BY PolicyInForce DEF BankTyped
<1>8. new \in Bank!Budget!Use /\ new.at = asked /\ new.requestor_id = r /\ new.exempt = FALSE
  BY <1>1, <1>2 DEF UseOf, Bank!Budget!Use
<1>9. uses' \in [Bank!Budget!Datum -> Seq(Bank!Budget!Use)] /\ uses'[Deque] = Append(s, new)
  <2> HIDE DEF new, Deque
  <2> QED BY <1>3, <1>7, <1>8
<1>10. BankTyped'
  BY <1>3, <1>5, <1>9 DEF BankTyped
<1>11. /\ Len(s) = asked
       /\ \A i \in DOMAIN s : /\ s[i].at < asked /\ ~s[i].exempt
                              /\ s[i].requestor_id \in Served \ {RETAILER}
       /\ \A p : Cardinality({i \in DOMAIN s : s[i].requestor_id = p}) <= 3
  BY DEF Charged
<1> DEFINE grown == Append(s, new)
<1> HIDE DEF s, new
<1>12. /\ Len(grown) = asked'
       /\ DOMAIN grown = DOMAIN s \cup {asked'} /\ DOMAIN grown = 1..asked'
       /\ grown[asked'] = new /\ asked' \notin DOMAIN s
       /\ \A i \in DOMAIN s : grown[i] = s[i]
  BY <1>4, <1>7, <1>8, <1>11
<1> HIDE DEF grown
<1>13. \A i \in DOMAIN grown : /\ grown[i].at < asked' /\ ~grown[i].exempt
                               /\ grown[i].requestor_id \in Served' \ {RETAILER}
  <2> SUFFICES ASSUME NEW i \in DOMAIN grown
               PROVE  /\ grown[i].at < asked' /\ ~grown[i].exempt
                      /\ grown[i].requestor_id \in Served' \ {RETAILER}
    OBVIOUS
  <2>1. CASE i \in DOMAIN s
    <3>1. s[i] \in Bank!Budget!Use
      BY <1>7, <2>1
    <3>2. s[i].at \in Nat
      BY <3>1 DEF Bank!Budget!Use
    <3> QED BY <1>1, <1>4, <1>5, <1>11, <1>12, <2>1, <3>2
  <2>2. CASE i = asked'
    BY <1>1, <1>2, <1>4, <1>5, <1>8, <1>12, <2>2
  <2> QED BY <1>12, <2>1, <2>2
<1>14. ASSUME NEW p
       PROVE  Cardinality({i \in DOMAIN grown : grown[i].requestor_id = p}) <= 3
  <2> DEFINE Old == {i \in DOMAIN s : s[i].requestor_id = p}
             New == {i \in DOMAIN grown : grown[i].requestor_id = p}
  <2>1. IsFiniteSet(Old) /\ Cardinality(Old) \in Nat
    <3>1. Old \subseteq 1..asked
      BY <1>7, <1>11
    <3>2. IsFiniteSet(1..asked)
      BY <1>1, FS_Interval
    <3> HIDE DEF Old
    <3> QED BY <3>1, <3>2, FS_Subset, FS_CardinalityType
  <2>2. CASE p = r
    <3>1. New = Old \cup {asked'} /\ asked' \notin Old
      BY <1>8, <1>12, <2>2
    <3>2. Cardinality(Old) < 3
      BY <1>6, <2>2 DEF s
    <3> HIDE DEF Old, New
    <3>3. Cardinality(New) = Cardinality(Old) + 1
      BY <2>1, <3>1, FS_AddElement
    <3>4. Cardinality(New) <= 3
      BY <2>1, <3>2, <3>3
    <3> QED BY <3>4 DEF New
  <2>3. CASE p # r
    <3>1. New = Old
      BY <1>8, <1>12, <2>3
    <3> QED BY <1>11, <3>1
  <2> QED BY <2>2, <2>3
<1>15. Charged'
  <2>1. uses'[Deque] = grown
    BY <1>9 DEF grown
  <2>2. Deque' = Deque
    BY DEF Deque
  <2> QED BY <1>12, <1>13, <1>14, <2>1, <2>2 DEF Charged
<1>16. Within'
  <2> DEFINE R == Served' \ {RETAILER}
             f == [i \in 1..asked' |-> grown[i].requestor_id]
  <2>1. IsFiniteSet(R) /\ Cardinality(R) \in Nat
    <3>1. (IsFiniteSet(Served \ {RETAILER}) /\ Cardinality(Served \ {RETAILER}) \in Nat)'
      BY <1>10, ServedFinite, PTL
    <3> QED BY <3>1
  <2>2. IsFiniteSet(1..asked') /\ Cardinality(1..asked') = asked' /\ asked' \in 0..5
    <3>1. asked' \in Nat
      BY <1>1, <1>4
    <3> DEFINE n == asked'
    <3> HIDE DEF n
    <3>2. n \in Nat => IsFiniteSet(1..n) /\ Cardinality(1..n) = n
      BY FS_Interval
    <3>3. asked' \in 0..5
      BY <1>1, <1>4, <1>6
    <3> QED BY <3>1, <3>2, <3>3 DEF n
  <2>3. f \in [1..asked' -> R]
    BY <1>12, <1>13
  <2>4. \A p \in R : Cardinality({i \in 1..asked' : f[i] = p}) <= 3
    <3> SUFFICES ASSUME NEW p \in R PROVE Cardinality({i \in 1..asked' : f[i] = p}) <= 3
      OBVIOUS
    <3>1. {i \in 1..asked' : f[i] = p} = {i \in DOMAIN grown : grown[i].requestor_id = p}
      BY <1>12
    <3> QED BY <1>14, <3>1
  <2> HIDE DEF R, f
  <2>5. Cardinality(1..asked') <= 3 * Cardinality(R)
    BY <2>1, <2>2, <2>3, <2>4, FewPerValue
  <2> QED BY <2>2, <2>5 DEF Within, R
<1> QED BY <1>10, <1>15, <1>16

(***************************************************************************)
(* A denied question is charged to nobody.                                 *)
(***************************************************************************)
LEMMA DenialKeepsBank ==
  ASSUME BankTyped, Charged, Within, pc = "bisecting", pc' = pc,
         NEW r \in Asking, Denied(r)
  PROVE  BankTyped' /\ Charged' /\ Within'
<1>1. asked \in 0..DAY - 1 /\ asked' = asked
  BY DEF Within, DAY, Denied
<1>2. r \in Requestors
  BY AskingAreRequestors DEF Asking
<1>3. UNCHANGED <<policies, group_of, uses, now>> /\ Entered(r, FALSE)
  BY <1>1, <1>2, DeniedEffect DEF Denied
<1>4. Served' = Served /\ audit' \in Seq(Bank!AuditEntry)
  BY <1>3, ServedAfter
<1>5. Deque' = Deque
  BY DEF Deque
<1>6. BankTyped'
  BY <1>3, <1>4 DEF BankTyped
<1>7. Charged'
  BY <1>1, <1>3, <1>4, <1>5 DEF Charged
<1>8. Within'
  BY <1>1, <1>4 DEF Within
<1> QED BY <1>6, <1>7, <1>8

(***************************************************************************)
(* The retailer's question, answered or not, is no broker's.               *)
(***************************************************************************)
LEMMA RetailerKeepsBank ==
  ASSUME BankTyped, Within, RetailerCheck
  PROVE  BankTyped' /\ Charged' /\ Within'
<1> DEFINE q == eighteen_on(RETAILER, CheckYear, MaxMinute)
<1>1. pc = "bisected" /\ pc' = "done" /\ asked' = asked
  BY DEF RetailerCheck
<1>2. RETAILER \in Requestors /\ MaxMinute \in 0..DAY - 1
  BY ScriptAssumption DEF Requestors
<1>3. CASE Bank!Executed(q)
  <2>1. Bank!Answered(q)
    BY <1>3 DEF RetailerCheck
  <2>2. /\ UNCHANGED <<policies, group_of, now>>
        /\ uses' = [uses EXCEPT ![Deque] = Append(@, UseOf(RETAILER, MaxMinute))]
        /\ Entered(RETAILER, TRUE)
    BY <1>1, <1>2, <2>1, AnsweredEffect
  <2>3. Served' = Served \cup {RETAILER} /\ audit' \in Seq(Bank!AuditEntry)
    BY <2>2, ServedAfter
  <2>4. UseOf(RETAILER, MaxMinute) \in Bank!Budget!Use
    BY <1>2 DEF UseOf, Bank!Budget!Use
  <2>5. uses \in [Bank!Budget!Datum -> Seq(Bank!Budget!Use)] /\ Deque \in Bank!Budget!Datum
    BY <1>1, PolicyInForce DEF BankTyped
  <2>6. uses' \in [Bank!Budget!Datum -> Seq(Bank!Budget!Use)]
    <3> DEFINE new == UseOf(RETAILER, MaxMinute)
    <3> HIDE DEF new
    <3> QED BY <2>2, <2>4, <2>5 DEF new
  <2>7. BankTyped'
    BY <1>1, <2>2, <2>3, <2>6 DEF BankTyped
  <2>8. Served' \ {RETAILER} = Served \ {RETAILER}
    BY <2>3
  <2> QED BY <1>1, <2>7, <2>8 DEF Within, Charged
<1>4. CASE ~Bank!Executed(q)
  <2>1. Bank!Submit(q)
    BY <1>4 DEF RetailerCheck
  <2>2. UNCHANGED <<policies, group_of, uses, now>> /\ Entered(RETAILER, FALSE)
    BY <1>1, <1>2, <1>4, <2>1, DeniedEffect
  <2>3. Served' = Served /\ audit' \in Seq(Bank!AuditEntry)
    BY <2>2, ServedAfter
  <2>4. BankTyped'
    BY <1>1, <2>2, <2>3 DEF BankTyped
  <2> QED BY <1>1, <2>3, <2>4 DEF Within, Charged
<1> QED BY <1>3, <1>4

(***************************************************************************)
(* Configuring, depositing and granting charge nobody.                     *)
(***************************************************************************)
LEMMA PreparingKeepsBank ==
  ASSUME BankTyped, Charged, Within, budgeted,
         Construct \/ Deposit \/ Grant \/ Finish
  PROVE  BankTyped' /\ Charged' /\ Within'
<1>1. /\ UNCHANGED <<audit, uses, now, asked>>
      /\ pc # "done" /\ pc' # "new"
      /\ pc # "new" => UNCHANGED <<policies, group_of>>
      /\ pc = "new" => Construct
  BY DEF Construct, Deposit, Grant, Finish, Bank!Configure, Bank!Budget!Add, Bank!Deposit,
         Bank!Grant, Bank!own, Bank!ledger, Bank!budget, bank
<1>2. BankTyped'
  <2>1. CASE pc # "new"
    BY <1>1, <2>1 DEF BankTyped
  <2>2. CASE pc = "new"
    <3>1. /\ policies' = [policies EXCEPT ![birth_date] = adult_birth_date_policy]
          /\ group_of' = [a \in {date_of_birth, age, school_year} |-> birth_date]
      <4>1. Bank!Budget!Add(adult_birth_date_policy)
        BY <1>1, <2>2 DEF Construct, Bank!Configure
      <4>2. /\ adult_birth_date_policy.group = birth_date
            /\ adult_birth_date_policy.attributes = {date_of_birth, age, school_year}
        BY DEF adult_birth_date_policy
      <4> HIDE DEF adult_birth_date_policy
      <4> QED BY <4>1, <4>2 DEF Bank!Budget!Add
    <3>2. policies = [g \in {birth_date} |-> NoPolicy]
      BY <2>2 DEF BankTyped
    <3>3. policies' = [g \in {birth_date} |-> adult_birth_date_policy]
      <4> HIDE DEF adult_birth_date_policy
      <4> QED BY <3>1, <3>2
    <3> QED BY <1>1, <3>1, <3>3 DEF BankTyped
  <2> QED BY <2>1, <2>2
<1>3. Served' = Served /\ Deque' = Deque
  BY <1>1 DEF Served, Deque
<1>4. Charged'
  BY <1>1, <1>3 DEF Charged
<1>5. Within'
  BY <1>1, <1>3 DEF Within
<1> QED BY <1>2, <1>4, <1>5

(***************************************************************************)
(* Every step keeps the count.                                             *)
(***************************************************************************)
LEMMA NextBank == BankIInv /\ [Next]_vars => BankIInv'
<1> SUFFICES ASSUME BankIInv, [Next]_vars, budgeted'
             PROVE  BankTyped' /\ Charged' /\ Within'
  BY DEF BankIInv
<1>1. budgeted' = budgeted
  BY DEF Next, vars, Construct, Deposit, Grant, Ask, Finish, RetailerCheck
<1>2. BankTyped /\ Charged /\ Within /\ budgeted
  BY <1>1 DEF BankIInv
<1>3. CASE UNCHANGED vars
  <2>1. UNCHANGED <<audit, uses, policies, group_of, now, asked, pc>>
    BY <1>3 DEF vars, bank
  <2>2. Served' = Served /\ Deque' = Deque
    BY <2>1 DEF Served, Deque
  <2> QED BY <1>2, <2>1, <2>2 DEF BankTyped, Charged, Within
<1>4. CASE Construct \/ Deposit \/ Grant \/ Finish
  BY <1>2, <1>4, PreparingKeepsBank
<1>5. ASSUME NEW r \in Asking, Ask(r) PROVE BankTyped' /\ Charged' /\ Within'
  <2>1. pc = "bisecting" /\ pc' = pc /\ (Answered(r) \/ Denied(r))
    BY <1>5 DEF Ask
  <2> QED BY <1>2, <1>5, <2>1, AnswerKeepsBank, DenialKeepsBank
<1>6. CASE RetailerCheck
  BY <1>2, <1>6, RetailerKeepsBank
<1> QED BY <1>3, <1>4, <1>5, <1>6 DEF Next, Asking

(***************************************************************************)
(* The invariant the promises of the script rest on.                       *)
(***************************************************************************)
THEOREM BisectionInvariant == Spec => []BankIInv
BY InitBank, NextBank, PTL DEF Spec

(***************************************************************************)
(* "The quota that stops it": however many brokers pool their answers, for *)
(* every list of brokers and every date of birth, their shares and the     *)
(* daily quota keep the interval as wide as that many halvings leave it    *)
(* (examples/leakage_budget.py, leakage.py: check).                        *)
(***************************************************************************)
THEOREM BudgetStopsBisection ==
  ASSUME PowersOfTwo
  PROVE  Spec => []BudgetKeepsWidth
<1>1. Narrows /\ BankIInv => BudgetKeepsWidth
  <2> SUFFICES ASSUME Narrows, BankIInv, budgeted PROVE BudgetKeepsWidth
    BY DEF BudgetKeepsWidth
  <2> DEFINE c == Cardinality(Served \ {RETAILER})
             limits == {5, 3 * c}
             most == Min(limits)
             days == Last18
             P == 2^most
  <2>1. c \in Nat /\ asked \in 0..5 /\ asked <= 3 * c
    BY ServedFinite DEF BankIInv, Within
  <2> HIDE DEF c
  <2>2. most \in Nat /\ asked <= most
    <3>1. 3 * c \in Nat
      BY <2>1
    <3>2. \E x \in limits : \A y \in limits : x =< y
      BY <3>1
    <3>3. most \in limits
      BY <3>2 DEF Min
    <3> QED BY <2>1, <3>1, <3>3
  <2> HIDE DEF most, limits
  <2>3. /\ lo \in Nat /\ hi \in Nat /\ lo <= hi
        /\ days + 1 < (hi - lo + 2) * 2^asked
    BY DEF Narrows
  <2>4. 2^asked \in Nat /\ P \in Nat /\ P > 0 /\ 2^asked <= P
    BY <2>1, <2>2, PowersGrow, PowersOrdered
  <2>5. days + 1 \in Nat
    BY DEF Last18
  <2> HIDE DEF P, days
  <2>6. (days + 1) \div P \in Nat /\ (days + 1) \div P < hi - lo + 2
    <3> DEFINE w == hi - lo + 2
               Q == 2^asked
    <3>1. w \in Nat
      BY <2>3
    <3>2. days + 1 < w * Q /\ Q \in Nat /\ Q <= P
      BY <2>3, <2>4
    <3> HIDE DEF w, Q
    <3>3. w * Q <= w * P /\ w * Q \in Nat /\ w * P \in Nat
      BY <2>4, <3>1, <3>2
    <3>4. days + 1 < w * P
      BY <2>5, <3>2, <3>3
    <3>5. (days + 1) \div P < w
      BY <2>4, <2>5, <3>1, <3>4, BelowMultiple
    <3> QED BY <2>4, <2>5, <3>5 DEF w
  <2>7. hi - lo + 1 >= (days + 1) \div P
    BY <2>3, <2>6
  <2>8. /\ adult_birth_date_policy.daily_quota = 5
        /\ adult_birth_date_policy.requestor_share = 3
    BY DEF adult_birth_date_policy
  <2> QED BY <2>7, <2>8 DEF BudgetKeepsWidth, P, days, most, limits, c
<1> QED BY <1>1, InitNarrows, NextNarrows, BisectionInvariant, PTL DEF Spec

-----------------------------------------------------------------------------
(* The retailer.                                                           *)

(***************************************************************************)
(* Seven halvings bring 70 years down to one: six answers fit into the     *)
(* retention window.                                                       *)
(***************************************************************************)
LEMMA SixInTheWindow ==
  ASSUME PowersOfTwo
  PROVE  Bank!Budget!per_window(adult_birth_date_policy) = 6
<1>1. 2^1 = 2 /\ 2^2 = 4 /\ 2^3 = 8 /\ 2^4 = 16 /\ 2^5 = 32 /\ 2^6 = 64 /\ 2^7 = 128
  <2>1. 2^0 = 1 /\ \A n \in Nat : 2^(n + 1) = 2 * 2^n
    BY DEF PowersOfTwo
  <2>2. 2^(0 + 1) = 2 * 2^0 /\ 2^(1 + 1) = 2 * 2^1 /\ 2^(2 + 1) = 2 * 2^2 /\ 2^(3 + 1) = 2 * 2^3
        /\ 2^(4 + 1) = 2 * 2^4 /\ 2^(5 + 1) = 2 * 2^5 /\ 2^(6 + 1) = 2 * 2^6
    BY <2>1
  <2>3. 0 + 1 = 1 /\ 1 + 1 = 2 /\ 2 + 1 = 3 /\ 3 + 1 = 4 /\ 4 + 1 = 5 /\ 5 + 1 = 6 /\ 6 + 1 = 7
    OBVIOUS
  <2> QED BY <2>1, <2>2, <2>3
<1> DEFINE range == 102270
           step == 1461
           n == Bank!Budget!answers_to_resolve(range, step)
<1>2. ASSUME NEW j \in Nat, j <= 6 PROVE 2^j \in Nat /\ 2^j <= 64
  <2>1. j \in Nat /\ 6 \in Nat /\ j <= 6
    BY <1>2
  <2>2. 2^j <= 2^6
    BY <2>1, PowersOrdered
  <2> QED BY <1>1, <2>1, <2>2 DEF PowersOfTwo
<1>3. \E k \in 1..range :
        /\ range <= step * 2^k
        /\ \A j \in 1..k - 1 : step * 2^j < range
  <2>1. 7 \in 1..range /\ range <= step * 2^7
    BY <1>1
  <2>2. ASSUME NEW j \in 1..7 - 1 PROVE step * 2^j < range
    <3>1. 2^j \in Nat /\ 2^j <= 64
      BY <1>2
    <3> QED BY <3>1
  <2> HIDE DEF range, step
  <2> QED BY <2>1, <2>2
<1>4. /\ n \in 1..range
      /\ range <= step * 2^n
      /\ \A j \in 1..n - 1 : step * 2^j < range
  <2> HIDE DEF range, step
  <2> QED BY <1>3 DEF Bank!Budget!answers_to_resolve
<1> HIDE DEF n
<1>5. n \in Nat /\ ~ (n <= 6)
  <2>1. n \in Nat
    <3> HIDE DEF range, step
    <3> QED BY <1>4
  <2>2. ASSUME n <= 6 PROVE FALSE
    <3>1. 2^n \in Nat /\ 2^n <= 64
      BY <1>2, <2>1, <2>2
    <3>2. 102270 <= 1461 * 2^n
      <4>1. range <= step * 2^n
        <5> HIDE DEF range, step
        <5> QED BY <1>4
      <4> QED BY <4>1
    <3> DEFINE P == 2^n
    <3>3. P \in Nat /\ P <= 64 /\ 102270 <= 1461 * P
      BY <3>1, <3>2
    <3> HIDE DEF P
    <3> QED BY <3>3
  <2> QED BY <2>1, <2>2
<1>6. ~ (8 <= n)
  <2> SUFFICES ASSUME 8 <= n PROVE FALSE
    OBVIOUS
  <2>1. 7 \in 1..n - 1
    BY <1>5
  <2>2. step * 2^7 < range
    <3> HIDE DEF range, step
    <3> QED BY <1>4, <2>1
  <2>3. 1461 * 128 < 102270
    BY <1>1, <2>2
  <2> QED BY <2>3
<1>7. n = 7
  BY <1>5, <1>6
<1>8. /\ adult_birth_date_policy.prior_range = 70 * 1461
      /\ adult_birth_date_policy.resolution = step
  BY DEF adult_birth_date_policy
<1>9. 70 * 1461 = range
  OBVIOUS
<1> HIDE DEF range, step
<1> QED BY <1>7, <1>8, <1>9 DEF n, Bank!Budget!per_window

\* The owner's permissions are for her customers, none has a quota, and the
\* retailer's is among them once the bisection begins.
Given == {Permission(r) : r \in Requestors}

Prepared ==
  budgeted =>
    /\ grants \in [{ALICE} -> Seq(Given)]
    /\ pc \in {"new", "constructed"} => grants[ALICE] = <<>>
    /\ pc = "granting" => Len(grants[ALICE]) < Len(Customers)
    /\ pc \in {"bisecting", "bisected"} =>
         \E n \in DOMAIN grants[ALICE] : grants[ALICE][n] = Permission(RETAILER)
    /\ pc \in {"granting", "bisecting", "bisected"} => <<ALICE, date_of_birth>> \in records

(***************************************************************************)
(* The shop is the last customer.                                          *)
(***************************************************************************)
LEMMA RetailerIsLast ==
  ASSUME budgeted
  PROVE  /\ Customers \in Seq(Requestors) /\ Len(Customers) >= 1
         /\ Customers[Len(Customers)] = RETAILER
<1>1. PROBES \in Seq(Requestors) /\ RETAILER \in Requestors
  BY ScriptAssumption DEF Requestors
<1>2. Customers = Append(PROBES, RETAILER)
  BY DEF Customers
<1> QED BY <1>1, <1>2

(***************************************************************************)
(* A question, whatever its outcome, touches no permission and no record.  *)
(***************************************************************************)
LEMMA AskKeepsPrepared ==
  ASSUME BankTyped, Within, budgeted, pc = "bisecting", NEW r \in Asking,
         Answered(r) \/ Denied(r)
  PROVE  UNCHANGED <<grants, records>>
<1>1. asked \in 0..DAY - 1
  BY DEF Within, DAY
<1>2. r \in Requestors
  BY AskingAreRequestors DEF Asking
<1> QED BY <1>1, <1>2, AnsweredEffect, DeniedEffect DEF Answered, Denied

(***************************************************************************)
(* The permissions are granted one by one, the retailer's last.            *)
(***************************************************************************)
LEMMA GrantPrepares ==
  ASSUME Prepared, budgeted, budgeted', Grant
  PROVE  Prepared'
<1> DEFINE list == grants[ALICE]
           n == Len(list) + 1
           g == Permission(Customers[n])
<1>1. /\ pc = "granting" /\ UNCHANGED records
      /\ grants' = [grants EXCEPT ![ALICE] = Append(@, g)]
      /\ pc' = IF n = Len(Customers) THEN "bisecting" ELSE "granting"
  BY DEF Grant, Bank!Grant, Bank!Ledger!Grant, Bank!own
<1>2. /\ grants \in [{ALICE} -> Seq(Given)] /\ Len(list) < Len(Customers)
      /\ <<ALICE, date_of_birth>> \in records
  BY <1>1 DEF Prepared
<1>3. list \in Seq(Given) /\ Len(list) \in Nat /\ DOMAIN list = 1..Len(list)
  BY <1>2
<1>4. /\ Customers \in Seq(Requestors) /\ Len(Customers) \in Nat
      /\ Customers[Len(Customers)] = RETAILER
  BY RetailerIsLast
<1>5. g \in Given
  <2>1. n \in 1..Len(Customers)
    BY <1>2, <1>3, <1>4
  <2>2. Customers[n] \in Requestors
    BY <1>4, <2>1
  <2> QED BY <2>2 DEF Given
<1>6. Customers' = Customers
  BY DEF Customers, Grant
<1> HIDE DEF g
<1>7. grants' \in [{ALICE} -> Seq(Given)] /\ grants'[ALICE] = Append(list, g)
  BY <1>1, <1>2, <1>5
<1> HIDE DEF list
<1>8. Len(Append(list, g)) = n /\ n \in DOMAIN Append(list, g) /\ Append(list, g)[n] = g
  BY <1>3, <1>5
<1>9. CASE n = Len(Customers)
  <2>1. g = Permission(RETAILER)
    BY <1>4, <1>9 DEF g
  <2>2. pc' = "bisecting"
    BY <1>1, <1>9
  <2> QED BY <1>1, <1>2, <1>7, <1>8, <2>1, <2>2 DEF Prepared, Permission
<1>10. CASE n # Len(Customers)
  <2>1. n < Len(Customers)
    BY <1>2, <1>3, <1>4, <1>10
  <2>2. pc' = "granting"
    BY <1>1, <1>10
  <2> QED BY <1>1, <1>2, <1>6, <1>7, <1>8, <2>1, <2>2 DEF Prepared
<1> QED BY <1>9, <1>10

(***************************************************************************)
(* Every step keeps the permissions and the record.                        *)
(***************************************************************************)
LEMMA NextPrepared == Prepared /\ BankIInv /\ [Next]_vars => Prepared'
<1> SUFFICES ASSUME Prepared, BankIInv, [Next]_vars, budgeted'
             PROVE  Prepared'
  BY DEF Prepared
<1>1. budgeted' = budgeted /\ Customers' = Customers
  BY DEF Next, vars, Construct, Deposit, Grant, Ask, Finish, RetailerCheck, Customers
<1>2. BankTyped /\ Within /\ budgeted
  BY <1>1 DEF BankIInv
<1>3. ASSUME UNCHANGED <<grants, records, pc>> PROVE Prepared'
  BY <1>1, <1>2, <1>3 DEF Prepared
<1>4. CASE UNCHANGED vars
  <2>1. UNCHANGED <<grants, records, pc>>
    BY <1>4 DEF vars, bank
  <2> QED BY <1>3, <2>1
<1>5. CASE Construct
  <2>1. pc = "new" /\ pc' = "constructed" /\ UNCHANGED <<grants, records>>
    BY <1>5 DEF Construct, Bank!Configure, Bank!own, Bank!ledger, bank
  <2> QED BY <1>2, <2>1 DEF Prepared
<1>6. CASE Deposit
  <2>1. /\ pc = "constructed" /\ pc' = "granting" /\ UNCHANGED grants
        /\ <<ALICE, date_of_birth>> \in records'
    BY <1>6 DEF Deposit, Bank!Deposit, Bank!ledger
  <2>2. grants \in [{ALICE} -> Seq(Given)] /\ grants[ALICE] = <<>>
    BY <1>2, <2>1 DEF Prepared
  <2>3. Len(Customers) \in Nat /\ Len(Customers) >= 1
    BY <1>2, RetailerIsLast
  <2>4. Len(grants[ALICE]) < Len(Customers)
    BY <2>2, <2>3
  <2> QED BY <1>1, <2>1, <2>2, <2>4 DEF Prepared
<1>7. CASE Grant
  BY <1>1, <1>2, <1>7, GrantPrepares
<1>8. ASSUME NEW r \in Asking, Ask(r) PROVE Prepared'
  <2>1. pc = "bisecting" /\ pc' = pc /\ (Answered(r) \/ Denied(r))
    BY <1>8 DEF Ask
  <2> QED BY <1>2, <1>3, <1>8, <2>1, AskKeepsPrepared
<1>9. CASE Finish
  <2>1. pc = "bisecting" /\ pc' = "bisected" /\ UNCHANGED <<grants, records>>
    BY <1>2, <1>9 DEF Finish, bank
  <2> QED BY <1>2, <2>1 DEF Prepared
<1>10. CASE RetailerCheck
  <2>1. pc = "bisected" /\ pc' = "done"
    BY <1>10 DEF RetailerCheck
  <2>2. UNCHANGED grants
    <3>1. RETAILER \in Requestors /\ MaxMinute \in 0..DAY - 1
      BY ScriptAssumption DEF Requestors
    <3> QED BY <1>2, <1>10, <2>1, <3>1, AnsweredEffect, DeniedEffect DEF RetailerCheck
  <2> QED BY <1>2, <2>1, <2>2 DEF Prepared
<1> QED BY <1>4, <1>5, <1>6, <1>7, <1>8, <1>9, <1>10 DEF Next, Asking

(***************************************************************************)
(* At first there are no permissions.                                      *)
(***************************************************************************)
LEMMA InitPrepared == Init => Prepared
<1> SUFFICES ASSUME Init PROVE Prepared
  OBVIOUS
<1>1. grants = [o \in {ALICE} |-> <<>>] /\ pc = "new"
  BY DEF Init, Bank!Init, Bank!Ledger!Init
<1>2. grants \in [{ALICE} -> Seq(Given)] /\ grants[ALICE] = <<>>
  <2>1. <<>> \in Seq(Given)
    OBVIOUS
  <2> QED BY <1>1, <2>1
<1> QED BY <1>1, <1>2 DEF Prepared

(***************************************************************************)
(* The owner's permission lets the retailer ask.                           *)
(***************************************************************************)
LEMMA RetailerPermitted ==
  ASSUME Prepared, budgeted, pc = "bisected", NEW y, NEW t
  PROVE  Bank!Permitted(eighteen_on(RETAILER, y, t)) /\ Bank!Holds(eighteen_on(RETAILER, y, t))
<1> DEFINE q == eighteen_on(RETAILER, y, t)
           k == [requestor_id |-> RETAILER, algorithm_id |-> age_over,
                 attribute |-> date_of_birth]
           M == Bank!Ledger!Matches(ALICE, k)
           first == CHOOSE i \in M : \A j \in M : i <= j
<1>1. /\ q.owner_id = ALICE /\ q.attribute = date_of_birth /\ q.algorithm_id = age_over
      /\ Bank!RequestOf(q) = k
  BY DEF eighteen_on, Bank!RequestOf
<1>2. /\ grants \in [{ALICE} -> Seq(Given)]
      /\ \E n \in DOMAIN grants[ALICE] : grants[ALICE][n] = Permission(RETAILER)
      /\ <<ALICE, date_of_birth>> \in records
  BY DEF Prepared
<1>3. grants[ALICE] \in Seq(Given) /\ DOMAIN grants[ALICE] = 1..Len(grants[ALICE])
  BY <1>2
<1>4. M # {} /\ M \subseteq DOMAIN grants[ALICE]
  <2>1. PICK n \in DOMAIN grants[ALICE] : grants[ALICE][n] = Permission(RETAILER)
    BY <1>2
  <2>2. Bank!Ledger!Covers(Permission(RETAILER), k)
    BY DEF Bank!Ledger!Covers, Permission
  <2>3. n \in M
    BY <2>1, <2>2 DEF Bank!Ledger!Matches
  <2>4. M \subseteq DOMAIN grants[ALICE]
    BY DEF Bank!Ledger!Matches
  <2> QED BY <2>3, <2>4
<1> HIDE DEF q, k, M
<1>5. first \in M
  <2>1. M \in SUBSET Nat
    BY <1>3, <1>4
  <2>2. \E i \in M : \A j \in M : i <= j
    BY <1>4, <2>1, LeastNatural
  <2> QED BY <2>2
<1> HIDE DEF first
<1>6. grants[ALICE][first] \in Given
  BY <1>3, <1>4, <1>5
<1>7. grants[ALICE][first].quota_per_year = NoQuota
  BY <1>6 DEF Given, Permission
<1>8. Bank!Ledger!Matching(ALICE, k) = grants[ALICE][first]
  BY DEF Bank!Ledger!Matching, first, M
<1>9. Bank!Ledger!Decision(ALICE, k, Bank!Year(q)) = "allow"
  BY <1>4, <1>7, <1>8 DEF Bank!Ledger!Decision, Bank!Ledger!Admits, M
<1>10. Bank!Permitted(q)
  BY <1>1, <1>9 DEF Bank!Permitted, Bank!Applicable, Bank!Registered, Bank!Permission
<1>11. Bank!Holds(q)
  BY <1>1, <1>2 DEF Bank!Holds
<1> QED BY <1>10, <1>11 DEF q

(***************************************************************************)
(* What one broker was answered leaves room for the retailer.              *)
(***************************************************************************)
LEMMA RetailerHasRoom ==
  ASSUME PowersOfTwo, BankTyped, Charged, Within, pc = "bisected",
         Cardinality(Served \ {RETAILER}) <= 1
  PROVE  Bank!WithinBudget(eighteen_on(RETAILER, CheckYear, MaxMinute))
<1> DEFINE s == uses[Deque]
           p == adult_birth_date_policy
<1>1. MaxMinute \in 0..DAY - 1
  BY ScriptAssumption
<1>2. asked \in 0..3
  <2>1. Cardinality(Served \ {RETAILER}) \in Nat
    BY ServedFinite
  <2> QED BY <2>1 DEF Within
<1>3. s \in Seq(Bank!Budget!Use) /\ Len(s) = asked /\ DOMAIN s = 1..asked
  BY PolicyInForce DEF Charged
<1>4. ASSUME NEW S \in SUBSET (DOMAIN s) PROVE Cardinality(S) \in 0..3
  <2>1. asked \in Nat
    BY <1>2
  <2>2. IsFiniteSet(1..asked) /\ Cardinality(1..asked) = asked
    BY <2>1, FS_Interval
  <2>3. S \subseteq 1..asked
    BY <1>3
  <2>4. Cardinality(S) <= asked /\ Cardinality(S) \in Nat
    BY <2>2, <2>3, FS_Subset, FS_CardinalityType
  <2> QED BY <1>2, <2>4
<1>5. /\ Bank!Budget!InWindow(p, s, MaxMinute) \in SUBSET (DOMAIN s)
      /\ Bank!Budget!Counted(s, MaxMinute, Requestors) \in SUBSET (DOMAIN s)
  BY DEF Bank!Budget!InWindow, Bank!Budget!Counted
<1>6. Bank!Budget!Counted(s, MaxMinute, {RETAILER}) = {}
  <2>1. \A i \in DOMAIN s : s[i].requestor_id # RETAILER
    BY DEF Charged
  <2> QED BY <2>1 DEF Bank!Budget!Counted
<1>7. Cardinality(Bank!Budget!Counted(s, MaxMinute, {RETAILER})) = 0
  BY <1>6, FS_EmptySet
<1>8. /\ Cardinality(Bank!Budget!InWindow(p, s, MaxMinute)) \in 0..3
      /\ Cardinality(Bank!Budget!Counted(s, MaxMinute, Requestors)) \in 0..3
  BY <1>4, <1>5
<1> HIDE DEF s, p
<1>9. Bank!Budget!per_window(p) = 6
  BY SixInTheWindow DEF p
<1>10. /\ ~ (Cardinality(Bank!Budget!InWindow(p, s, MaxMinute)) >= Bank!Budget!per_window(p))
       /\ ~ (Cardinality(Bank!Budget!Counted(s, MaxMinute, Requestors)) >= 5)
       /\ ~ (Cardinality(Bank!Budget!Counted(s, MaxMinute, {RETAILER})) >= 3)
  BY <1>7, <1>8, <1>9
<1> QED BY <1>1, <1>10, BudgetVerdict DEF s, p

(***************************************************************************)
(* "The probe's share is spent; a legitimate check still goes through":    *)
(* whoever the one broker is that was served, and however far it got, the  *)
(* retailer is answered (examples/leakage_budget.py, leakage.py: check).   *)
(***************************************************************************)
THEOREM RetailerIsServed ==
  ASSUME PowersOfTwo
  PROVE  Spec => []RetailerServed
<1>1. Init => RetailerServed
  BY DEF Init, RetailerServed
<1>2. Prepared /\ BankIInv /\ RetailerServed /\ [Next]_vars => RetailerServed'
  <2> SUFFICES ASSUME Prepared, BankIInv, RetailerServed, [Next]_vars,
                      pc' = "done", budgeted', Cardinality(Served' \ {RETAILER}) <= 1
               PROVE  RETAILER \in Served'
    BY DEF RetailerServed
  <2>1. budgeted' = budgeted
    BY DEF Next, vars, Construct, Deposit, Grant, Ask, Finish, RetailerCheck
  <2>2. BankTyped /\ Charged /\ Within /\ budgeted
    BY <2>1 DEF BankIInv
  <2>3. CASE UNCHANGED vars
    <3>1. pc = "done" /\ Served' = Served
      BY <2>3 DEF vars, bank, Served
    <3> QED BY <2>2, <3>1 DEF RetailerServed
  <2>4. CASE RetailerCheck
    <3> DEFINE q == eighteen_on(RETAILER, CheckYear, MaxMinute)
    <3>1. pc = "bisected" /\ RETAILER \in Requestors /\ MaxMinute \in 0..DAY - 1
      BY <2>4, ScriptAssumption DEF RetailerCheck, Requestors
    <3>2. ASSUME ~Bank!Executed(q) PROVE FALSE
      <4>1. Bank!Submit(q)
        BY <2>4, <3>2 DEF RetailerCheck
      <4>2. Entered(RETAILER, FALSE)
        BY <2>2, <3>1, <3>2, <4>1, DeniedEffect
      <4>3. Served' = Served
        BY <2>2, <4>2, ServedAfter
      <4>4. Bank!WithinBudget(q)
        BY <2>2, <3>1, <4>3, RetailerHasRoom
      <4>5. Bank!Permitted(q) /\ Bank!Holds(q)
        BY <2>2, <3>1, RetailerPermitted
      <4> QED BY <3>2, <4>4, <4>5 DEF Bank!Executed
    <3>3. Bank!Answered(q)
      BY <2>4, <3>2 DEF RetailerCheck
    <3>4. Entered(RETAILER, TRUE)
      BY <2>2, <3>1, <3>3, AnsweredEffect
    <3> QED BY <2>2, <3>4, ServedAfter
  <2>5. CASE Construct \/ Deposit \/ Grant \/ Finish \/ \E r \in Asking : Ask(r)
    BY <2>2, <2>5 DEF Construct, Deposit, Grant, Finish, Ask
  <2> QED BY <2>3, <2>4, <2>5 DEF Next, Asking
<1> QED BY <1>1, <1>2, InitPrepared, NextPrepared, BisectionInvariant, PTL DEF Spec

-----------------------------------------------------------------------------
(* The birthday.                                                           *)

\* One day more in the months after a February of 29 days.
LeapDay(year) == IF IsLeap(year) THEN 1 ELSE 0

(***************************************************************************)
(* The days before each month.                                             *)
(***************************************************************************)
LEMMA MonthsBegin ==
  ASSUME NEW year \in Nat
  PROVE  LET L == LeapDay(year)
         IN  /\ DaysBefore(year, 1) = 0        /\ DaysBefore(year, 2) = 31
             /\ DaysBefore(year, 3) = 59 + L   /\ DaysBefore(year, 4) = 90 + L
             /\ DaysBefore(year, 5) = 120 + L  /\ DaysBefore(year, 6) = 151 + L
             /\ DaysBefore(year, 7) = 181 + L  /\ DaysBefore(year, 8) = 212 + L
             /\ DaysBefore(year, 9) = 243 + L  /\ DaysBefore(year, 10) = 273 + L
             /\ DaysBefore(year, 11) = 304 + L /\ DaysBefore(year, 12) = 334 + L
             /\ L \in 0..1
<1> DEFINE L == LeapDay(year)
           days == <<0, 31, 59, 90, 120, 151, 181, 212, 243, 273, 304, 334>>
<1>1. \A m \in 1..12 : DaysBefore(year, m) = days[m] + IF m > 2 THEN L ELSE 0
  BY DEF DaysBefore, LeapDay
<1>2. /\ days[1] = 0 /\ days[2] = 31 /\ days[3] = 59 /\ days[4] = 90
      /\ days[5] = 120 /\ days[6] = 151 /\ days[7] = 181 /\ days[8] = 212
      /\ days[9] = 243 /\ days[10] = 273 /\ days[11] = 304 /\ days[12] = 334
  OBVIOUS
<1>3. L \in 0..1
  BY DEF LeapDay
<1> HIDE DEF L, days
<1>4. /\ DaysBefore(year, 1) = 0        /\ DaysBefore(year, 2) = 31
      /\ DaysBefore(year, 3) = 59 + L   /\ DaysBefore(year, 4) = 90 + L
      /\ DaysBefore(year, 5) = 120 + L  /\ DaysBefore(year, 6) = 151 + L
      /\ DaysBefore(year, 7) = 181 + L  /\ DaysBefore(year, 8) = 212 + L
      /\ DaysBefore(year, 9) = 243 + L  /\ DaysBefore(year, 10) = 273 + L
      /\ DaysBefore(year, 11) = 304 + L /\ DaysBefore(year, 12) = 334 + L
  BY <1>1, <1>2, <1>3
<1> QED BY <1>3, <1>4 DEF L

(***************************************************************************)
(* A month begins when the one before it has ended.                        *)
(***************************************************************************)
LEMMA MonthsFollow ==
  ASSUME NEW year \in Nat
  PROVE  /\ \A m \in 1..12 : DaysBefore(year, m) \in Nat
         /\ \A m \in 1..11 : DaysBefore(year, m + 1) = DaysBefore(year, m) + DaysIn(year, m)
         /\ \A m, k \in 1..12 : m < k => DaysBefore(year, m + 1) <= DaysBefore(year, k)
<1> DEFINE L == LeapDay(year)
           d(m) == DaysBefore(year, m)
<1>1. /\ d(1) = 0 /\ d(2) = 31 /\ d(3) = 59 + L /\ d(4) = 90 + L
      /\ d(5) = 120 + L /\ d(6) = 151 + L /\ d(7) = 181 + L /\ d(8) = 212 + L
      /\ d(9) = 243 + L /\ d(10) = 273 + L /\ d(11) = 304 + L /\ d(12) = 334 + L
      /\ L \in 0..1
  BY MonthsBegin
<1>2. ASSUME NEW m \in 1..11 PROVE d(m + 1) = d(m) + DaysIn(year, m)
  <2> DEFINE n == DaysIn(year, m)
  <2>1. /\ m = 2 => n = 28 + L
        /\ m \in {4, 6, 9, 11} => n = 30
        /\ m \in {1, 3, 5, 7, 8, 10} => n = 31
    BY DEF DaysIn, LeapDay
  <2> HIDE DEF d, L, n
  <2>2. (m = 1 /\ m + 1 = 2) \/ (m = 2 /\ m + 1 = 3) \/ (m = 3 /\ m + 1 = 4)
        \/ (m = 4 /\ m + 1 = 5) \/ (m = 5 /\ m + 1 = 6) \/ (m = 6 /\ m + 1 = 7)
        \/ (m = 7 /\ m + 1 = 8) \/ (m = 8 /\ m + 1 = 9) \/ (m = 9 /\ m + 1 = 10)
        \/ (m = 10 /\ m + 1 = 11) \/ (m = 11 /\ m + 1 = 12)
    OBVIOUS
  <2>3. d(m + 1) = d(m) + n
    BY <1>1, <2>1, <2>2
  <2> QED BY <2>3 DEF d, n
<1>3. \A m \in 1..12 : d(m) \in Nat
  <2> SUFFICES ASSUME NEW m \in 1..12 PROVE d(m) \in Nat
    OBVIOUS
  <2> HIDE DEF d, L
  <2>1. m = 1 \/ m = 2 \/ m = 3 \/ m = 4 \/ m = 5 \/ m = 6 \/ m = 7 \/ m = 8
        \/ m = 9 \/ m = 10 \/ m = 11 \/ m = 12
    OBVIOUS
  <2> QED BY <1>1, <2>1
<1>4. \A m, k \in 1..12 : m < k => d(m + 1) <= d(k)
  <2> SUFFICES ASSUME NEW m \in 1..12, NEW k \in 1..12, m < k PROVE d(m + 1) <= d(k)
    OBVIOUS
  <2> DEFINE e == m + 1
  <2>1. e \in 2..12 /\ e <= k
    OBVIOUS
  <2> HIDE DEF d, L, e
  <2>2. e = 2 \/ e = 3 \/ e = 4 \/ e = 5 \/ e = 6 \/ e = 7 \/ e = 8
        \/ e = 9 \/ e = 10 \/ e = 11 \/ e = 12
    BY <2>1
  <2>3. k = 2 \/ k = 3 \/ k = 4 \/ k = 5 \/ k = 6 \/ k = 7 \/ k = 8
        \/ k = 9 \/ k = 10 \/ k = 11 \/ k = 12
    BY <2>1
  <2>4. d(e) <= d(k)
    BY <1>1, <2>1, <2>2, <2>3
  <2> QED BY <2>4 DEF e
<1> QED BY <1>2, <1>3, <1>4

(***************************************************************************)
(* Every day of a year falls into a month.                                 *)
(***************************************************************************)
LEMMA MonthOfDay ==
  ASSUME NEW year \in Nat, NEW n \in Nat
  PROVE  LET d == DayOfYear(year, n)
         IN  /\ d.year = year /\ d.month \in 1..12
             /\ DaysBefore(year, d.month) <= n
             /\ d.month = 12 \/ n < DaysBefore(year, d.month + 1)
             /\ d.day = n - DaysBefore(year, d.month) + 1
<1> DEFINE Falls(m) == /\ DaysBefore(year, m) <= n
                       /\ m = 12 \/ n < DaysBefore(year, m + 1)
           month == CHOOSE m \in 1..12 : Falls(m)
           Later == {m \in Nat : m \in 1..12 /\ ~ (n < DaysBefore(year, m))}
<1>1. DaysBefore(year, 1) = 0 /\ \A m \in 1..12 : DaysBefore(year, m) \in Nat
  BY MonthsBegin, MonthsFollow
<1>2. \E m \in 1..12 : Falls(m)
  <2>1. CASE \A m \in 1..12 : DaysBefore(year, m) <= n
    <3>1. 12 \in 1..12
      OBVIOUS
    <3> QED BY <2>1, <3>1
  <2>2. CASE \E m \in 1..12 : ~ (DaysBefore(year, m) <= n)
    <3> DEFINE S == {m \in 1..12 : ~ (DaysBefore(year, m) <= n)}
    <3>1. S \in SUBSET Nat /\ S # {}
      BY <2>2
    <3>2. PICK m \in S : \A k \in S : m <= k
      <4> HIDE DEF S
      <4> QED BY <3>1, LeastNatural
    <3>3. m \in 1..12 /\ m # 1
      BY <1>1, <3>2
    <3> DEFINE p == m - 1
    <3>4. p \in 1..11 /\ p + 1 = m /\ p \in 1..12
      BY <3>3
    <3>5. p \notin S
      BY <3>2, <3>4
    <3>6. DaysBefore(year, p) <= n
      BY <3>4, <3>5
    <3>7. n < DaysBefore(year, p + 1)
      BY <1>1, <3>2, <3>3, <3>4
    <3> HIDE DEF p
    <3> QED BY <3>4, <3>6, <3>7
  <2> QED BY <2>1, <2>2
<1> HIDE DEF Falls
<1>3. month \in 1..12 /\ Falls(month)
  BY <1>2
<1>4. DayOfYear(year, n)
        = [year |-> year, month |-> month, day |-> n - DaysBefore(year, month) + 1]
  BY DEF DayOfYear, Falls
<1> HIDE DEF month
<1> QED BY <1>3, <1>4 DEF Falls

(***************************************************************************)
(* The Databank says "yes" from her birthday on.                           *)
(***************************************************************************)
LEMMA YesFromBirthday ==
  ASSUME IsDate(born), NEW n \in Nat
  PROVE  age_over_threshold(born, THRESHOLD, DayOfYear(Year18, n)) <=> Birthday <= n
<1> DEFINE d == DayOfYear(Year18, n)
           B(m) == DaysBefore(Year18, m)
<1>1. /\ born.year \in Nat /\ born.month \in 1..12
      /\ born.day \in 1..DaysIn(born.year, born.month) /\ born.day \in Nat
  <2>1. \A y, m : DaysIn(y, m) \in 28..31
    BY DEF DaysIn
  <2> QED BY <2>1 DEF IsDate
<1>2. Year18 \in Nat /\ Year18 - born.year = 18
  BY <1>1 DEF Year18, THRESHOLD
<1>3. /\ d.year = Year18 /\ d.month \in 1..12
      /\ B(d.month) <= n
      /\ d.month = 12 \/ n < B(d.month + 1)
      /\ d.day = n - B(d.month) + 1
  BY <1>2, MonthOfDay
<1>4. /\ \A m \in 1..12 : B(m) \in Nat
      /\ \A m \in 1..11 : B(m + 1) = B(m) + DaysIn(Year18, m)
      /\ \A m, k \in 1..12 : m < k => B(m + 1) <= B(k)
  BY <1>2, MonthsFollow
<1> HIDE DEF d
<1>5. age_over_threshold(born, THRESHOLD, DayOfYear(Year18, n)) <=> ~EarlierInYear(d, born)
  <2>1. d.year - born.year = 18
    BY <1>2, <1>3
  <2>2. CASE EarlierInYear(d, born)
    BY <2>1, <2>2 DEF age_over_threshold, years_between, THRESHOLD, d
  <2>3. CASE ~EarlierInYear(d, born)
    BY <2>1, <2>3 DEF age_over_threshold, years_between, THRESHOLD, d
  <2> QED BY <2>2, <2>3
<1>6. CASE born.month = 2 /\ born.day = 29 /\ ~IsLeap(Year18)
  <2>1. Birthday = B(3) /\ B(2 + 1) = B(2) + 28 /\ 2 + 1 = 3
    <3>1. DaysIn(Year18, 2) = 28
      BY <1>6 DEF DaysIn
    <3>2. 2 \in 1..11
      OBVIOUS
    <3> QED BY <1>4, <1>6, <3>1, <3>2 DEF Birthday
  <2>2. 2 \in 1..12 /\ 3 \in 1..12 /\ B(2) \in Nat /\ B(3) \in Nat /\ B(d.month) \in Nat
    BY <1>3, <1>4
  <2>3. CASE d.month > 2
    <3>1. 2 < d.month
      BY <1>3, <2>3
    <3>2. B(2 + 1) <= B(d.month)
      BY <1>3, <1>4, <2>2, <3>1
    <3>3. Birthday <= n
      <4> DEFINE x == B(2 + 1)
                 y == B(d.month)
      <4>1. x \in Nat /\ y \in Nat /\ x <= y /\ y <= n /\ Birthday = x
        BY <1>3, <2>1, <2>2, <3>2
      <4> HIDE DEF x, y
      <4> QED BY <4>1
    <3>4. ~EarlierInYear(d, born)
      BY <1>3, <1>6, <2>3 DEF EarlierInYear
    <3> QED BY <1>5, <3>3, <3>4
  <2>4. CASE d.month = 2
    <3>1. n < B(3) /\ B(3) = B(2) + 28 /\ d.day = n - B(2) + 1
      BY <1>3, <2>1, <2>4
    <3>2. d.day < 29 /\ ~ (Birthday <= n)
      BY <2>1, <2>2, <3>1
    <3>3. EarlierInYear(d, born)
      BY <1>6, <2>4, <3>2 DEF EarlierInYear
    <3> QED BY <1>5, <3>2, <3>3
  <2>5. CASE d.month < 2
    <3>1. d.month = 1 /\ n < B(2)
      <4>1. d.month = 1 /\ 1 + 1 = 2
        BY <1>3, <2>5
      <4> QED BY <1>3, <4>1
    <3>2. ~ (Birthday <= n)
      BY <2>1, <2>2, <3>1
    <3>3. EarlierInYear(d, born)
      BY <1>6, <3>1 DEF EarlierInYear
    <3> QED BY <1>5, <3>2, <3>3
  <2> QED BY <1>3, <2>3, <2>4, <2>5
<1>7. CASE ~ (born.month = 2 /\ born.day = 29 /\ ~IsLeap(Year18))
  <2> DEFINE b == born.month
             x == B(b)
             y == B(d.month)
  <2>1. Birthday = x + born.day - 1 /\ x \in Nat /\ y \in Nat
    <3>1. Birthday = B(b) + born.day - 1
      BY <1>7 DEF Birthday
    <3> QED BY <1>1, <1>3, <1>4, <3>1
  <2>2. b < 12 => born.day <= DaysIn(Year18, b)
    <3>1. CASE b = 2
      BY <1>1, <1>7, <3>1 DEF DaysIn
    <3>2. CASE b # 2
      <4>1. DaysIn(Year18, b) = DaysIn(born.year, b)
        BY <3>2 DEF DaysIn
      <4>2. DaysIn(Year18, b) \in Nat
        BY DEF DaysIn
      <4> QED BY <1>1, <4>1, <4>2
    <3> QED BY <3>1, <3>2
  <2>3. CASE d.month > b
    <3>1. b < d.month /\ b \in 1..11 /\ b \in 1..12
      BY <1>1, <1>3, <2>3
    <3>2. B(b + 1) <= y /\ B(b + 1) = x + DaysIn(Year18, b)
      BY <1>3, <1>4, <3>1
    <3>3. DaysIn(Year18, b) \in Nat
      BY DEF DaysIn
    <3>4. b < 12
      BY <3>1
    <3> DEFINE l == DaysIn(Year18, b)
    <3>5. x + l <= y /\ y <= n /\ born.day <= l /\ l \in Nat
      BY <1>3, <2>2, <3>2, <3>3, <3>4
    <3> HIDE DEF l, x, y
    <3>6. Birthday <= n
      BY <1>1, <2>1, <3>5
    <3>7. ~EarlierInYear(d, born)
      BY <1>1, <1>3, <2>3 DEF EarlierInYear
    <3> QED BY <1>5, <3>6, <3>7
  <2>4. CASE d.month = b
    <3>1. d.day = n - x + 1
      BY <1>3, <2>4
    <3> HIDE DEF x, y
    <3>2. d.day < born.day <=> ~ (Birthday <= n)
      BY <1>1, <2>1, <3>1
    <3>3. EarlierInYear(d, born) <=> d.day < born.day
      BY <1>1, <2>4 DEF EarlierInYear
    <3> QED BY <1>5, <3>2, <3>3
  <2>5. CASE d.month < b
    <3>1. d.month < 12 /\ d.month # 12
      BY <1>1, <1>3, <2>5
    <3>2. n < B(d.month + 1) /\ B(d.month + 1) <= x
      BY <1>1, <1>3, <1>4, <2>5, <3>1
    <3>3. B(d.month + 1) \in Nat
      <4>1. d.month + 1 \in 1..12
        BY <1>3, <3>1
      <4> QED BY <1>4, <4>1
    <3> DEFINE z == B(d.month + 1)
    <3>4. n < z /\ z <= x /\ z \in Nat
      BY <3>2, <3>3
    <3> HIDE DEF x, y, z
    <3>5. ~ (Birthday <= n)
      BY <1>1, <2>1, <3>4
    <3>6. EarlierInYear(d, born)
      BY <2>5 DEF EarlierInYear
    <3> QED BY <1>5, <3>5, <3>6
  <2> QED BY <1>1, <1>3, <2>3, <2>4, <2>5
<1> QED BY <1>6, <1>7

(***************************************************************************)
(* What the brokers know is never wrong.                                   *)
(***************************************************************************)
BirthdayInside == lo <= Birthday /\ Birthday <= hi

(***************************************************************************)
(* The bisection never loses the birthday, for any date of birth: whenever *)
(* the interval is down to one day, with or without a budget, that day is  *)
(* the birthday (examples/leakage_budget.py: bisect, algorithms.py:        *)
(* _years_between).                                                        *)
(***************************************************************************)
THEOREM BirthdayNeverLost ==
  Spec => [](BirthdayInside /\ (lo = hi => lo = Birthday))
<1> DEFINE Inv == /\ IsDate(born) /\ Birthday \in Nat
                  /\ lo \in Nat /\ hi \in Nat /\ lo <= hi
                  /\ BirthdayInside
<1>1. Init => Inv
  <2> SUFFICES ASSUME Init PROVE Inv
    OBVIOUS
  <2>1. IsDate(born) /\ lo = 0 /\ hi = Last18
    BY BirthsAssumption DEF Init
  <2>2. Birthday \in Nat /\ Birthday <= Last18
    <3> DEFINE B(m) == DaysBefore(Year18, m)
               b == born.month
    <3>1. /\ born.year \in Nat /\ b \in 1..12 /\ Year18 \in Nat
          /\ born.day \in 1..DaysIn(born.year, b)
      BY <2>1 DEF IsDate, Year18, THRESHOLD
    <3>2. B(3) = 59 + LeapDay(Year18) /\ B(12) = 334 + LeapDay(Year18)
      BY <3>1, MonthsBegin
    <3>3. Last18 = 364 + LeapDay(Year18) /\ LeapDay(Year18) \in 0..1
      BY DEF Last18, LeapDay
    <3>4. CASE b = 2 /\ born.day = 29 /\ ~IsLeap(Year18)
      BY <3>2, <3>3, <3>4 DEF Birthday
    <3>5. CASE ~ (b = 2 /\ born.day = 29 /\ ~IsLeap(Year18))
      <4> DEFINE x == B(b)
                 y == B(b + 1)
      <4>1. Birthday = x + born.day - 1
        BY <3>5 DEF Birthday
      <4>2. x \in Nat /\ DaysIn(born.year, b) \in 28..31
        BY <3>1, MonthsFollow DEF DaysIn
      <4>3. born.day \in 1..31
        BY <3>1, <4>2
      <4>4. x <= 334 + LeapDay(Year18)
        <5>1. CASE b = 12
          <6>1. x = B(12)
            BY <5>1
          <6> QED BY <3>2, <3>3, <6>1
        <5>2. CASE b # 12
          <6>1. b \in 1..11 /\ 12 \in 1..12 /\ b < 12 /\ b + 1 \in 1..12
            BY <3>1, <5>2
          <6>2. y <= B(12) /\ y = x + DaysIn(Year18, b) /\ DaysIn(Year18, b) \in Nat
            BY <3>1, <6>1, MonthsFollow DEF DaysIn
          <6> DEFINE l == DaysIn(Year18, b)
                     last == B(12)
          <6>3. x + l <= last /\ l \in Nat /\ last = 334 + LeapDay(Year18)
            BY <3>2, <6>2
          <6> HIDE DEF x, y, l, last
          <6> QED BY <3>3, <4>2, <6>3
        <5> QED BY <5>1, <5>2
      <4> HIDE DEF x
      <4> QED BY <3>3, <4>1, <4>2, <4>3, <4>4
    <3> QED BY <3>4, <3>5
  <2>3. Last18 \in Nat
    BY DEF Last18
  <2> QED BY <2>1, <2>2, <2>3 DEF BirthdayInside
<1>2. Inv /\ [Next]_vars => Inv'
  <2> SUFFICES ASSUME Inv, [Next]_vars PROVE Inv'
    OBVIOUS
  <2>1. born' = born
    BY DEF Next, vars, Construct, Deposit, Grant, Ask, Finish, RetailerCheck
  <2>2. Birthday' = Birthday
    BY <2>1 DEF Birthday, Year18
  <2>3. CASE UNCHANGED <<lo, hi>>
    BY <2>1, <2>2, <2>3 DEF BirthdayInside
  <2>4. ASSUME NEW r, lo < hi, Answered(r) PROVE Inv'
    <3> DEFINE value == age_over_threshold(born, THRESHOLD, DayOfYear(Year18, mid))
    <3>1. lo' = Narrowed(value)[1] /\ hi' = Narrowed(value)[2]
      BY <2>4 DEF Answered
    <3>2. lo \in Nat /\ hi \in Nat /\ mid \in Nat /\ Birthday \in Nat /\ lo <= Birthday /\ Birthday <= hi
      BY DEF BirthdayInside, mid
    <3>3. value <=> Birthday <= mid
      BY <3>2, YesFromBirthday
    <3> HIDE DEF value
    <3>4. lo' \in Nat /\ hi' \in Nat /\ lo' <= hi'
      <4>1. value \in BOOLEAN
        BY DEF value, age_over_threshold
      <4> QED BY <2>4, <3>1, <3>2, <4>1, Halved
    <3>5. CASE value
      <4>1. lo' = lo /\ hi' = mid
        BY <3>1, <3>5 DEF Narrowed
      <4> QED BY <2>1, <2>2, <3>2, <3>3, <3>5, <3>4, <4>1 DEF BirthdayInside
    <3>6. CASE ~value
      <4>1. lo' = mid + 1 /\ hi' = hi
        BY <3>1, <3>6 DEF Narrowed
      <4> QED BY <2>1, <2>2, <3>2, <3>3, <3>6, <3>4, <4>1 DEF BirthdayInside
    <3> QED BY <3>5, <3>6
  <2> QED BY <2>3, <2>4
          DEF Next, vars, Construct, Deposit, Grant, Ask, Denied, Finish, RetailerCheck
<1>3. Inv => BirthdayInside /\ (lo = hi => lo = Birthday)
  BY DEF BirthdayInside
<1> QED BY <1>1, <1>2, <1>3, PTL DEF Spec

===============================================================================
