----------------------------- MODULE SandboxProofs -----------------------------
(***************************************************************************)
(* Theorems about Sandbox: the live tokens are those of the blocks being   *)
(* executed, so nothing is ever read after its execution, however deep     *)
(* executions nest and however they end; and what crosses is measured.     *)
(* And about Ages, one of the algorithms a sandbox executes: the age it    *)
(* computes from two dates counts the birthdays in between, whatever the   *)
(* dates are.                                                              *)
(*                                                                         *)
(* LiveTokensAreOpen is not inductive: leaving a block revokes one token   *)
(* and pops one place of the stack, which agree only if no token is on the *)
(* stack twice (OpenOnce) and every one on it was created (Tokens).        *)
(***************************************************************************)
EXTENDS Sandbox, Ages, SequenceTheorems, TLAPS

Tokens ==
  /\ contexts \in Seq([algorithm_id : Algorithms, active : BOOLEAN])
  /\ stack \in Seq(Nat)
  /\ \A i \in DOMAIN stack : stack[i] \in DOMAIN contexts

OpenOnce == \A i, j \in DOMAIN stack : stack[i] = stack[j] => i = j

IInv == Tokens /\ OpenOnce /\ LiveTokensAreOpen /\ ReadInsideOnly

-----------------------------------------------------------------------------

(***************************************************************************)
(* Initially there is no token.                                            *)
(***************************************************************************)
LEMMA InitIInv == Init => IInv
<1> SUFFICES ASSUME Init PROVE IInv
  OBVIOUS
<1>1. contexts = <<>> /\ stack = <<>> /\ reads = {}
  BY DEF Init
<1>2. DOMAIN contexts = {} /\ DOMAIN stack = {}
  BY <1>1
<1>3. Tokens
  BY <1>1, <1>2 DEF Tokens
<1> QED BY <1>1, <1>2, <1>3 DEF IInv, OpenOnce, LiveTokensAreOpen, ReadInsideOnly, Open

(***************************************************************************)
(* execute creates a token that is live and innermost.                     *)
(***************************************************************************)
LEMMA ExecuteIInv ==
  ASSUME IInv, NEW alg \in Algorithms, Execute(alg)
  PROVE  IInv'
<1> DEFINE c == Len(contexts) + 1
           token == [algorithm_id |-> alg, active |-> TRUE]
<1>1. /\ contexts' = Append(contexts, token)
      /\ stack' = Append(stack, c)
      /\ reads' = reads \cup {Read(c, Open \cup {c})}
  BY DEF Execute
<1>2. /\ contexts \in Seq([algorithm_id : Algorithms, active : BOOLEAN])
      /\ stack \in Seq(Nat)
      /\ Len(contexts) \in Nat /\ Len(stack) \in Nat
      /\ DOMAIN contexts = 1..Len(contexts) /\ DOMAIN stack = 1..Len(stack)
      /\ token \in [algorithm_id : Algorithms, active : BOOLEAN]
  BY DEF IInv, Tokens
<1> HIDE DEF token
<1>3. /\ DOMAIN contexts' = 1..c
      /\ \A k \in 1..c : contexts'[k] = IF k = c THEN token ELSE contexts[k]
  BY <1>1, <1>2
<1>4. /\ DOMAIN stack' = 1..Len(stack) + 1
      /\ \A i \in 1..Len(stack) + 1 :
           stack'[i] = IF i = Len(stack) + 1 THEN c ELSE stack[i]
  BY <1>1, <1>2
<1>5. \A i \in 1..Len(stack) : stack[i] \in 1..Len(contexts)
  BY <1>2 DEF IInv, Tokens
<1>6. Tokens'
  <2>1. contexts' \in Seq([algorithm_id : Algorithms, active : BOOLEAN])
    BY <1>1, <1>2
  <2>2. stack' \in Seq(Nat)
    BY <1>1, <1>2
  <2>3. \A i \in DOMAIN stack' : stack'[i] \in DOMAIN contexts'
    BY <1>2, <1>3, <1>4, <1>5
  <2> QED BY <2>1, <2>2, <2>3 DEF Tokens
<1>7. OpenOnce'
  <2> SUFFICES ASSUME NEW i \in DOMAIN stack', NEW j \in DOMAIN stack',
                      stack'[i] = stack'[j]
               PROVE  i = j
    BY DEF OpenOnce
  <2> QED BY <1>2, <1>4, <1>5 DEF IInv, OpenOnce
<1>8. Open' = Open \cup {c}
  <2>1. Open' = {stack'[i] : i \in 1..Len(stack) + 1} /\ Open = {stack[i] : i \in 1..Len(stack)}
    BY <1>2, <1>4 DEF Open
  <2>2. stack'[Len(stack) + 1] = c /\ Len(stack) + 1 \in 1..Len(stack) + 1
    BY <1>2, <1>4
  <2>3. \A i \in 1..Len(stack) : i \in 1..Len(stack) + 1 /\ stack'[i] = stack[i]
    BY <1>2, <1>4
  <2>4. \A i \in 1..Len(stack) + 1 : i \in 1..Len(stack) \/ i = Len(stack) + 1
    BY <1>2
  <2> QED BY <2>1, <2>2, <2>3, <2>4
<1>9. LiveTokensAreOpen'
  <2>1. \A k : k \in {x \in DOMAIN contexts' : contexts'[x].active}
                 <=> k \in {x \in DOMAIN contexts : contexts[x].active} \cup {c}
    BY <1>2, <1>3 DEF token
  <2> QED BY <1>8, <2>1 DEF IInv, LiveTokensAreOpen
<1>10. ReadInsideOnly'
  BY <1>1 DEF IInv, ReadInsideOnly, Read
<1> QED BY <1>6, <1>7, <1>9, <1>10 DEF IInv

(***************************************************************************)
(* unseal serves the tokens of open blocks only.                           *)
(***************************************************************************)
LEMMA UnsealIInv ==
  ASSUME IInv, NEW c \in 1..MaxContexts, Unseal(c)
  PROVE  IInv'
<1>1. UNCHANGED <<contexts, stack>>
  BY DEF Unseal
<1>2. Tokens' /\ OpenOnce' /\ LiveTokensAreOpen'
  BY <1>1 DEF IInv, Tokens, OpenOnce, LiveTokensAreOpen, Open
<1>3. Unseals(c) => c \in Open
  BY DEF IInv, LiveTokensAreOpen, Unseals
<1>4. ReadInsideOnly'
  BY <1>3 DEF Unseal, Read, IInv, ReadInsideOnly
<1> QED BY <1>2, <1>4 DEF IInv

(***************************************************************************)
(* Leaving a block revokes its token and no other.                         *)
(***************************************************************************)
LEMMA LeaveIInv ==
  ASSUME IInv, Leave
  PROVE  IInv'
<1> DEFINE n == Len(stack)
<1>1. /\ stack # <<>>
      /\ contexts' = [contexts EXCEPT ![stack[n]].active = FALSE]
      /\ stack' = SubSeq(stack, 1, n - 1)
      /\ reads' = reads
  BY DEF Leave, Innermost
<1>2. /\ contexts \in Seq([algorithm_id : Algorithms, active : BOOLEAN])
      /\ stack \in Seq(Nat)
      /\ n \in Nat \ {0} /\ Len(contexts) \in Nat
      /\ DOMAIN contexts = 1..Len(contexts) /\ DOMAIN stack = 1..n
      /\ \A i \in 1..n : stack[i] \in 1..Len(contexts)
  BY <1>1 DEF IInv, Tokens
<1>3. /\ DOMAIN stack' = 1..n - 1
      /\ \A i \in 1..n - 1 : stack'[i] = stack[i]
  BY <1>1, <1>2
<1>4. /\ contexts' \in Seq([algorithm_id : Algorithms, active : BOOLEAN])
      /\ DOMAIN contexts' = DOMAIN contexts
      /\ \A k \in DOMAIN contexts :
           contexts'[k].active = IF k = stack[n] THEN FALSE ELSE contexts[k].active
  <2>1. contexts' = [k \in 1..Len(contexts) |->
                       IF k = stack[n] THEN [contexts[k] EXCEPT !.active = FALSE]
                       ELSE contexts[k]]
    BY <1>1, <1>2
  <2>2. \A k \in 1..Len(contexts) :
          contexts[k] \in [algorithm_id : Algorithms, active : BOOLEAN]
    BY <1>2, ElementOfSeq
  <2>3. \A k \in 1..Len(contexts) :
          /\ contexts'[k] \in [algorithm_id : Algorithms, active : BOOLEAN]
          /\ contexts'[k].active = IF k = stack[n] THEN FALSE ELSE contexts[k].active
    BY <2>1, <2>2
  <2>4. DOMAIN contexts' = 1..Len(contexts)
    BY <2>1
  <2>5. contexts' \in [1..Len(contexts) -> [algorithm_id : Algorithms, active : BOOLEAN]]
    BY <2>1, <2>3, <2>4
  <2>6. contexts' \in Seq([algorithm_id : Algorithms, active : BOOLEAN])
    BY <1>2, <2>5, SeqDef
  <2> QED BY <1>2, <2>3, <2>4, <2>6
<1>5. Tokens'
  <2>1. stack' \in Seq(Nat)
    BY <1>1, <1>2
  <2> QED BY <1>2, <1>3, <1>4, <2>1, SMTT(20) DEF Tokens
<1>6. OpenOnce'
  BY <1>2, <1>3, SMTT(20) DEF IInv, OpenOnce
<1>7. Open' = Open \ {stack[n]}
  <2>1. ASSUME NEW i \in 1..n - 1 PROVE stack[i] # stack[n]
    BY <1>2 DEF IInv, OpenOnce
  <2>2. Open' = {stack'[i] : i \in 1..n - 1} /\ Open = {stack[i] : i \in 1..n}
    BY <1>2, <1>3 DEF Open
  <2>3. \A i \in 1..n - 1 : i \in 1..n /\ stack'[i] = stack[i]
    BY <1>2, <1>3
  <2>4. \A i \in 1..n : i \in 1..n - 1 \/ i = n
    <3>1. n \in Nat \ {0}
      BY <1>2
    <3> HIDE DEF n
    <3> QED BY <3>1
  <2> QED BY <2>1, <2>2, <2>3, <2>4
<1>8. LiveTokensAreOpen'
  <2>1. \A k : k \in {x \in DOMAIN contexts' : contexts'[x].active}
            <=> k \in {x \in DOMAIN contexts : contexts[x].active} \ {stack[n]}
    BY <1>4
  <2> QED BY <1>7, <2>1 DEF IInv, LiveTokensAreOpen
<1>9. ReadInsideOnly'
  BY <1>1 DEF IInv, ReadInsideOnly
<1> QED BY <1>5, <1>6, <1>8, <1>9 DEF IInv

(***************************************************************************)
(* The invariant is inductive.                                             *)
(***************************************************************************)
LEMMA NextIInv == IInv /\ [Next]_vars => IInv'
<1> SUFFICES ASSUME IInv, [Next]_vars PROVE IInv'
  OBVIOUS
<1>1. CASE UNCHANGED vars
  BY <1>1 DEF vars, IInv, Tokens, OpenOnce, LiveTokensAreOpen, ReadInsideOnly, Open
<1>2. CASE \E alg \in Algorithms : Execute(alg)
  BY <1>2, ExecuteIInv
<1>3. CASE \E c \in 1..MaxContexts : Unseal(c)
  BY <1>3, UnsealIInv
<1>4. CASE Leave
  BY <1>4, LeaveIInv
<1> QED BY <1>1, <1>2, <1>3, <1>4 DEF Next, Return, Exceed, Raise

(***************************************************************************)
(* In every reachable state the live tokens are those of the blocks being  *)
(* executed: `finally` in sandbox revokes a token on every way out.        *)
(***************************************************************************)
THEOREM TokensAreRevoked == Spec => []LiveTokensAreOpen
<1>1. IInv => LiveTokensAreOpen
  BY DEF IInv
<1> QED BY <1>1, InitIInv, NextIInv, PTL DEF Spec

(***************************************************************************)
(* No plaintext was ever read outside the execution whose token was shown, *)
(* for any algorithms, any nesting and any use of tokens that were kept.   *)
(***************************************************************************)
THEOREM PlaintextStaysInside == Spec => []ReadInsideOnly
<1>1. IInv => ReadInsideOnly
  BY DEF IInv
<1> QED BY <1>1, InitIInv, NextIInv, PTL DEF Spec

-----------------------------------------------------------------------------
(* What crosses.                                                           *)

\* No cap reaches the sizes at which floats no longer tell: it is so for caps up
\* to 48, and "three to four bits" is what the paper speaks of.
NarrowCaps ==
  \A alg \in Algorithms : \A k \in 1..max_output_bits[alg] : unseen(k) = 0

(***************************************************************************)
(* What enforce passes is measured by the least number of bits that tell   *)
(* its outcomes apart: a cap below the sizes that log2 cannot tell from a  *)
(* power of two rejects them all, since it rejects that power as well.     *)
(***************************************************************************)
LEMMA EnforcedIsMeasured ==
  ASSUME NarrowCaps, NEW alg \in Algorithms, NEW v \in Result,
         Enforced(v, max_output_bits[alg])
  PROVE  LET n == Outcomes(v)
             b == measure_bits(v)
         IN  /\ Tells(b, n) /\ ~Tells(b - 1, n)
             /\ Tells(max_output_bits[alg], n)
<1> DEFINE n == Outcomes(v)
           cap == max_output_bits[alg]
<1>1. /\ n.power \in Nat \ {0} /\ n.excess \in Nat /\ unseen(n.power) \in Nat
  <2>1. CASE v \in EnumeratedOutcome
    <3>1. v.kind = "outcome" /\ v.domain_size \in DomainSizes /\ v.domain_size.power >= 1
      BY <2>1 DEF EnumeratedOutcome
    <3>2. n = v.domain_size
      BY <3>1 DEF Outcomes
    <3>3. n \in [power : Nat, excess : Nat]
      BY <3>1, <3>2, SizesAssumption
    <3> HIDE DEF n
    <3> QED BY <3>1, <3>2, <3>3, LogAssumption
  <2>2. CASE v.kind = "bool"
    <3>1. n = Size(1, 0)
      BY <2>2 DEF Outcomes
    <3> HIDE DEF n
    <3>2. unseen(n.power) \in Nat
      BY <3>1, LogAssumption
    <3> QED BY <3>1, <3>2 DEF Size
  <2> QED BY <2>1, <2>2 DEF Result, Enforced
<1>2. cap \in Nat \ {0} /\ measure_bits(v) <= cap
  BY CapAssumption DEF Enforced
<1>3. measure_bits(v) = IF n.excess <= unseen(n.power) THEN n.power ELSE n.power + 1
  BY DEF measure_bits
<1>4. n.power \in 1..cap => unseen(n.power) = 0
  BY DEF NarrowCaps
<1> HIDE DEF n, cap
<1>5. n.power \in 1..cap
  BY <1>1, <1>2, <1>3
<1>6. measure_bits(v) = IF n.excess = 0 THEN n.power ELSE n.power + 1
  BY <1>1, <1>3, <1>4, <1>5
<1>7. Tells(measure_bits(v), n) /\ ~Tells(measure_bits(v) - 1, n) /\ Tells(cap, n)
  BY <1>1, <1>2, <1>6 DEF Tells
<1> QED BY <1>7 DEF n, cap

(***************************************************************************)
(* For every set of algorithms and sizes, and any nesting, as long as the  *)
(* caps are narrow: the bits reported with what crosses are those its      *)
(* outcomes need, no more and no fewer, although a float computes them,    *)
(* and they fit the cap of the algorithm whose block was left.             *)
(***************************************************************************)
THEOREM ResultsAreMeasured ==
  ASSUME NarrowCaps
  PROVE  Spec => []CrossedIsMeasured
<1>1. Init => CrossedIsMeasured
  BY DEF Init, CrossedIsMeasured
<1>2. IInv /\ CrossedIsMeasured /\ [Next]_vars => CrossedIsMeasured'
  <2> SUFFICES ASSUME IInv, CrossedIsMeasured, [Next]_vars PROVE CrossedIsMeasured'
    OBVIOUS
  <2>1. CASE crossed' = crossed
    BY <2>1 DEF CrossedIsMeasured
  <2>2. ASSUME NEW v \in Result, Return(v)
        PROVE  CrossedIsMeasured'
    <3> DEFINE alg == contexts[Innermost].algorithm_id
               x == [algorithm_id |-> alg, result |-> v, bits |-> measure_bits(v)]
    <3>1. crossed' = crossed \cup {x} /\ Enforced(v, max_output_bits[alg])
      BY <2>2 DEF Return
    <3>2. alg \in Algorithms
      <4>1. Innermost \in DOMAIN contexts
        <5>1. Len(stack) \in DOMAIN stack
          BY <2>2 DEF Return, Leave, IInv, Tokens
        <5> QED BY <5>1 DEF IInv, Tokens, Innermost
      <4>2. contexts[Innermost] \in [algorithm_id : Algorithms, active : BOOLEAN]
        <5>1. contexts \in Seq([algorithm_id : Algorithms, active : BOOLEAN])
          BY DEF IInv, Tokens
        <5>2. DOMAIN contexts = 1..Len(contexts)
          BY <5>1
        <5> QED BY <4>1, <5>1, <5>2, ElementOfSeq
      <4> QED BY <4>2
    <3>3. v.kind # "other"
      BY <3>1 DEF Enforced
    <3> HIDE DEF alg
    <3>4. LET n == Outcomes(x.result)
          IN  /\ Tells(x.bits, n) /\ ~Tells(x.bits - 1, n)
              /\ Tells(max_output_bits[x.algorithm_id], n)
      BY <3>1, <3>2, EnforcedIsMeasured
    <3> QED BY <3>1, <3>3, <3>4 DEF CrossedIsMeasured
  <2> QED BY <2>1, <2>2 DEF Next, vars, Execute, Unseal, Exceed, Raise
<1> QED BY <1>1, <1>2, InitIInv, NextIInv, PTL DEF Spec

-----------------------------------------------------------------------------
(* Theorems about Ages.                                                    *)

DateFields(d) ==
  /\ d = [year |-> d.year, month |-> d.month, day |-> d.day]
  /\ IsDate(d)

\* The inductive invariant: the two dates are dates of the calendar in order,
\* and the count of birthdays is the program's difference of years.
AgeInv ==
  /\ DateFields(date_of_birth) /\ date_of_birth \in Births
  /\ DateFields(today)
  /\ birthdays = years_between(date_of_birth, today)
  /\ birthdays \in Nat

(***************************************************************************)
(* How long months are: enough to place every day of a year.               *)
(***************************************************************************)
LEMMA MonthLength ==
  ASSUME NEW year \in Nat, NEW month \in 1..12
  PROVE  /\ DaysIn(year, month) \in 28..31
         /\ month # 2 => DaysIn(year, month) \in 30..31
         /\ month = 12 => DaysIn(year, month) = 31
         /\ month = 2 => DaysIn(year, month) = IF IsLeap(year) THEN 29 ELSE 28
<1>1. CASE month = 2
  BY <1>1 DEF DaysIn
<1>2. CASE month \in {4, 6, 9, 11}
  BY <1>2 DEF DaysIn
<1>3. CASE month # 2 /\ month \notin {4, 6, 9, 11}
  BY <1>3 DEF DaysIn
<1> QED BY <1>1, <1>2, <1>3

(***************************************************************************)
(* The day after a day of the calendar is one.                             *)
(***************************************************************************)
LEMMA TomorrowIsDate ==
  ASSUME NEW d, DateFields(d)
  PROVE  DateFields(Tomorrow(d))
<1>1. /\ d.year \in Nat /\ d.month \in 1..12 /\ d.day \in 1..DaysIn(d.year, d.month)
      /\ d = [year |-> d.year, month |-> d.month, day |-> d.day]
  BY DEF DateFields, IsDate
<1>2. CASE d.day < DaysIn(d.year, d.month)
  <2>1. Tomorrow(d) = [year |-> d.year, month |-> d.month, day |-> d.day + 1]
    BY <1>1, <1>2 DEF Tomorrow
  <2>2. d.day + 1 \in 1..DaysIn(d.year, d.month)
    BY <1>1, <1>2, MonthLength
  <2> QED BY <1>1, <2>1, <2>2 DEF DateFields, IsDate
<1>3. CASE ~(d.day < DaysIn(d.year, d.month)) /\ d.month < 12
  <2>1. Tomorrow(d) = [year |-> d.year, month |-> d.month + 1, day |-> 1]
    BY <1>1, <1>3 DEF Tomorrow
  <2>2. d.month + 1 \in 1..12 /\ 1 \in 1..DaysIn(d.year, d.month + 1)
    BY <1>1, <1>3, MonthLength
  <2> QED BY <1>1, <2>1, <2>2 DEF DateFields, IsDate
<1>4. CASE ~(d.day < DaysIn(d.year, d.month)) /\ ~(d.month < 12)
  <2>1. Tomorrow(d) = [year |-> d.year + 1, month |-> 1, day |-> 1]
    BY <1>1, <1>4 DEF Tomorrow
  <2>2. d.year + 1 \in Nat /\ 1 \in 1..DaysIn(d.year + 1, 1)
    BY <1>1, MonthLength
  <2> QED BY <2>1, <2>2 DEF DateFields, IsDate
<1> QED BY <1>2, <1>3, <1>4

(***************************************************************************)
(* From one day to the next the difference of years grows by one on a      *)
(* birthday and stays what it is on every other day.                       *)
(***************************************************************************)
LEMMA OneDayOlder ==
  ASSUME DateFields(date_of_birth), NEW d, DateFields(d)
  PROVE  years_between(date_of_birth, Tomorrow(d))
           = years_between(date_of_birth, d) + IF IsBirthday(Tomorrow(d)) THEN 1 ELSE 0
<1> DEFINE b == date_of_birth
<1>1. /\ d.year \in Nat /\ d.month \in 1..12 /\ d.day \in 1..DaysIn(d.year, d.month)
      /\ d = [year |-> d.year, month |-> d.month, day |-> d.day]
  BY DEF DateFields, IsDate
<1>2. /\ b.year \in Nat /\ b.month \in 1..12 /\ b.day \in 1..DaysIn(b.year, b.month)
  BY DEF DateFields, IsDate
<1>3. CASE d.day < DaysIn(d.year, d.month)
  <2>1. Tomorrow(d) = [year |-> d.year, month |-> d.month, day |-> d.day + 1]
    BY <1>1, <1>3 DEF Tomorrow
  <2>2. ~(Tomorrow(d).month = 3 /\ Tomorrow(d).day = 1)
    BY <1>1, <2>1, MonthLength
  <2> QED
    BY <1>1, <1>2, <2>1, <2>2, MonthLength DEF years_between, EarlierInYear, IsBirthday
<1>4. CASE ~(d.day < DaysIn(d.year, d.month)) /\ d.month < 12
  <2>1. Tomorrow(d) = [year |-> d.year, month |-> d.month + 1, day |-> 1]
    BY <1>1, <1>4 DEF Tomorrow
  <2>2. d.day = DaysIn(d.year, d.month)
    BY <1>1, <1>4, MonthLength
  <2>3. CASE b.month = 2 /\ b.day = 29
    <3>1. d.month = 2 => d.day = IF IsLeap(d.year) THEN 29 ELSE 28
      BY <1>1, <2>2, MonthLength
    <3> QED
      BY <1>1, <1>2, <1>4, <2>1, <2>3, <3>1 DEF years_between, EarlierInYear, IsBirthday
  <2>4. CASE ~(b.month = 2 /\ b.day = 29)
    <3>1. b.month = d.month => b.day <= d.day
      BY <1>1, <1>2, <2>2, <2>4, MonthLength DEF DaysIn
    <3> QED
      BY <1>1, <1>2, <1>4, <2>1, <2>4, <3>1 DEF years_between, EarlierInYear, IsBirthday
  <2> QED BY <2>3, <2>4
<1>5. CASE ~(d.day < DaysIn(d.year, d.month)) /\ ~(d.month < 12)
  <2>1. Tomorrow(d) = [year |-> d.year + 1, month |-> 1, day |-> 1]
    BY <1>1, <1>5 DEF Tomorrow
  <2>2. d.month = 12 /\ d.day = 31
    BY <1>1, <1>5, MonthLength
  <2>3. b.day \in 1..31
    BY <1>2, MonthLength
  <2> QED
    BY <1>1, <1>2, <2>1, <2>2, <2>3 DEF years_between, EarlierInYear, IsBirthday
<1> QED BY <1>3, <1>4, <1>5

-----------------------------------------------------------------------------

LEMMA BornAgeInv == Born => AgeInv
  BY BirthsAssumption DEF Born, AgeInv, DateFields, years_between, EarlierInYear, IsDate

LEMMA NextDayAgeInv == AgeInv /\ [NextDay]_life => AgeInv'
<1> SUFFICES ASSUME AgeInv, [NextDay]_life PROVE AgeInv'
  OBVIOUS
<1>1. CASE NextDay
  <2>1. date_of_birth' = date_of_birth /\ today' = Tomorrow(today)
    BY <1>1 DEF NextDay
  <2>2. DateFields(today')
    BY <2>1, TomorrowIsDate DEF AgeInv
  <2>3. years_between(date_of_birth, today')
          = birthdays + IF IsBirthday(today') THEN 1 ELSE 0
    BY <2>1, OneDayOlder DEF AgeInv
  <2>4. birthdays' = years_between(date_of_birth, today') /\ birthdays' \in Nat
    BY <1>1, <2>3 DEF NextDay, AgeInv
  <2> QED BY <2>1, <2>2, <2>4 DEF AgeInv
<1>2. CASE UNCHANGED life
  BY <1>2 DEF life, AgeInv
<1> QED BY <1>1, <1>2

LEMMA AgeInvAlways == Living => []AgeInv
  BY BornAgeInv, NextDayAgeInv, PTL DEF Living

(***************************************************************************)
(* Days follow days of the calendar, and no age is negative.               *)
(***************************************************************************)
THEOREM AgeTypeCorrect == Living => []TypeOK
<1>1. AgeInv => TypeOK
  BY DEF AgeInv, TypeOK, DateFields
<1> QED BY <1>1, AgeInvAlways, PTL

(***************************************************************************)
(* age.over_threshold answers True on exactly the days on which the owner  *)
(* has had as many birthdays as the threshold says, for every date of      *)
(* birth and every later date.                                             *)
(***************************************************************************)
THEOREM AnswerIsAlwaysAge == Living => []AnswerIsAge
<1>1. AgeInv => AnswerIsAge
  BY DEF AgeInv, AnswerIsAge, age_over_threshold
<1> QED BY <1>1, AgeInvAlways, PTL

(***************************************************************************)
(* No answer turns back from True to False as days pass.                   *)
(***************************************************************************)
THEOREM TrueAlwaysStaysTrue == Living => TrueStaysTrue
<1>1. AgeInv /\ AgeInv' /\ [NextDay]_life =>
        [\A n \in 0..MaxThreshold :
           age_over_threshold(date_of_birth, n, today)
             => age_over_threshold(date_of_birth, n, today')]_life
  <2> SUFFICES ASSUME AgeInv, AgeInv', NextDay, NEW n \in 0..MaxThreshold,
                      age_over_threshold(date_of_birth, n, today)
               PROVE  age_over_threshold(date_of_birth, n, today')
    OBVIOUS
  <2>1. birthdays' >= birthdays
    BY DEF NextDay, AgeInv
  <2>2. date_of_birth' = date_of_birth
    BY DEF NextDay
  <2> QED BY <2>1, <2>2 DEF AgeInv, age_over_threshold
<1> QED BY <1>1, AgeInvAlways, PTL DEF Living, TrueStaysTrue

===============================================================================
