--------------------------------- MODULE Ages ---------------------------------
(***************************************************************************)
(* A life as age.over_threshold (src/databank/algorithms.py) sees it: day  *)
(* by day, over leap years and the ends of centuries, the one bit that     *)
(* leaves against the birthdays the owner has had.  Birthdays are counted  *)
(* as they come; the program computes an age from two dates alone.         *)
(***************************************************************************)
EXTENDS Dates

CONSTANTS
  Births,      \* dates of birth
  MaxAge,      \* bound on the years that pass
  MaxThreshold \* bound on the thresholds requestors ask about

ASSUME BirthsAssumption ==
  \A d \in Births : IsDate(d) /\ d = [year |-> d.year, month |-> d.month, day |-> d.day]

VARIABLES
  date_of_birth,
  today,     \* the query's as_of
  birthdays  \* history: birthdays since the first

life == <<date_of_birth, today, birthdays>>

\* Who was born on 29 February has it on 1 March in other years.
IsBirthday(d) ==
  \/ d.month = date_of_birth.month /\ d.day = date_of_birth.day
  \/ /\ date_of_birth.month = 2 /\ date_of_birth.day = 29
     /\ ~IsLeap(d.year) /\ d.month = 3 /\ d.day = 1

Born ==
  /\ date_of_birth \in Births
  /\ today = date_of_birth
  /\ birthdays = 0

NextDay ==
  /\ today.year < date_of_birth.year + MaxAge
  /\ today' = Tomorrow(today)
  /\ birthdays' = IF IsBirthday(today') THEN birthdays + 1 ELSE birthdays
  /\ UNCHANGED date_of_birth

Living == Born /\ [][NextDay]_life

-----------------------------------------------------------------------------
(* Properties.                                                             *)

(***************************************************************************)
(* Days follow days of the calendar; nobody is younger than zero.          *)
(***************************************************************************)
TypeOK ==
  /\ date_of_birth \in Births
  /\ IsDate(today)
  /\ birthdays \in Nat
  /\ years_between(date_of_birth, today) \in Nat

(***************************************************************************)
(* "Is the owner at least N years old": on every day, and for every        *)
(* threshold, the answer is whether she has had N birthdays.               *)
(***************************************************************************)
AnswerIsAge ==
  \A n \in 0..MaxThreshold :
    age_over_threshold(date_of_birth, n, today) <=> birthdays >= n

(***************************************************************************)
(* An answer that was True once stays True on every later day: a requestor *)
(* that keeps nothing but the answer never has to correct it.              *)
(***************************************************************************)
TrueStaysTrue ==
  [][\A n \in 0..MaxThreshold :
       age_over_threshold(date_of_birth, n, today)
         => age_over_threshold(date_of_birth, n, today')]_life

===============================================================================
