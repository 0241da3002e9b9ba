-------------------------------- MODULE Dates ---------------------------------
(***************************************************************************)
(* The dates of Python's datetime.date, as far as the program uses them,   *)
(* and the age computation of src/databank/algorithms.py.                  *)
(***************************************************************************)
EXTENDS Integers

IsLeap(year) == year % 4 = 0 /\ (year % 100 # 0 \/ year % 400 = 0)

DaysIn(year, month) ==
  CASE month = 2 -> IF IsLeap(year) THEN 29 ELSE 28
    [] month \in {4, 6, 9, 11} -> 30
    [] OTHER -> 31

IsDate(d) ==
  /\ d.year \in Nat /\ d.month \in 1..12
  /\ d.day \in 1..DaysIn(d.year, d.month)

Tomorrow(d) ==
  IF d.day < DaysIn(d.year, d.month)
  THEN [d EXCEPT !.day = @ + 1]
  ELSE IF d.month < 12
  THEN [d EXCEPT !.month = @ + 1, !.day = 1]
  ELSE [year |-> d.year + 1, month |-> 1, day |-> 1]

\* The days of a year before a month.
DaysBefore(year, month) ==
  <<0, 31, 59, 90, 120, 151, 181, 212, 243, 273, 304, 334>>[month]
    + IF month > 2 /\ IsLeap(year) THEN 1 ELSE 0

\* The day that is n days after the first of January of a year.
DayOfYear(year, n) ==
  LET month == CHOOSE m \in 1..12 :
                 /\ DaysBefore(year, m) <= n
                 /\ m = 12 \/ n < DaysBefore(year, m + 1)
  IN  [year |-> year, month |-> month, day |-> n - DaysBefore(year, month) + 1]

\* The comparison of the pairs (month, day).
EarlierInYear(d, e) == d.month < e.month \/ (d.month = e.month /\ d.day < e.day)

\* A plausible mistake: <= for <, the year counts from the day after.
years_between_late(start, end) ==
  end.year - start.year
    - IF ~EarlierInYear(start, end) THEN 1 ELSE 0

\* Whole years elapsed.
years_between(start, end) ==
  end.year - start.year - IF EarlierInYear(end, start) THEN 1 ELSE 0

age_over_threshold(date_of_birth, threshold_years, as_of) ==
  years_between(date_of_birth, as_of) >= threshold_years

===============================================================================
