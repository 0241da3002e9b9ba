----------------------------- MODULE MCBisection ------------------------------
(***************************************************************************)
(* Instances of Bisection for TLC.                                         *)
(***************************************************************************)
EXTENDS Bisection

CONSTANTS probe, ally

MCProbes == <<probe, ally>>

\* Days at the edges of months and years, in 2007 as in the script, and in the
\* years around it: who is born in 2006 comes of age in a leap year, who is born
\* in 2008 may be born on 29 February.
MCBirths ==
  LET Days == {<<1, 1>>, <<2, 28>>, <<2, 29>>, <<3, 1>>, <<4, 2>>, <<6, 30>>,
               <<7, 1>>, <<12, 30>>, <<12, 31>>}
  IN  {d \in {[year |-> y, month |-> e[1], day |-> e[2]] : y \in 2006..2008, e \in Days} :
         IsDate(d)}

===============================================================================
