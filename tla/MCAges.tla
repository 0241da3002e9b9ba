------------------------------- MODULE MCAges ---------------------------------
(***************************************************************************)
(* Instances of Ages for TLC.                                              *)
(***************************************************************************)
EXTENDS Ages

\* The days around which month, day and year compare differently.
Days == {<<1, 1>>, <<2, 28>>, <<2, 29>>, <<3, 1>>, <<4, 2>>, <<12, 31>>}

\* Two leap years, one before a century that is none, one before one that is.
MCBirths ==
  {[year |-> y, month |-> d[1], day |-> d[2]] : y \in {1896, 1996}, d \in Days}

===============================================================================
