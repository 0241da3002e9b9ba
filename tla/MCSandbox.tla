------------------------------ MODULE MCSandbox ------------------------------
(***************************************************************************)
(* Instances of Sandbox for TLC.                                           *)
(***************************************************************************)
EXTENDS Sandbox, TLC

CONSTANTS age_over_threshold, age_band, wide

\* What math.log2 does up to 2^52: sizes it takes for the power below them.
MCUnseen(k) == IF k < 49 THEN 0 ELSE <<1, 2, 5, 11>>[k - 48]

\* Yes or no, one of at most eight brackets, and a wide cap.
MCCaps == age_over_threshold :> 1 @@ age_band :> 3 @@ wide :> 48

\* 1, 2, 3, 5, 8 and 9 outcomes, and what there is around the wide cap, the
\* first size included that a float takes for the power below it.
MCSizes ==
  {Size(0, 0), Size(1, 0), Size(1, 1), Size(2, 1), Size(3, 0), Size(3, 1),
   Size(47, 1), Size(48, 0), Size(48, 1), Size(49, 1)}

===============================================================================
