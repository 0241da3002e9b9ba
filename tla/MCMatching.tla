------------------------------ MODULE MCMatching ------------------------------
(***************************************************************************)
(* Instances of Clerical for TLC.                                          *)
(***************************************************************************)
EXTENDS Clerical, MCAlphabet

\* Like Street High 1, Q12 8AB.
MCOriginals ==
  {Name(<<"A">>, <<"B", "a", "b", "a">>, <<"b", "a", " ", "a", "a", " ", "1">>,
        <<"A", "1", "2", " ", "2", "A", "B">>)}

\* What counts as format: case and hyphens everywhere, accents in names and
\* addresses.
Fields == {"given_name", "family_name", "address", "postcode"}
Cases == {<<"a", "A">>, <<"A", "a">>, <<"B", "b">>, <<"b", "B">>, <<" ", "-">>}
MCLookalikes ==
  [f \in Fields |-> Cases \cup IF f = "postcode" THEN {} ELSE {<<"A", "^A">>, <<"a", "^a">>}]

===============================================================================
