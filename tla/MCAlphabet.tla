------------------------------ MODULE MCAlphabet ------------------------------
(***************************************************************************)
(* A small alphabet, and identities like those of tests/test_matching.py,  *)
(* shortened.                                                              *)
(***************************************************************************)
EXTENDS Naturals, Sequences, TLC

\* "^a" is an accented letter and "^A" the same letter as a capital.
MCChars == {"a", "b", "A", "B", "^a", "^A", "'", "-", " ", "1", "2"}
MCPunctuation == {"'", "-"}

MCStrip == [c \in MCChars |->
  CASE c = "^a" -> <<"a">> [] c = "^A" -> <<"A">> [] OTHER -> <<c>>]

MCCasefold == [c \in MCChars |->
  CASE c = "A" -> <<"a">> [] c = "B" -> <<"b">> [] c = "^A" -> <<"^a">> [] OTHER -> <<c>>]
MCUpper == [c \in MCChars |->
  CASE c = "a" -> <<"A">> [] c = "b" -> <<"B">> [] c = "^a" -> <<"^A">> [] OTHER -> <<c>>]

MCCodepoint == [c \in MCChars |->
  CASE c = " " -> 1 [] c = "'" -> 2 [] c = "-" -> 3 [] c = "1" -> 4 [] c = "2" -> 5
    [] c = "A" -> 6 [] c = "B" -> 7 [] c = "a" -> 8 [] c = "b" -> 9 [] c = "^A" -> 10 [] c = "^a" -> 11]

\* "a" abbreviates "ba" (as "st" does "street"); "b" is dropped (as "the" is).
MCSubstitutions == <<"a">> :> <<"b", "a">> @@ <<"b">> :> <<>>

\* The features and the salt, hashed to three bits, of which a fingerprint of
\* two bits shows the first two: it may hide the version, or a district.
MCDigest(salt, f) ==
  ( (IF f[1] = "identity-canon/1" THEN 0 ELSE 1) + (IF f[2][1] = "A" THEN 0 ELSE 3)
    + (IF f[3] = <<"b">> THEN 0 ELSE 2) + 4 * f[4] + salt) % 8

Name(given, family, address, postcode) ==
  [given_name |-> given, family_name |-> family, address |-> address, postcode |-> postcode]

===============================================================================
