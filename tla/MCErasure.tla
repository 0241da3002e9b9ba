------------------------------- MODULE MCErasure -------------------------------
(***************************************************************************)
(* Instances of ErasureRequest for TLC.                                    *)
(***************************************************************************)
EXTENDS ErasureRequest, MCAlphabet

Postcode == <<"A", "1", "2", " ", "2", "A", "B">>
OldPostcode == <<"B", "1", "2", " ", "2", "A", "B">>
Address == <<"b", "a", " ", "1">>

Alice == Name(<<"A", "a">>, <<"B", "a", "b", "a", "b">>, Address, Postcode)

\* Before she moved.
AliceBefore == [Alice EXCEPT !.postcode = OldPostcode]

MCIdentities == {Alice, AliceBefore}

\* A letter of the surname wrong, and all in another format.
Typo == Name(<<"A", "A">>, <<"b", "a", "b", "a", "a">>, <<"1", " ", "a">>,
             <<"a", "1", "2", "2", "a", "b">>)

\* An initial for a forename.
Initial == [Alice EXCEPT !.given_name = <<"A">>]

\* Two letters of five wrong, 35 * 2 / 5 = 14: exactly at the threshold.
Tie == [Alice EXCEPT !.family_name = <<"b", "b", "a", "a", "b">>]

\* Another person, one letter from her surname, at another address.
Stranger == Name(<<"A", "b">>, <<"B", "a", "b", "a", "a">>, <<"2">>, Postcode)

Nobody == Name(<<"b">>, <<"a">>, <<"2">>, OldPostcode)

MCRecords == <<Typo, Initial, Tie, Stranger, AliceBefore, Nobody>>

===============================================================================
