----------------------------- MODULE MCHexName -----------------------------
(***************************************************************************)
(* Instances of HexName for TLC: names of two bytes.                       *)
(***************************************************************************)
EXTENDS HexName

\* The first and last digits of each kind, and a letter that is none.
Chars == {"0", "9", "a", "F", "g"}

\* Every string of the length of a name, the empty one, one that is a
\* character short and one with characters behind the name.
MCLookups == [1..4 -> Chars] \cup {<<>>, <<"0", "9", "a">>, <<"9", "0", "a", "0", "g", "9">>}

\* Names, two of them one name, one with characters behind it.
MCHexNames == {<<"0", "9", "a", "F">>, <<"0", "9", "A", "f">>, <<"9", "0", "0", "a", "g">>,
               <<"9", "0", "A", "0">>, <<"a", "a", "0", "0">>, <<"F", "9", "9", "9">>}
=============================================================================
