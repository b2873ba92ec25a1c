---------------------------- MODULE MCDictionary ----------------------------
(***************************************************************************)
(* Instances of Dictionary for TLC.                                        *)
(***************************************************************************)
EXTENDS Dictionary, TLC

\* Keys of one to three characters, an empty value and one of four.
MCKeySize == <<2, 4, 2, 3>>
MCValues == {"", "long"}
MCValueSize == ("" :> 1) @@ [long |-> 5]

\* Keys 1 and 4 have the same bits in the filter, and 3 a part of theirs;
\* the additions of key 3 wrap.
MCHash == <<3, 5, 3, 3>>
MCStep == <<4, 1, 8, 4>>

\* What lies behind the entries: NULs; text in which keys 3 and 4 are where
\* values are looked for, or too far; key 4 as the second of the keys, as a
\* table of 97 blocks has "a" for the first.
Text(d, keys, n) == d :> [spells |-> keys, size |-> n]
Nuls == [d \in 0..9 |-> [spells |-> {}, size |-> 1]]
MCTails ==
  {Nuls,
   Text(0, {}, 2) @@ Text(2, {4}, 3) @@ Text(5, {}, 2) @@ Text(7, {3}, 2) @@ Text(9, {4}, 3) @@ Nuls,
   Text(2, {4}, 3) @@ Nuls}

\* The same for the smaller chunks.
MCShortTails == {[d \in 0..5 |-> Nuls[d]]}
=============================================================================
