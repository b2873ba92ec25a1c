----------------------------- MODULE SortSearch -----------------------------
(***************************************************************************)
(* What the writers and readers take from GLib and the C library to order  *)
(* records and to find them again: g_array_sort() and bsearch().           *)
(***************************************************************************)
EXTENDS Integers, Sequences

\* Sorting a sequence of n elements: its result lists element p[i] at i.
Reorders(n) == {p \in [1..n -> 1..n] : \A i, j \in 1..n : i # j => p[i] # p[j]}

\* g_array_sort: ascending in key, and stable.
SortedBy(n, key) ==
  {p \in Reorders(n) : \A i, j \in 1..n : i < j =>
      key[p[i]] < key[p[j]] \/ (key[p[i]] = key[p[j]] /\ p[i] < p[j])}

Reordered(s, p) == [i \in 1..Len(s) |-> s[p[i]]]

\* bsearch() over n items; compar[i] is how the key compares with the i-th.
\* The result is empty, or the index of an item that is equal to the key.
bsearch(n, compar) ==
  LET go[lu \in (0..n) \X (0..n)] ==
        LET l == lu[1]  u == lu[2]  idx == (l + u) \div 2
        IN  IF l >= u THEN {}
            ELSE IF compar[idx + 1] = 0 THEN {idx + 1}
            ELSE IF compar[idx + 1] < 0 THEN go[<<l, idx>>]
            ELSE go[<<idx + 1, u>>]
  IN  go[<<0, n>>]
=============================================================================
