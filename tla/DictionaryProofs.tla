-------------------------- MODULE DictionaryProofs --------------------------
(***************************************************************************)
(* What the writer of a dictionary and its Bloom filter promise the        *)
(* reader, for all keys, hashes, sizes and numbers of entries.             *)
(***************************************************************************)
EXTENDS Dictionary, SearchProofs

\* The entries, their number and their order, up to the header.
EntriesOK ==
  /\ n_entries_total \in Nat
  /\ entries \in Seq(Entry) /\ offset \in Nat
  /\ entries # <<>> => n_entries_total > 0

Ordered == \A i, j \in 1..Len(entries) : i < j => entries[i].key <= entries[j].key

Sealed ==
  /\ header => ~Writing
  /\ ~Writing => Complete
  /\ lookup # Closed => header

\* Appending an entry.
LEMMA AppendEntry ==
  ASSUME NEW S, NEW s \in Seq(S), NEW e \in S
  PROVE  /\ Append(s, e) \in Seq(S)
         /\ Len(Append(s, e)) = Len(s) + 1
         /\ \A i \in 1..Len(s) : Append(s, e)[i] = s[i]
         /\ Append(s, e)[Len(s) + 1] = e
         /\ Append(s, e) # <<>>
  OBVIOUS

\* Only AddEntry changes the entries, and what the Bloom filter has.
LEMMA OtherSteps ==
  ASSUME [Next]_vars
  PROVE  \/ \E k \in Keys, v \in Values : AddEntry(k, v)
         \/ UNCHANGED <<n_entries_total, entries, offset, bits>>
<1>1. CASE FinishTable
  BY <1>1 DEF FinishTable
<1>2. CASE FinishHeader
  BY <1>2 DEF FinishHeader
<1>3. CASE Open
  BY <1>3 DEF Open, written
<1>4. CASE \E k \in Keys : Lookup(k)
  BY <1>4 DEF Lookup, written
<1>5. CASE LookupStep
  BY <1>5 DEF LookupStep, Bisect, FoundBlock, ReadChunk, ScanEntry, ScanBehind, ReadValue, written
<1>6. CASE UNCHANGED vars
  BY <1>6 DEF vars, written
<1>7. QED
  BY <1>1, <1>2, <1>3, <1>4, <1>5, <1>6 DEF Next

\* The entries keep their types and their order: add_entry refuses a key
\* that is less than the last one, and the last one is the greatest.
LEMMA EntriesInitNext ==
  /\ Init => EntriesOK /\ Ordered
  /\ EntriesOK /\ Ordered /\ [Next]_vars => EntriesOK' /\ Ordered'
<1>1. Init => EntriesOK /\ Ordered
  BY CountsAssumption DEF Init, EntriesOK, Ordered, HEADER_SIZE
<1>2. ASSUME EntriesOK, Ordered, [Next]_vars
      PROVE  EntriesOK' /\ Ordered'
  <2>1. CASE UNCHANGED <<n_entries_total, entries, offset, bits>>
    BY <1>2, <2>1 DEF EntriesOK, Ordered
  <2>2. ASSUME NEW k \in Keys, NEW v \in Values, AddEntry(k, v)
        PROVE  EntriesOK' /\ Ordered'
    <3> DEFINE e == [key |-> k, value |-> v, offs |-> offset]
    <3>1. e.key = k /\ entries' = Append(entries, e) /\ n_entries_total' = n_entries_total
      BY <2>2 DEF AddEntry
    <3>2. e \in Entry
      BY <1>2, <2>2 DEF Entry, EntriesOK
    <3>3. /\ entries' \in Seq(Entry) /\ Len(entries') = Len(entries) + 1
          /\ \A i \in 1..Len(entries) : entries'[i] = entries[i]
          /\ entries'[Len(entries) + 1] = e
          /\ entries' # <<>>
      BY <1>2, <3>1, <3>2, AppendEntry DEF EntriesOK
    <3>4. offset' \in Nat
      BY <1>2, <2>2, KeysAssumption, ValuesAssumption DEF EntriesOK, AddEntry
    <3>5. EntriesOK'
      BY <1>2, <2>2, <3>1, <3>3, <3>4 DEF EntriesOK, AddEntry
    <3> HIDE DEF e
    <3>6. Len(entries) \in Nat /\ \A n \in 1..Len(entries) : entries[n].key \in Nat
      <4>1. \A x \in Entry : x.key \in Nat
        BY KeysAssumption DEF Entry
      <4>2. \A n \in 1..Len(entries) : entries[n] \in Entry
        BY <1>2 DEF EntriesOK
      <4>3. QED
        BY <1>2, <4>1, <4>2 DEF EntriesOK
    <3>7. ASSUME NEW i \in 1..Len(entries'), NEW j \in 1..Len(entries'), i < j
          PROVE  entries'[i].key <= entries'[j].key
      <4>1. i \in 1..Len(entries)
        BY <3>3, <3>6, <3>7
      <4>2. CASE j \in 1..Len(entries)
        BY <1>2, <3>3, <3>7, <4>1, <4>2 DEF Ordered
      <4>3. CASE j = Len(entries) + 1
        <5>1. Len(entries) \in 1..Len(entries) /\ entries # <<>>
          BY <1>2, <3>6, <4>1 DEF EntriesOK
        <5>2. entries[i].key <= entries[Len(entries)].key
          <6>1. CASE i = Len(entries)
            BY <3>6, <4>1, <6>1
          <6>2. CASE i < Len(entries)
            BY <1>2, <4>1, <5>1, <6>2 DEF Ordered
          <6>3. QED
            BY <3>6, <4>1, <6>1, <6>2
        <5>3. k >= entries[Len(entries)].key /\ k \in Nat
          BY <2>2, <5>1, KeysAssumption DEF AddEntry
        <5>4. entries'[i].key = entries[i].key /\ entries'[j].key = k
          BY <3>1, <3>3, <4>1, <4>3
        <5>5. QED
          BY <3>6, <4>1, <5>1, <5>2, <5>3, <5>4
      <4>4. QED
        BY <3>3, <3>6, <3>7, <4>2, <4>3
    <3>8. QED
      BY <3>5, <3>7 DEF Ordered
  <2>3. QED
    BY <1>2, <2>1, <2>2, OtherSteps
<1>3. QED
  BY <1>1, <1>2

\* A file with a header is complete, and nothing is added to it any more.
LEMMA SealedInitNext ==
  /\ Init => Sealed
  /\ Sealed /\ [Next]_vars => Sealed'
<1>1. Init => Sealed
  BY DEF Init, Sealed, Writing
<1>2. ASSUME Sealed, [Next]_vars
      PROVE  Sealed'
  <2>1. ASSUME NEW k \in Keys, NEW v \in Values, AddEntry(k, v)
        PROVE  Sealed'
    BY <1>2, <2>1 DEF Sealed, AddEntry, Writing
  <2>2. CASE FinishTable
    <3>1. Complete' /\ Complete /\ ~header' /\ lookup' = Closed /\ lookup = Closed
      BY <1>2, <2>2 DEF Sealed, FinishTable, Complete, Writing
    <3>2. QED
      BY <3>1 DEF Sealed
  <2>3. CASE FinishHeader
    BY <1>2, <2>3 DEF Sealed, FinishHeader, Complete, Writing
  <2>4. CASE Open
    BY <1>2, <2>4 DEF Sealed, Open, written, Complete, Writing
  <2>5. ASSUME lookup # Closed, UNCHANGED written
        PROVE  Sealed'
    BY <1>2, <2>5 DEF Sealed, written, Complete, Writing
  <2>6. CASE \E k \in Keys : Lookup(k)
    BY <2>5, <2>6 DEF Lookup, Closed
  <2>7. CASE LookupStep
    BY <2>5, <2>7 DEF LookupStep, Bisect, FoundBlock, ReadChunk, ScanEntry, ScanBehind, ReadValue, Closed
  <2>8. CASE UNCHANGED vars
    BY <1>2, <2>8 DEF Sealed, vars, written, Complete, Writing
  <2>9. QED
    BY <1>2, <2>1, <2>2, <2>3, <2>4, <2>6, <2>7, <2>8 DEF Next
<1>3. QED
  BY <1>1, <1>2

\* A file that can be opened has the number of entries its writer was
\* created for, in order: the bisection and the scan may rely on it.
THEOREM OpenedIsWhole == Spec => []OnlyWhole
<1>1. EntriesOK /\ Ordered /\ Sealed => OnlyWhole
  BY DEF Ordered, Sealed, OnlyWhole, Complete
<1>2. QED
  BY <1>1, EntriesInitNext, SealedInitNext, PTL DEF Spec

\* A Bloom filter has no false negatives: whatever was added is found, in
\* filters of every size and with any number of hashes of any value.
THEOREM BloomFilterSound == Spec => []NoFalseNegatives
<1>1. Init => NoFalseNegatives
  BY DEF Init, NoFalseNegatives
<1>2. ASSUME EntriesOK, NoFalseNegatives, [Next]_vars
      PROVE  NoFalseNegatives'
  <2>1. CASE UNCHANGED <<n_entries_total, entries, offset, bits>>
    BY <1>2, <2>1 DEF NoFalseNegatives, bloom_filter_test, hashes, n_bits
  <2>2. ASSUME NEW k \in Keys, NEW v \in Values, AddEntry(k, v)
        PROVE  NoFalseNegatives'
    <3> DEFINE e == [key |-> k, value |-> v, offs |-> offset]
    <3>1. e.key = k /\ e \in Entry /\ entries' = Append(entries, e)
      BY <1>2, <2>2 DEF AddEntry, Entry, EntriesOK
    <3>2. /\ Len(entries') = Len(entries) + 1 /\ entries'[Len(entries) + 1] = e
          /\ \A i \in 1..Len(entries) : entries'[i] = entries[i]
      BY <1>2, <3>1, AppendEntry DEF EntriesOK
    <3>3. n_bits' = n_bits /\ n_bits # 0 /\ \A key : hashes(key)' = hashes(key)
      BY <1>2, <2>2, BloomAssumption DEF AddEntry, EntriesOK, n_bits, hashes
    <3>4. bits' = bits \cup hashes(k)
      BY <2>2, <3>3 DEF AddEntry, bloom_filter_add
    <3> HIDE DEF e
    <3>5. ASSUME NEW i \in 1..Len(entries')
          PROVE  bloom_filter_test(bits, entries[i].key)'
      <4>1. CASE i \in 1..Len(entries)
        BY <1>2, <3>2, <3>3, <3>4, <4>1 DEF NoFalseNegatives, bloom_filter_test
      <4>2. CASE i = Len(entries) + 1
        BY <3>1, <3>2, <3>3, <3>4, <4>2 DEF bloom_filter_test
      <4>3. QED
        BY <1>2, <3>2, <3>5, <4>1, <4>2 DEF EntriesOK
    <3>6. QED
      BY <3>5 DEF NoFalseNegatives
  <2>3. QED
    BY <1>2, <2>1, <2>2, OtherSteps
<1>3. QED
  BY <1>1, <1>2, EntriesInitNext, PTL DEF Spec

----------------------------------------------------------------------------
\* The length of a block and the number of blocks.

\* ceil (sqrt (n)) is well-defined.
LEMMA BlockLength ==
  ASSUME NEW n \in Nat
  PROVE  block_length(n) \in Nat /\ (n > 0 => block_length(n) > 0)
<1> DEFINE T == {k \in 0..n : k * k >= n}
<1>1. n \in T
  <2>1. n * n >= n
    OBVIOUS
  <2> QED
    BY <2>1
<1>2. PICK k \in T : \A m \in T : k <= m
  <2>1. T \in SUBSET Nat
    OBVIOUS
  <2> HIDE DEF T
  <2> QED
    BY <1>1, <2>1, LeastNatural
<1>3. k \in 0..n /\ k * k >= n /\ \A j \in 0..k - 1 : j * j < n
  BY <1>2
<1>4. block_length(n) \in 0..n /\ block_length(n) * block_length(n) >= n
  BY <1>3 DEF block_length
<1> QED
  BY <1>4

\* Division by L, from the multiples of L around a number.
LEMMA MultiplesOrdered ==
  ASSUME NEW L \in Nat \ {0}, NEW a \in Int, NEW b \in Int
  PROVE  /\ a < b => a * L + L <= b * L
         /\ a * L < b * L => a < b
<1>1. a < b => a * L + L <= b * L
  <2> SUFFICES ASSUME a < b
               PROVE  a * L + L <= b * L
    OBVIOUS
  <2>1. PICK d \in Nat : b = a + 1 + d
    <3>1. b - a - 1 \in Nat /\ b = a + 1 + (b - a - 1)
      OBVIOUS
    <3> QED
      BY <3>1
  <2>2. b * L = a * L + L + d * L /\ d * L >= 0
    BY <2>1
  <2> QED
    BY <2>2
<1>2. b < a => b * L + L <= a * L
  <2> SUFFICES ASSUME b < a
               PROVE  b * L + L <= a * L
    OBVIOUS
  <2>1. PICK d \in Nat : a = b + 1 + d
    <3>1. a - b - 1 \in Nat /\ a = b + 1 + (a - b - 1)
      OBVIOUS
    <3> QED
      BY <3>1
  <2>2. a * L = b * L + L + d * L /\ d * L >= 0
    BY <2>1
  <2> QED
    BY <2>2
<1> QED
  BY <1>1, <1>2

LEMMA Division ==
  ASSUME NEW L \in Nat \ {0}, NEW n \in Nat, NEW k \in Nat, (k - 1) * L < n, n <= k * L
  PROVE  /\ n % L = 0 <=> n = k * L
         /\ (n + L - 1) \div L = k
<1>1. /\ n = L * (n \div L) + (n % L) /\ n % L \in 0..L - 1 /\ n \div L \in Nat
  OBVIOUS
<1>2. n % L = 0 <=> n = k * L
  <2>1. ASSUME n % L = 0
        PROVE  n = k * L
    <3> DEFINE q == n \div L
    <3>1. q \in Nat /\ n = q * L
      BY <1>1, <2>1
    <3> HIDE DEF q
    <3>2. k - 1 < q
      BY <3>1, MultiplesOrdered
    <3>3. ~(k < q)
      BY <3>1, MultiplesOrdered
    <3> QED
      BY <3>1, <3>2, <3>3
  <2>2. ASSUME n = k * L
        PROVE  n % L = 0
    BY <2>2
  <2> QED
    BY <2>1, <2>2
<1>3. (n + L - 1) \div L = k
  <2> DEFINE m == n + L - 1
             q == m \div L
  <2>1. q \in Int /\ m \in Nat /\ m >= q * L /\ m < q * L + L
    OBVIOUS
  <2>2. k * L <= m /\ m < k * L + L
    BY MultiplesOrdered
  <2> HIDE DEF q, m
  <2>3. ~(q < k) /\ ~(k < q)
    BY <2>1, <2>2, MultiplesOrdered
  <2> QED
    BY <2>1, <2>3 DEF q, m
<1> QED
  BY <1>2, <1>3


----------------------------------------------------------------------------
\* Where the i-th entry is, or would be if there were one more.
Position(i) == IF i \in 1..Len(entries) THEN entries[i].offs ELSE offset

\* The entries lie one behind the other.
Adjacent ==
  /\ Position(1) = HEADER_SIZE
  /\ \A i \in 1..Len(entries) :
       Position(i + 1) = entries[i].offs + KeySize[entries[i].key] + ValueSize[entries[i].value]
  /\ \A i, j \in 1..Len(entries) + 1 : i < j => Position(i) < Position(j)

LENGTH == block_length(n_entries_total)
BLOCKS == n_blocks(n_entries_total)

\* The first entry of the j-th block.
First(j) == (j - 1) * LENGTH + 1

\* The entries are those of k blocks, of which the last one may be shorter.
Started(k) ==
  /\ \A j \in 1..k : First(j) \in 1..Len(entries) /\ entries[First(j)].offs = offsets[j]
  /\ Len(entries) <= k * LENGTH

\* The offsets of the blocks, and the table once it is there.
Divided ==
  /\ offsets \in Seq(Nat)
  /\ Writing => Started(Len(offsets))
  /\ ~Writing => /\ Len(offsets) = BLOCKS + 1
                 /\ Started(BLOCKS)
                 /\ offsets[BLOCKS + 1] = offset
                 /\ table = {[i \in 1..BLOCKS |-> BlockEntry(offsets, i)]}

LEMMA OtherLayoutSteps ==
  ASSUME [Next]_vars
  PROVE  \/ \E k \in Keys, v \in Values : AddEntry(k, v)
         \/ FinishTable
         \/ UNCHANGED <<n_entries_total, entries, offset, offsets, table>>
<1>1. CASE FinishHeader
  BY <1>1 DEF FinishHeader
<1>2. CASE Open
  BY <1>2 DEF Open, written
<1>3. CASE \E k \in Keys : Lookup(k)
  BY <1>3 DEF Lookup, written
<1>4. CASE LookupStep
  BY <1>4 DEF LookupStep, Bisect, FoundBlock, ReadChunk, ScanEntry, ScanBehind, ReadValue, written
<1>5. CASE UNCHANGED vars
  BY <1>5 DEF vars, written
<1>6. QED
  BY <1>1, <1>2, <1>3, <1>4, <1>5 DEF Next

LEMMA PositionType ==
  ASSUME EntriesOK
  PROVE  /\ Len(entries) \in Nat
         /\ \A i \in 1..Len(entries) : entries[i] \in Entry
         /\ \A i : Position(i) \in Nat
<1>1. Len(entries) \in Nat /\ \A i \in 1..Len(entries) : entries[i] \in Entry
  BY DEF EntriesOK
<1>2. \A x \in Entry : x.offs \in Nat
  BY DEF Entry
<1> QED
  BY <1>1, <1>2 DEF EntriesOK, Position

LEMMA LayoutInit == Init => Adjacent /\ Divided
<1> SUFFICES ASSUME Init
             PROVE  Adjacent /\ Divided
  OBVIOUS
<1>1. entries = <<>> /\ offset = HEADER_SIZE /\ offsets = <<>> /\ Writing /\ Len(entries) = 0
  BY DEF Init, Writing
<1>2. Adjacent
  BY <1>1 DEF Adjacent, Position, HEADER_SIZE
<1>3. LENGTH \in Nat
  BY BlockLength, CountsAssumption DEF Init, LENGTH
<1>4. Divided
  BY <1>1, <1>3 DEF Divided, Started
<1> QED
  BY <1>2, <1>4

\* add_entry starts a block after every LENGTH entries.
LEMMA AddEntryLayout ==
  ASSUME EntriesOK, Adjacent, Divided, NEW key \in Keys, NEW value \in Values, AddEntry(key, value)
  PROVE  Adjacent' /\ Divided'
<1> SUFFICES ASSUME NEW n, n = Len(entries), NEW k, k = Len(offsets)
             PROVE  Adjacent' /\ Divided'
  OBVIOUS
<1> DEFINE e == [key |-> key, value |-> value, offs |-> offset]
<1>1. /\ e \in Entry /\ entries' = Append(entries, e) /\ e.offs = offset
      /\ offset' = offset + KeySize[e.key] + ValueSize[e.value]
      /\ KeySize[e.key] \in Nat \ {0} /\ ValueSize[e.value] \in Nat \ {0}
  BY KeysAssumption, ValuesAssumption DEF AddEntry, EntriesOK, Entry
<1> HIDE DEF e
<1>2. /\ entries' \in Seq(Entry) /\ Len(entries') = n + 1
      /\ \A i \in 1..n : entries'[i] = entries[i]
      /\ entries'[n + 1] = e
  BY <1>1, AppendEntry DEF EntriesOK
<1>3. n \in Nat /\ offset \in Nat /\ \A i : Position(i) \in Nat
  BY PositionType DEF EntriesOK
<1>4. \A i \in 1..n + 1 : Position(i)' = Position(i)
  BY <1>1, <1>2, <1>3 DEF Position
<1>5. Position(n + 2)' = offset' /\ Position(n + 1) = offset
  BY <1>2, <1>3 DEF Position
<1>6. Adjacent'
  <2>1. Position(1)' = HEADER_SIZE
    BY <1>3, <1>4 DEF Adjacent, HEADER_SIZE
  <2>2. ASSUME NEW i \in 1..n + 1
        PROVE  Position(i + 1)' = entries'[i].offs + KeySize[entries'[i].key] + ValueSize[entries'[i].value]
    <3>1. CASE i \in 1..n
      <4>1. i + 1 \in 1..n + 1
        BY <1>3, <3>1
      <4>2. Position(i + 1)' = Position(i + 1)
        BY <1>4, <4>1
      <4> QED
        BY <1>2, <3>1, <4>2 DEF Adjacent
    <3>2. CASE i = n + 1
      BY <1>1, <1>2, <1>3, <1>5, <3>2
    <3> QED
      BY <1>3, <3>1, <3>2
  <2>3. ASSUME NEW i \in 1..n + 2, NEW j \in 1..n + 2, i < j
        PROVE  Position(i)' < Position(j)'
    <3>1. CASE j \in 1..n + 1
      BY <1>3, <1>4, <2>3, <3>1 DEF Adjacent
    <3>2. CASE j = n + 2
      <4>1. i \in 1..n + 1 /\ n + 1 \in 1..n + 1
        BY <1>3, <2>3, <3>2
      <4>2. Position(i) <= Position(n + 1)
        <5>1. CASE i = n + 1
          BY <1>3, <5>1
        <5>2. CASE i < n + 1
          BY <1>3, <4>1, <5>2 DEF Adjacent
        <5> QED
          BY <1>3, <4>1, <5>1, <5>2
      <4>3. offset < offset'
        BY <1>1, <1>3
      <4> QED
        BY <1>1, <1>3, <1>4, <1>5, <3>2, <4>1, <4>2, <4>3
    <3> QED
      BY <1>3, <2>3, <3>1, <3>2
  <2>4. n + 1 + 1 = n + 2
    BY <1>3
  <2> QED
    BY <1>2, <2>1, <2>2, <2>3, <2>4 DEF Adjacent
<1>7. /\ Writing /\ Writing' /\ n_entries_total \in Nat /\ n_entries_total > 0
      /\ n_entries_total' = n_entries_total
  BY DEF AddEntry, Writing, EntriesOK
<1>8. LENGTH \in Nat \ {0} /\ LENGTH' = LENGTH
  <2>1. block_length(n_entries_total) \in Nat /\ block_length(n_entries_total) > 0
    BY <1>7, BlockLength
  <2>2. LENGTH' = LENGTH
    BY <1>7 DEF LENGTH
  <2> QED
    BY <2>1, <2>2 DEF LENGTH
<1>9. k \in Nat /\ Started(k) /\ offsets \in Seq(Nat)
  BY <1>7 DEF Divided
<1>10. (k - 1) * LENGTH < n /\ n <= k * LENGTH
  <2>1. CASE k = 0
    BY <1>3, <1>8, <1>9, <2>1 DEF Started
  <2>2. CASE k > 0
    BY <1>3, <1>8, <1>9, <2>2 DEF Started, First
  <2> QED
    BY <1>9, <2>1, <2>2
<1>11. StartsBlock(n) <=> n = k * LENGTH
  BY <1>3, <1>8, <1>9, <1>10, Division DEF StartsBlock, LENGTH
<1>12. \A j \in 1..k : First(j)' \in 1..n + 1 /\ entries'[First(j)'].offs = offsets[j]
  <2> SUFFICES ASSUME NEW j \in 1..k
               PROVE  First(j)' \in 1..n + 1 /\ entries'[First(j)'].offs = offsets[j]
    OBVIOUS
  <2>1. First(j)' = First(j)
    BY <1>8 DEF First
  <2>2. First(j) \in 1..n /\ entries[First(j)].offs = offsets[j]
    BY <1>9 DEF Started
  <2> QED
    BY <1>2, <1>3, <2>1, <2>2
<1>13. Divided'
  <2>1. CASE StartsBlock(n)
    <3>1. offsets' = Append(offsets, offset)
      BY <2>1 DEF AddEntry
    <3>2. /\ offsets' \in Seq(Nat) /\ Len(offsets') = k + 1
          /\ \A j \in 1..k : offsets'[j] = offsets[j]
          /\ offsets'[k + 1] = offset
      BY <1>3, <1>9, <3>1, AppendEntry
    <3>3. First(k + 1)' = n + 1
      BY <1>3, <1>8, <1>9, <1>11, <2>1 DEF First
    <3>4. n + 1 <= (k + 1) * LENGTH
      <4>1. (k + 1) * LENGTH = k * LENGTH + LENGTH
        BY <1>8, <1>9
      <4> QED
        BY <1>3, <1>8, <1>9, <1>11, <2>1, <4>1
    <3>5. Started(k + 1)'
      <4>1. ASSUME NEW j \in 1..k + 1
            PROVE  First(j)' \in 1..n + 1 /\ entries'[First(j)'].offs = offsets'[j]
        <5>1. CASE j \in 1..k
          BY <1>12, <3>2, <5>1
        <5>2. CASE j = k + 1
          BY <1>1, <1>2, <1>3, <3>2, <3>3, <5>2
        <5> QED
          BY <1>9, <5>1, <5>2
      <4> QED
        BY <1>2, <1>8, <3>4, <4>1 DEF Started
    <3> QED
      BY <1>7, <3>2, <3>5 DEF Divided
  <2>2. CASE ~StartsBlock(n)
    <3>1. offsets' = offsets
      BY <2>2 DEF AddEntry
    <3>2. n + 1 <= k * LENGTH
      <4>1. k * LENGTH \in Nat
        BY <1>8, <1>9
      <4> QED
        BY <1>3, <1>10, <1>11, <2>2, <4>1
    <3>3. Started(k)'
      BY <1>2, <1>8, <1>12, <3>1, <3>2 DEF Started
    <3> QED
      BY <1>7, <1>9, <3>1, <3>3 DEF Divided
  <2> QED
    BY <2>1, <2>2
<1> QED
  BY <1>6, <1>13

\* The offsets of as many entries as were announced are those of BLOCKS
\* blocks: what finish asserts.
LEMMA OffsetsComplete ==
  ASSUME EntriesOK, Divided, Writing, Complete
  PROVE  Len(offsets) = BLOCKS /\ LENGTH \in Nat
<1> SUFFICES ASSUME NEW n, n = Len(entries), NEW k, k = Len(offsets)
             PROVE  k = BLOCKS /\ LENGTH \in Nat
  OBVIOUS
<1>1. /\ n \in Nat /\ n_entries_total = n /\ LENGTH \in Nat /\ (n > 0 => LENGTH > 0)
      /\ k \in Nat /\ Started(k)
  BY BlockLength DEF EntriesOK, Complete, LENGTH, Divided
<1>2. CASE n = 0
  <2>1. k = 0
    BY <1>1, <1>2 DEF Started
  <2> QED
    BY <1>1, <1>2, <2>1 DEF BLOCKS, n_blocks
<1>3. CASE n > 0
  <2>1. n <= k * LENGTH /\ k > 0
    BY <1>1, <1>3 DEF Started
  <2>2. First(k) <= n
    BY <1>1, <2>1 DEF Started
  <2>3. (k - 1) * LENGTH < n
    <3>1. (k - 1) * LENGTH \in Int
      BY <1>1
    <3> QED
      BY <1>1, <2>2, <3>1 DEF First
  <2>4. (n + LENGTH - 1) \div LENGTH = k
    <3>1. LENGTH \in Nat \ {0}
      BY <1>1, <1>3
    <3> HIDE DEF LENGTH
    <3> QED
      BY <1>1, <2>1, <2>3, <3>1, Division
  <2> QED
    BY <1>1, <1>3, <2>4 DEF BLOCKS, n_blocks, LENGTH
<1> QED
  BY <1>1, <1>2, <1>3

LEMMA FinishTableLayout ==
  ASSUME EntriesOK, Adjacent, Divided, FinishTable
  PROVE  Adjacent' /\ Divided'
<1> SUFFICES ASSUME NEW k, k = BLOCKS
             PROVE  Adjacent' /\ Divided'
  OBVIOUS
<1>1. /\ Writing /\ Complete /\ ~Writing'
      /\ UNCHANGED <<n_entries_total, entries, offset>>
      /\ offsets' = Append(offsets, offset)
      /\ table' = {[i \in 1..k |-> BlockEntry(offsets', i)]}
  BY DEF FinishTable, Writing, BLOCKS
<1>2. k \in Nat /\ Len(offsets) = k /\ LENGTH \in Nat /\ offsets \in Seq(Nat) /\ Started(k)
  BY <1>1, OffsetsComplete DEF Divided
<1>3. /\ offsets' \in Seq(Nat) /\ Len(offsets') = k + 1
      /\ \A j \in 1..k : offsets'[j] = offsets[j]
      /\ offsets'[k + 1] = offset
  BY <1>1, <1>2, AppendEntry DEF EntriesOK
<1>4. BLOCKS' = k /\ LENGTH' = LENGTH
  BY <1>1 DEF BLOCKS, LENGTH
<1>5. Started(k)'
  <2>1. \A j : First(j)' = First(j)
    BY <1>4 DEF First
  <2> QED
    BY <1>1, <1>2, <1>3, <1>4, <2>1 DEF Started
<1>6. table' = {[i \in 1..k |-> BlockEntry(offsets, i)]}'
  BY <1>1
<1>7. Divided'
  BY <1>1, <1>3, <1>4, <1>5, <1>6 DEF Divided
<1>8. Adjacent'
  BY <1>1 DEF Adjacent, Position
<1> QED
  BY <1>7, <1>8

\* What the writer has put in the file so far.
Layout == EntriesOK /\ Ordered /\ Sealed /\ Adjacent /\ Divided

LEMMA LayoutAlways ==
  /\ Init => Layout
  /\ Layout /\ [Next]_vars => Layout'
<1>1. Init => Layout
  BY EntriesInitNext, SealedInitNext, LayoutInit DEF Layout
<1>2. ASSUME Layout, [Next]_vars
      PROVE  Adjacent' /\ Divided'
  <2> USE <1>2 DEF Layout
  <2>1. CASE \E k \in Keys, v \in Values : AddEntry(k, v)
    BY <2>1, AddEntryLayout
  <2>2. CASE FinishTable
    BY <2>2, FinishTableLayout
  <2>3. CASE UNCHANGED <<n_entries_total, entries, offset, offsets, table>>
    <3>1. Adjacent'
      BY <2>3 DEF Adjacent, Position
    <3>2. Divided'
      BY <2>3 DEF Divided, Started, First, LENGTH, BLOCKS, Writing, BlockEntry
    <3> QED
      BY <3>1, <3>2
  <2> QED
    BY <1>2, <2>1, <2>2, <2>3, OtherLayoutSteps
<1>3. Layout /\ [Next]_vars => Layout'
  BY <1>2, EntriesInitNext, SealedInitNext DEF Layout
<1> QED
  BY <1>1, <1>3

\* What the table says of the j-th block: where it starts, and where the next
\* one does.
LEMMA BlocksOfTable ==
  ASSUME Layout, ~Writing
  PROVE  /\ BLOCKS \in Nat /\ Len(blocks) = BLOCKS /\ blocks \in Seq(Block) /\ table = {blocks}
         /\ \A j \in 1..BLOCKS :
              /\ First(j) \in 1..Len(entries)
              /\ blocks[j].offset = entries[First(j)].offs
              /\ blocks[j].offset + blocks[j].length =
                   IF j = BLOCKS THEN offset ELSE entries[First(j + 1)].offs
<1> USE DEF Layout
<1>1. /\ offsets \in Seq(Nat) /\ Len(offsets) = BLOCKS + 1 /\ Started(BLOCKS)
      /\ offsets[BLOCKS + 1] = offset
      /\ table = {[i \in 1..BLOCKS |-> BlockEntry(offsets, i)]}
  BY DEF Divided
<1>2. BLOCKS \in Nat
  <2>1. n_entries_total \in Nat /\ block_length(n_entries_total) \in Nat
    BY BlockLength DEF EntriesOK
  <2>2. CASE n_entries_total = 0
    BY <2>2 DEF BLOCKS, n_blocks
  <2>3. CASE n_entries_total > 0
    <3>1. block_length(n_entries_total) \in Nat \ {0}
      BY <2>1, <2>3, BlockLength
    <3> QED
      BY <2>1, <2>3, <3>1 DEF BLOCKS, n_blocks
  <2> QED
    BY <2>1, <2>2, <2>3
<1>3. blocks = [i \in 1..BLOCKS |-> BlockEntry(offsets, i)]
  BY <1>1 DEF blocks
<1>4. /\ \A j \in 1..BLOCKS + 1 : offsets[j] \in Nat
      /\ \A j \in 1..BLOCKS : First(j) \in 1..Len(entries) /\ offsets[j] = entries[First(j)].offs
      /\ \A j \in 1..BLOCKS : offsets[j + 1] = IF j = BLOCKS THEN offset ELSE entries[First(j + 1)].offs
  <2>1. \A j \in 1..BLOCKS + 1 : offsets[j] \in Nat
    BY <1>1, <1>2
  <2>2. \A j \in 1..BLOCKS : First(j) \in 1..Len(entries) /\ offsets[j] = entries[First(j)].offs
    BY <1>1, <1>2 DEF Started
  <2>3. ASSUME NEW j \in 1..BLOCKS
        PROVE  offsets[j + 1] = IF j = BLOCKS THEN offset ELSE entries[First(j + 1)].offs
    <3>1. CASE j = BLOCKS
      BY <1>1, <3>1
    <3>2. CASE j # BLOCKS
      <4>1. j + 1 \in 1..BLOCKS
        BY <1>2, <3>2
      <4> QED
        BY <2>2, <3>2, <4>1
    <3> QED
      BY <3>1, <3>2
  <2> QED
    BY <2>1, <2>2, <2>3
<1>5. ASSUME NEW j \in 1..BLOCKS
      PROVE  offsets[j] < offsets[j + 1]
  <2>1. First(j) \in 1..Len(entries) /\ offsets[j] = Position(First(j)) /\ Len(entries) \in Nat
    <3>1. First(j) \in 1..Len(entries) /\ offsets[j] = entries[First(j)].offs
      BY <1>4
    <3>2. Len(entries) \in Nat
      BY PositionType
    <3>3. First(j) # Len(entries) + 1
      BY <3>1, <3>2
    <3> QED
      BY <3>1, <3>2, <3>3 DEF Position
  <2>2. CASE j = BLOCKS
    <3>1. offsets[j + 1] = Position(Len(entries) + 1)
      BY <1>4, <2>1, <2>2 DEF Position
    <3> QED
      BY <2>1, <3>1 DEF Adjacent
  <2>3. CASE j < BLOCKS
    <3>1. /\ First(j + 1) \in 1..Len(entries)
          /\ offsets[j + 1] = Position(First(j + 1))
      BY <1>2, <1>4, <2>3 DEF Position
    <3>2. First(j) < First(j + 1)
      <4>1. LENGTH \in Nat \ {0}
        <5>1. n_entries_total \in Nat /\ n_entries_total > 0
          BY <2>1 DEF EntriesOK
        <5> QED
          BY <5>1, BlockLength DEF LENGTH
      <4>2. (j - 1) * LENGTH + LENGTH <= j * LENGTH /\ (j - 1) * LENGTH \in Int /\ j * LENGTH \in Int
        BY <1>2, <4>1, MultiplesOrdered
      <4>3. First(j) = (j - 1) * LENGTH + 1 /\ First(j + 1) = j * LENGTH + 1
        BY <1>2 DEF First
      <4> QED
        BY <4>1, <4>2, <4>3
    <3>3. First(j) \in 1..Len(entries) + 1 /\ First(j + 1) \in 1..Len(entries) + 1
      BY <2>1, <3>1
    <3> QED
      BY <2>1, <3>1, <3>2, <3>3 DEF Adjacent
  <2> QED
    BY <1>2, <2>2, <2>3
<1>6. \A j \in 1..BLOCKS : /\ blocks[j] = BlockEntry(offsets, j)
                           /\ BlockEntry(offsets, j) \in Block
  <2> SUFFICES ASSUME NEW j \in 1..BLOCKS
               PROVE  blocks[j] = BlockEntry(offsets, j) /\ BlockEntry(offsets, j) \in Block
    OBVIOUS
  <2>1. offsets[j] \in Nat /\ offsets[j + 1] \in Nat /\ offsets[j] < offsets[j + 1]
    BY <1>2, <1>4, <1>5
  <2>2. offsets[j + 1] - offsets[j] \in Nat
    BY <2>1
  <2>3. BlockEntry(offsets, j) \in Block
    BY <2>1, <2>2 DEF BlockEntry, Block
  <2> QED
    BY <1>3, <2>3
<1>7. Len(blocks) = BLOCKS /\ blocks \in Seq(Block) /\ table = {blocks}
  <2>1. blocks \in [1..BLOCKS -> Block]
    BY <1>3, <1>6
  <2> QED
    BY <1>1, <1>2, <1>3, <2>1
<1>8. ASSUME NEW j \in 1..BLOCKS
      PROVE  blocks[j].offset = offsets[j] /\ blocks[j].offset + blocks[j].length = offsets[j + 1]
  <2>1. blocks[j].offset = offsets[j] /\ blocks[j].length = offsets[j + 1] - offsets[j]
    <3>1. blocks[j] = BlockEntry(offsets, j)
      BY <1>6
    <3> QED
      BY <3>1 DEF BlockEntry
  <2>2. offsets[j] \in Nat /\ offsets[j + 1] \in Nat
    BY <1>2, <1>4
  <2> QED
    BY <2>1, <2>2
<1> QED
  BY <1>2, <1>4, <1>7, <1>8

\* The assertion in finish holds for every number of entries, and the blocks
\* in the table cover the entries without a gap.
THEOREM BlocksSound == Spec => []BlocksCover
<1>1. ASSUME Layout
      PROVE  BlocksCover
  <2> USE <1>1 DEF Layout
  <2>1. Writing /\ Complete => Len(offsets) = n_blocks(n_entries_total)
    BY OffsetsComplete DEF BLOCKS
  <2>2. ASSUME NEW t \in table
        PROVE  /\ Len(t) > 0 => t[1].offset = HEADER_SIZE
               /\ \A i \in 1..Len(t) :
                    /\ EntryAt(t[i].offset) # {}
                    /\ t[i].offset + t[i].length = IF i = Len(t) THEN offset ELSE t[i + 1].offset
    <3>1. t = blocks /\ ~Writing
      BY BlocksOfTable DEF Writing
    <3>2. /\ BLOCKS \in Nat /\ Len(t) = BLOCKS
          /\ \A j \in 1..BLOCKS :
               /\ First(j) \in 1..Len(entries)
               /\ t[j].offset = entries[First(j)].offs
               /\ t[j].offset + t[j].length =
                    IF j = BLOCKS THEN offset ELSE entries[First(j + 1)].offs
      BY <3>1, BlocksOfTable
    <3>3. Len(t) > 0 => t[1].offset = HEADER_SIZE
      <4>1. First(1) = 1
        BY BlockLength DEF First, LENGTH, EntriesOK
      <4> QED
        BY <3>2, <4>1 DEF Adjacent, Position
    <3>4. ASSUME NEW i \in 1..BLOCKS
          PROVE  EntryAt(t[i].offset) # {}
      BY <3>2 DEF EntryAt
    <3>5. ASSUME NEW i \in 1..BLOCKS
          PROVE  t[i].offset + t[i].length = IF i = BLOCKS THEN offset ELSE t[i + 1].offset
      <4>1. CASE i = BLOCKS
        BY <3>2, <4>1
      <4>2. CASE i # BLOCKS
        <5>1. i + 1 \in 1..BLOCKS
          BY <3>2, <4>2
        <5> QED
          BY <3>2, <4>2, <5>1
      <4> QED
        BY <4>1, <4>2
    <3> QED
      BY <3>2, <3>3, <3>4, <3>5
  <2> QED
    BY <2>1, <2>2 DEF BlocksCover
<1> QED
  BY <1>1, LayoutAlways, PTL DEF Spec

----------------------------------------------------------------------------
\* The bits of a key are natural numbers.
LEMMA HashesType ==
  ASSUME n_bits # 0, NEW key \in Keys
  PROVE  hashes(key) \in SUBSET Nat
<1>0. SUFFICES ASSUME NEW b, b = n_bits, NEW last, last = N_HASHES - 1,
                       NEW first, first = fnv_1a[key] % b
                PROVE  hashes(key) \in SUBSET Nat
  OBVIOUS
<1>1. /\ b \in Nat \ {0} /\ last \in Nat /\ UINT32_MOD \in Nat \ {0}
      /\ fnv_1a[key] \in Nat /\ fnv_1a_b[key] \in Nat
  BY <1>0, BloomAssumption DEF n_bits
<1> DEFINE Next_(v) == ((v + fnv_1a_b[key]) % UINT32_MOD) % b
           Equation(x) == x = [i \in 0..last |-> IF i = 0 THEN first ELSE Next_(x[i - 1])]
           x == CHOOSE x : Equation(x)
<1>2. \A v \in Nat : Next_(v) \in Nat
  BY <1>1
<1>3. first \in Nat
  BY <1>0, <1>1
<1>4. \E y : Equation(y)
  <2> DEFINE step == [i \in 1..last |-> [v \in Nat |-> Next_(v)]]
  <2>1. Steps(Nat, last, step)
    BY <1>2 DEF Steps
  <2> HIDE DEF step
  <2>2. PICK y : Computes(y, Nat, first, last, step)
    <3> HIDE DEF x, Equation, Next_
    <3>1. last \in Nat
      BY <1>1
    <3> QED
      BY <1>3, <2>1, <3>1, RecursionExists
  <2> USE DEF Computes
  <2>3. \A i \in 1..last : y[i] = Next_(y[i - 1])
    <3> SUFFICES ASSUME NEW i \in 1..last
                 PROVE  y[i] = Next_(y[i - 1])
      OBVIOUS
    <3>1. i - 1 \in 0..last
      BY <1>1
    <3>2. y[i - 1] \in Nat /\ step[i] = [v \in Nat |-> Next_(v)]
      BY <2>2, <3>1 DEF step
    <3> QED
      BY <2>2, <3>2
  <2> HIDE DEF Next_
  <2>4. \A i \in 0..last : y[i] = IF i = 0 THEN first ELSE Next_(y[i - 1])
    BY <1>1, <2>2, <2>3
  <2>5. Equation(y)
    BY <2>2, <2>4
  <2> QED
    BY <2>5
<1>5. Equation(x)
  BY <1>4
<1>6. hashes(key) = {x[i] : i \in 0..last}
  BY <1>0 DEF hashes
<1>7. \A i \in 0..last : x[i] \in Nat
  <2> HIDE DEF x, Next_
  <2> DEFINE S == {i \in Nat : i <= last => x[i] \in Nat}
  <2>1. 0 \in S
    BY <1>1, <1>3, <1>5
  <2>2. ASSUME NEW i \in Nat, i \in S
        PROVE  i + 1 \in S
    <3> SUFFICES ASSUME i + 1 <= last
                 PROVE  x[i + 1] \in Nat
      OBVIOUS
    <3>1. i + 1 \in 0..last /\ i + 1 - 1 = i /\ x[i] \in Nat
      BY <1>1, <2>2
    <3>2. x[i + 1] = Next_(x[i])
      <4>1. \A j \in 0..last : x[j] = IF j = 0 THEN first ELSE Next_(x[j - 1])
        BY <1>5
      <4>2. x[i + 1] = IF i + 1 = 0 THEN first ELSE Next_(x[i + 1 - 1])
        BY <3>1, <4>1
      <4> QED
        BY <3>1, <4>2
    <3> QED
      BY <1>2, <3>1, <3>2
  <2>3. Nat \subseteq S
    <3> HIDE DEF S
    <3> QED
      BY <2>1, <2>2, NaturalInduction
  <2> QED
    BY <1>1, <2>3
<1> QED
  BY <1>6, <1>7

----------------------------------------------------------------------------
\* The reader.  What holds of the state l of a lookup, in the file as it is.
Bisecting(l) ==
  l.pc = "bisect" =>
    /\ l.lo \in 0..(l.hi + 1) /\ l.hi < BLOCKS
    /\ \A j \in 1..l.lo : entries[First(j)].key <= l.key
    /\ \A j \in (l.hi + 2)..BLOCKS : entries[First(j)].key > l.key

\* If the key is stored, it is stored in an entry that is still to come: the
\* i-th or a later one, and one before end.
Ahead(key, i, end) ==
  \A m \in 1..Len(entries) : entries[m].key = key =>
    \E n \in i..Len(entries) : entries[n].key = key /\ entries[n].offs < end

\* Behind the entries, where nothing was found: at a string that is taken for
\* a key.
Behind(l) ==
  /\ \A m \in 1..Len(entries) : entries[m].key # l.key
  /\ l.offs >= offset /\ KeyPlace(l.offs - offset)

Scanning(l) ==
  l.pc \in {"chunk", "scan"} =>
    /\ l.start <= offset /\ l.end <= offset
    /\ \/ \E i \in 1..(Len(entries) + 1) : l.offs = Position(i) /\ Ahead(l.key, i, l.end)
       \/ Behind(l)

\* A value is a stored one, or one that lies behind the entries.
Found(l) ==
  l.pc = "value" =>
    \/ \E m \in 1..Len(entries) : entries[m].key = l.key /\ entries[m].value = l.value
    \/ /\ \A m \in 1..Len(entries) : entries[m].key # l.key
       /\ l.value = NoValue /\ Spelt(l.key)

Stored(key) == {entries[i].value : i \in {j \in 1..Len(entries) : entries[j].key = key}}

Answered(l) ==
  l.pc = "done" =>
    IF Stored(l.key) # {} THEN l.result # {} /\ l.result \subseteq Stored(l.key)
    ELSE l.result = {} \/ (l.result = {NoValue} /\ Spelt(l.key))

LookupOK(l) == l \in LookupState /\ Bisecting(l) /\ Scanning(l) /\ Found(l) /\ Answered(l)

\* The records of a lookup's states.
LEMMA LookupFields ==
  ASSUME NEW l \in LookupState
  PROVE  /\ l.pc \in {"closed", "open", "bisect", "chunk", "scan", "value", "done"}
         /\ l.pc = "closed" => l = Closed
         /\ l.pc = "bisect" => /\ l \in [pc: {"bisect"}, key: Keys, lo: Int, hi: Int]
                               /\ l.key \in Keys /\ l.lo \in Int /\ l.hi \in Int
         /\ l.pc \in {"chunk", "scan"} =>
              /\ l \in [pc: {"chunk", "scan"}, key: Keys, start: Nat, offs: Nat, end: Nat]
              /\ l.key \in Keys /\ l.start \in Nat /\ l.offs \in Nat /\ l.end \in Nat
         /\ l.pc = "value" => /\ l \in [pc: {"value"}, key: Keys, value: Values \cup {NoValue}]
                              /\ l.key \in Keys /\ l.value \in Values \cup {NoValue}
         /\ l.pc = "done" => l.key \in Keys
  BY DEF LookupState, Closed

\* A key that is not stored may be answered with nothing.
LEMMA NotStored ==
  ASSUME NEW key \in Keys, \A m \in 1..Len(entries) : entries[m].key # key
  PROVE  LookupOK(Done(key, {}))
<1> DEFINE l == Done(key, {})
<1>1. l.pc = "done" /\ l.key = key /\ l.result = {} /\ l \in LookupState
  BY DEF Done, LookupState
<1> HIDE DEF l
<1>2. Answered(l)
  BY <1>1 DEF Answered, Stored
<1>3. Bisecting(l) /\ Scanning(l) /\ Found(l)
  BY <1>1 DEF Bisecting, Scanning, Found
<1>4. LookupOK(l)
  BY <1>1, <1>2, <1>3 DEF LookupOK
<1> QED
  BY <1>4 DEF l

\* The first entries of the blocks, and their keys, are in order.
LEMMA BlocksOrdered ==
  ASSUME Layout, ~Writing, NEW i \in 1..BLOCKS, NEW j \in 1..BLOCKS, i < j
  PROVE  /\ First(i) < First(j)
         /\ entries[First(i)].key <= entries[First(j)].key
<1>1. BLOCKS \in Nat /\ First(i) \in 1..Len(entries) /\ First(j) \in 1..Len(entries)
  BY BlocksOfTable
<1>2. LENGTH \in Nat \ {0}
  <2>1. n_entries_total \in Nat /\ n_entries_total > 0
    BY <1>1 DEF Layout, EntriesOK
  <2> QED
    BY <2>1, BlockLength DEF LENGTH
<1>3. First(i) < First(j)
  <2>1. /\ (i - 1) * LENGTH + LENGTH <= (j - 1) * LENGTH
        /\ (i - 1) * LENGTH \in Int /\ (j - 1) * LENGTH \in Int
    BY <1>1, <1>2, MultiplesOrdered
  <2> QED
    BY <1>2, <2>1 DEF First
<1> QED
  BY <1>1, <1>3 DEF Layout, Ordered

\* An entry is known by its offset.
LEMMA PositionsDiffer ==
  ASSUME Layout
  PROVE  /\ Len(entries) \in Nat
         /\ \A i \in 1..Len(entries) : entries[i].offs = Position(i) /\ entries[i] \in Entry
         /\ \A i \in 1..(Len(entries) + 1) : Position(i) \in Nat
         /\ \A i, j \in 1..(Len(entries) + 1) : Position(i) = Position(j) => i = j
         /\ \A i, j \in 1..(Len(entries) + 1) : i < j => Position(i) < Position(j)
<1>1. Len(entries) \in Nat /\ \A i \in 1..Len(entries) : entries[i] \in Entry
  BY PositionType DEF Layout
<1>2. \A i \in 1..(Len(entries) + 1) : Position(i) \in Nat
  BY PositionType DEF Layout
<1>3. \A i, j \in 1..(Len(entries) + 1) : i < j => Position(i) < Position(j)
  BY DEF Layout, Adjacent
<1>4. \A i \in 1..Len(entries) : entries[i].offs = Position(i)
  BY DEF Position
<1>5. ASSUME NEW i \in 1..(Len(entries) + 1), NEW j \in 1..(Len(entries) + 1), Position(i) = Position(j)
      PROVE  i = j
  BY <1>1, <1>2, <1>3, <1>5
<1> QED
  BY <1>1, <1>2, <1>3, <1>4, <1>5

\* The filter's answer is right when it is no, and the bisection starts with
\* all blocks.
LEMMA LookupStarts ==
  ASSUME Layout, ~Writing, NoFalseNegatives, NEW key \in Keys, Lookup(key)
  PROVE  LookupOK(lookup')
<1>1. CASE bloom_filter_test(bits, key)
  <2> SUFFICES ASSUME NEW l, l = lookup'
               PROVE  LookupOK(l)
    OBVIOUS
  <2>1. l = [pc |-> "bisect", key |-> key, lo |-> 0, hi |-> Len(blocks) - 1]
    BY <1>1 DEF Lookup
  <2>2. BLOCKS \in Nat /\ Len(blocks) = BLOCKS
    BY BlocksOfTable
  <2>3. l \in LookupState /\ l.pc = "bisect" /\ l.key = key /\ l.lo = 0 /\ l.hi = BLOCKS - 1
    <3>1. BLOCKS - 1 \in Int /\ 0 \in Int
      BY <2>2
    <3> QED
      BY <2>1, <2>2, <3>1 DEF LookupState
  <2>4. Bisecting(l)
    BY <2>2, <2>3 DEF Bisecting
  <2> QED
    BY <2>3, <2>4 DEF LookupOK, Scanning, Found, Answered
<1>2. CASE ~bloom_filter_test(bits, key)
  <2>1. \A m \in 1..Len(entries) : entries[m].key # key
    BY <1>2 DEF NoFalseNegatives
  <2> QED
    BY <1>2, <2>1, NotStored DEF Lookup
<1> QED
  BY <1>1, <1>2

\* The blocks before lo do not start behind the key, those behind hi do.
LEMMA BisectStep ==
  ASSUME Layout, ~Writing, LookupOK(lookup), Bisect
  PROVE  LookupOK(lookup')
<1> DEFINE mid == (lookup.lo + lookup.hi) \div 2
           key == lookup.key
<1>1. /\ lookup \in [pc: {"bisect"}, key: Keys, lo: Int, hi: Int]
      /\ lookup.lo \in Int /\ lookup.hi \in Int /\ key \in Keys
      /\ lookup.pc = "bisect" /\ lookup.lo <= lookup.hi
  BY LookupFields DEF LookupOK, Bisect
<1>2. /\ BLOCKS \in Nat /\ Len(blocks) = BLOCKS
      /\ \A j \in 1..BLOCKS : First(j) \in 1..Len(entries) /\ blocks[j].offset = entries[First(j)].offs
  BY BlocksOfTable
<1>3. /\ lookup.lo \in 0..(lookup.hi + 1) /\ lookup.hi < BLOCKS
      /\ \A j \in 1..lookup.lo : entries[First(j)].key <= key
      /\ \A j \in (lookup.hi + 2)..BLOCKS : entries[First(j)].key > key
  BY <1>1 DEF LookupOK, Bisecting
<1>4. mid \in Int /\ lookup.lo <= mid /\ mid <= lookup.hi /\ mid + 1 \in 1..BLOCKS
  <2>1. \A a, b \in Int : a <= b => a <= (a + b) \div 2 /\ (a + b) \div 2 <= b /\ (a + b) \div 2 \in Int
    OBVIOUS
  <2>2. mid \in Int /\ lookup.lo <= mid /\ mid <= lookup.hi
    BY <1>1, <2>1
  <2> HIDE DEF mid
  <2> QED
    BY <1>1, <1>2, <1>3, <2>2
<1>5. PICK i \in EntryAt(blocks[mid + 1].offset) :
        lookup' = IF Beyond(entries[i].key, key) THEN [lookup EXCEPT !.hi = mid - 1]
                                                 ELSE [lookup EXCEPT !.lo = mid + 1]
  BY DEF Bisect
<1> HIDE DEF mid
<1>6. i = First(mid + 1)
  <2>1. i \in 1..Len(entries) /\ entries[i].offs = entries[First(mid + 1)].offs
    BY <1>2, <1>4, <1>5 DEF EntryAt
  <2>2. Len(entries) \in Nat /\ First(mid + 1) \in 1..Len(entries)
    BY <1>2, <1>4, PositionsDiffer
  <2>3. Position(i) = Position(First(mid + 1)) /\ i \in 1..(Len(entries) + 1) /\ First(mid + 1) \in 1..(Len(entries) + 1)
    BY <2>1, <2>2, PositionsDiffer
  <2> QED
    BY <2>3, PositionsDiffer
<1>7. /\ key \in Nat
      /\ \A j \in 1..BLOCKS : entries[First(j)].key \in Nat
  <2>1. \A n \in 1..Len(entries) : entries[n].key \in Nat
    <3>1. \A x \in Entry : x.key \in Nat
      BY KeysAssumption DEF Entry
    <3> QED
      BY <3>1, PositionsDiffer
  <2> QED
    BY <1>1, <1>2, <2>1, KeysAssumption
<1> SUFFICES ASSUME NEW l, l = lookup'
             PROVE  LookupOK(l)
  OBVIOUS
<1>8. CASE Beyond(entries[i].key, key)
  <2>1. l = [lookup EXCEPT !.hi = mid - 1]
    BY <1>5, <1>8
  <2>2. l.pc = "bisect" /\ l.key = key /\ l.lo = lookup.lo /\ l.hi = mid - 1 /\ l \in LookupState
    <3>1. mid - 1 \in Int
      BY <1>4
    <3>2. l \in [pc: {"bisect"}, key: Keys, lo: Int, hi: Int]
      BY <1>1, <2>1, <3>1
    <3> QED
      BY <1>1, <2>1, <3>2 DEF LookupState
  <2>3. ASSUME NEW j \in (mid + 1)..BLOCKS
        PROVE  entries[First(j)].key > key
    <3>1. entries[First(mid + 1)].key > key
      BY <1>6, <1>8 DEF Beyond
    <3>2. CASE j = mid + 1
      BY <3>1, <3>2
    <3>3. CASE j # mid + 1
      <4>1. j \in 1..BLOCKS /\ mid + 1 < j
        BY <1>2, <1>4, <3>3
      <4>2. entries[First(mid + 1)].key <= entries[First(j)].key
        BY <1>4, <4>1, BlocksOrdered
      <4> QED
        BY <1>4, <1>7, <3>1, <4>1, <4>2
    <3> QED
      BY <3>2, <3>3
  <2>4. Bisecting(l)
    <3>1. l.lo \in 0..(l.hi + 1) /\ l.hi < BLOCKS /\ l.hi + 2 = mid + 1
      BY <1>1, <1>2, <1>3, <1>4, <2>2
    <3> QED
      BY <1>3, <2>2, <2>3, <3>1 DEF Bisecting
  <2> QED
    BY <2>2, <2>4 DEF LookupOK, Scanning, Found, Answered
<1>9. CASE ~Beyond(entries[i].key, key)
  <2>1. l = [lookup EXCEPT !.lo = mid + 1]
    BY <1>5, <1>9
  <2>2. l.pc = "bisect" /\ l.key = key /\ l.lo = mid + 1 /\ l.hi = lookup.hi /\ l \in LookupState
    <3>1. mid + 1 \in Int
      BY <1>4
    <3>2. l \in [pc: {"bisect"}, key: Keys, lo: Int, hi: Int]
      BY <1>1, <2>1, <3>1
    <3> QED
      BY <1>1, <2>1, <3>2 DEF LookupState
  <2>3. ASSUME NEW j \in 1..(mid + 1)
        PROVE  entries[First(j)].key <= key
    <3>1. entries[First(mid + 1)].key <= key
      BY <1>4, <1>6, <1>7, <1>9 DEF Beyond
    <3>2. CASE j = mid + 1
      BY <3>1, <3>2
    <3>3. CASE j # mid + 1
      <4>1. j \in 1..BLOCKS /\ j < mid + 1
        BY <1>2, <1>4, <3>3
      <4>2. entries[First(j)].key <= entries[First(mid + 1)].key
        BY <1>4, <4>1, BlocksOrdered
      <4> QED
        BY <1>4, <1>7, <3>1, <4>1, <4>2
    <3> QED
      BY <3>2, <3>3
  <2>4. Bisecting(l)
    <3>1. l.lo \in 0..(l.hi + 1)
      BY <1>1, <1>3, <1>4, <2>2
    <3> QED
      BY <1>3, <2>2, <2>3, <3>1 DEF Bisecting
  <2> QED
    BY <2>2, <2>4 DEF LookupOK, Scanning, Found, Answered
<1> QED
  BY <1>8, <1>9

\* The keys of the entries are natural numbers.
LEMMA EntryKeys ==
  ASSUME Layout
  PROVE  /\ \A n \in 1..Len(entries) : entries[n].key \in Nat /\ entries[n].key \in Keys
         /\ \A i, j \in 1..Len(entries) : i <= j => entries[i].key <= entries[j].key
<1>1. \A n \in 1..Len(entries) : entries[n].key \in Nat /\ entries[n].key \in Keys
  <2>1. \A x \in Entry : x.key \in Nat /\ x.key \in Keys
    BY KeysAssumption DEF Entry
  <2> QED
    BY <2>1, PositionsDiffer
<1>2. Len(entries) \in Nat
  BY PositionsDiffer
<1>3. ASSUME NEW i \in 1..Len(entries), NEW j \in 1..Len(entries), i <= j
      PROVE  entries[i].key <= entries[j].key
  <2>1. CASE i = j
    BY <1>1, <2>1
  <2>2. CASE i < j
    BY <2>2 DEF Layout, Ordered
  <2> QED
    BY <1>2, <1>3, <2>1, <2>2
<1> QED
  BY <1>1, <1>3

\* Every entry lies before the end of the entries.
LEMMA EntriesBefore ==
  ASSUME Layout, NEW n \in 1..Len(entries)
  PROVE  entries[n].offs <= offset
<1>1. Len(entries) \in Nat /\ Position(Len(entries) + 1) = offset
  BY PositionsDiffer DEF Position
<1>2. n \in 1..(Len(entries) + 1) /\ Len(entries) + 1 \in 1..(Len(entries) + 1) /\ n < Len(entries) + 1
  BY <1>1
<1> QED
  BY <1>1, <1>2, PositionsDiffer

\* The block before the first that starts behind the key: the key is in it, if
\* it is anywhere.
LEMMA FoundBlockStep ==
  ASSUME Layout, ~Writing, LookupOK(lookup), FoundBlock
  PROVE  LookupOK(lookup')
<1> DEFINE key == lookup.key
           lo == lookup.lo
<1>1. lookup.lo \in Int /\ lookup.hi \in Int /\ key \in Keys /\ lookup.pc = "bisect" /\ lookup.lo > lookup.hi
  BY LookupFields DEF LookupOK, FoundBlock
<1>2. /\ BLOCKS \in Nat /\ blocks \in Seq(Block) /\ Len(blocks) = BLOCKS
      /\ \A j \in 1..BLOCKS :
           /\ First(j) \in 1..Len(entries)
           /\ blocks[j].offset = entries[First(j)].offs
           /\ blocks[j].offset + blocks[j].length =
                IF j = BLOCKS THEN offset ELSE entries[First(j + 1)].offs
  BY BlocksOfTable
<1>3. /\ lo \in 0..BLOCKS
      /\ \A j \in 1..lo : entries[First(j)].key <= key
      /\ \A j \in (lo + 1)..BLOCKS : entries[First(j)].key > key
  <2>1. /\ lookup.lo \in 0..(lookup.hi + 1) /\ lookup.hi < BLOCKS
        /\ \A j \in 1..lookup.lo : entries[First(j)].key <= key
        /\ \A j \in (lookup.hi + 2)..BLOCKS : entries[First(j)].key > key
    BY <1>1 DEF LookupOK, Bisecting
  <2>2. lookup.lo = lookup.hi + 1 /\ lookup.hi + 2 = lookup.lo + 1
    BY <1>1, <2>1
  <2> QED
    BY <1>1, <1>2, <2>1, <2>2
<1>4. /\ key \in Nat /\ Len(entries) \in Nat
      /\ \A n \in 1..Len(entries) : entries[n].key \in Nat
      /\ \A i, j \in 1..Len(entries) : i <= j => entries[i].key <= entries[j].key
  BY <1>1, EntryKeys, PositionsDiffer, KeysAssumption
<1> HIDE DEF key, lo
<1>5. CASE lo = 0
  <2>1. lookup' = Done(key, {})
    BY <1>5 DEF FoundBlock, lo, key
  <2>2. ASSUME NEW m \in 1..Len(entries)
        PROVE  entries[m].key # key
    <3>1. BLOCKS > 0
      <4>1. Len(entries) <= BLOCKS * LENGTH
        BY DEF Layout, Divided, Started
      <4>2. n_entries_total \in Nat
        BY DEF Layout, EntriesOK
      <4>3. LENGTH \in Nat
        BY <4>2, BlockLength DEF LENGTH
      <4>4. BLOCKS = 0 => BLOCKS * LENGTH = 0
        BY <4>3
      <4> QED
        BY <1>2, <1>4, <2>2, <4>1, <4>4
    <3>2. First(1) = 1
      <4>1. LENGTH \in Nat
        BY BlockLength DEF LENGTH, Layout, EntriesOK
      <4> QED
        BY <4>1 DEF First
    <3>3. entries[1].key > key
      BY <1>2, <1>3, <1>5, <3>1, <3>2
    <3>4. entries[1].key <= entries[m].key
      BY <1>4, <2>2
    <3> QED
      BY <1>4, <3>3, <3>4
  <2> QED
    BY <1>1, <2>1, <2>2, NotStored DEF key
<1>6. CASE lo # 0
  <2> DEFINE f == First(lo)
             end == IF lo = BLOCKS THEN offset ELSE entries[First(lo + 1)].offs
  <2>1. lo \in 1..BLOCKS /\ f \in 1..Len(entries) /\ lo \in Int
    BY <1>2, <1>3, <1>6
  <2>2. /\ blocks[lo].offset = entries[f].offs /\ blocks[lo].offset + blocks[lo].length = end
        /\ blocks[lo].offset \in Nat /\ blocks[lo].length \in Nat /\ end \in Nat
    <3>1. blocks[lo] \in Block
      BY <1>2, <2>1
    <3>2. blocks[lo].offset \in Nat /\ blocks[lo].length \in Nat
      BY <3>1 DEF Block
    <3>3. blocks[lo].offset = entries[f].offs /\ blocks[lo].offset + blocks[lo].length = end
      BY <1>2, <2>1
    <3> QED
      <4> HIDE DEF end
      <4> QED
        BY <3>2, <3>3
  <2>3. ASSUME NEW n \in f..Len(entries), entries[n].key = key
        PROVE  entries[n].offs < end
    <3>1. n \in 1..Len(entries)
      BY <1>4, <2>1
    <3>2. CASE lo = BLOCKS
      <4>1. Position(Len(entries) + 1) = offset
        BY <1>4 DEF Position
      <4>2. n < Len(entries) + 1 /\ n \in 1..(Len(entries) + 1) /\ Len(entries) + 1 \in 1..(Len(entries) + 1)
        BY <1>4, <3>1
      <4>3. entries[n].offs < offset
        BY <3>1, <4>1, <4>2, PositionsDiffer
      <4> QED
        BY <3>2, <4>3
    <3>3. CASE lo # BLOCKS
      <4> DEFINE g == First(lo + 1)
      <4>1. lo + 1 \in 1..BLOCKS /\ lo + 1 \in (lo + 1)..BLOCKS
        BY <1>2, <2>1, <3>3
      <4>2. g \in 1..Len(entries) /\ entries[g].key > key
        BY <1>2, <1>3, <4>1
      <4> HIDE DEF g
      <4>3. n < g
        <5>1. ~(g <= n)
          BY <1>4, <2>3, <3>1, <4>2
        <5> QED
          BY <1>4, <3>1, <4>2, <5>1
      <4>4. entries[n].offs < entries[g].offs
        BY <1>4, <3>1, <4>2, <4>3, PositionsDiffer
      <4> QED
        BY <3>3, <4>4 DEF g
    <3> QED
      BY <3>2, <3>3
  <2>4. Ahead(key, f, end)
    <3> SUFFICES ASSUME NEW m \in 1..Len(entries), entries[m].key = key
                 PROVE  \E n \in f..Len(entries) : entries[n].key = key
      BY <2>3 DEF Ahead
    <3>1. CASE m >= f
      <4>1. m \in f..Len(entries)
        BY <1>4, <2>1, <3>1
      <4> QED
        BY <4>1
    <3>2. CASE m < f
      <4>1. entries[m].key <= entries[f].key /\ entries[f].key <= key
        BY <1>3, <1>4, <2>1, <3>2
      <4>2. entries[f].key = key /\ f \in f..Len(entries)
        BY <1>4, <2>1, <4>1
      <4> QED
        BY <4>2
    <3> QED
      BY <1>4, <2>1, <3>1, <3>2
  <2>4a. entries[f].offs <= offset /\ end <= offset
    <3>1. \A n \in 1..Len(entries) : entries[n].offs <= offset
      BY EntriesBefore
    <3>2. lo # BLOCKS => lo + 1 \in 1..BLOCKS
      BY <1>2, <2>1
    <3>3. lo # BLOCKS => First(lo + 1) \in 1..Len(entries)
      BY <1>2, <3>2
    <3>4. offset \in Nat
      BY DEF Layout, EntriesOK
    <3> QED
      BY <2>1, <3>1, <3>3, <3>4
  <2> SUFFICES ASSUME NEW l, l = lookup'
               PROVE  LookupOK(l)
    OBVIOUS
  <2> HIDE DEF f, end
  <2>5. l = [pc |-> "chunk", key |-> key, start |-> blocks[lo].offset,
             offs |-> blocks[lo].offset, end |-> end]
    BY <1>3, <1>6, <2>1, <2>2 DEF FoundBlock, lo, key
  <2>6. /\ l \in LookupState /\ l.pc = "chunk" /\ l.key = key /\ l.offs = entries[f].offs /\ l.end = end
        /\ l.start = entries[f].offs
    BY <1>1, <2>2, <2>5 DEF LookupState
  <2>7. Scanning(l)
    <3>1. f \in 1..(Len(entries) + 1) /\ l.offs = Position(f)
      BY <1>4, <2>1, <2>6, PositionsDiffer
    <3> QED
      BY <2>4, <2>4a, <2>6, <3>1 DEF Scanning
  <2> QED
    BY <2>6, <2>7 DEF LookupOK, Bisecting, Found, Answered
<1> QED
  BY <1>5, <1>6

\* Behind the end of the block there is nothing to find.
LEMMA ReadChunkStep ==
  ASSUME Layout, ~Writing, LookupOK(lookup), ReadChunk
  PROVE  LookupOK(lookup')
<1>1. /\ lookup \in [pc: {"chunk", "scan"}, key: Keys, start: Nat, offs: Nat, end: Nat]
      /\ lookup.key \in Keys /\ lookup.offs \in Nat /\ lookup.end \in Nat /\ lookup.pc = "chunk"
  BY LookupFields DEF LookupOK, ReadChunk
<1>2. /\ lookup.start <= offset /\ lookup.end <= offset
      /\ \/ \E i \in 1..(Len(entries) + 1) : lookup.offs = Position(i) /\ Ahead(lookup.key, i, lookup.end)
         \/ Behind(lookup)
  BY <1>1 DEF LookupOK, Scanning
<1>3. CASE lookup.offs < lookup.end
  <2> SUFFICES ASSUME NEW l, l = lookup'
               PROVE  LookupOK(l)
    OBVIOUS
  <2>1. l = [lookup EXCEPT !.pc = "scan", !.start = lookup.offs]
    BY <1>3 DEF ReadChunk
  <2>2. /\ l.pc = "scan" /\ l.key = lookup.key /\ l.offs = lookup.offs /\ l.end = lookup.end
        /\ l.start = lookup.offs
        /\ l \in LookupState
    <3>1. l \in [pc: {"chunk", "scan"}, key: Keys, start: Nat, offs: Nat, end: Nat]
      BY <1>1, <2>1
    <3> QED
      BY <1>1, <2>1, <3>1 DEF LookupState
  <2>3. l.start <= offset
    BY <1>1, <1>2, <1>3, <2>2 DEF Layout, EntriesOK
  <2>4. Scanning(l)
    BY <1>2, <2>2, <2>3 DEF Scanning, Behind
  <2> QED
    BY <2>2, <2>4 DEF LookupOK, Bisecting, Found, Answered
<1>4. CASE ~(lookup.offs < lookup.end)
  <2>1. ASSUME NEW m \in 1..Len(entries), entries[m].key = lookup.key
        PROVE  FALSE
    <3>0. PICK i \in 1..(Len(entries) + 1) : lookup.offs = Position(i) /\ Ahead(lookup.key, i, lookup.end)
      BY <1>2, <2>1 DEF Behind
    <3>1. PICK n \in i..Len(entries) : entries[n].key = lookup.key /\ entries[n].offs < lookup.end
      BY <3>0, <2>1 DEF Ahead
    <3>2. Len(entries) \in Nat
      BY PositionsDiffer
    <3>3. n \in 1..Len(entries) /\ n \in 1..(Len(entries) + 1) /\ i <= n
      BY <3>0, <3>1, <3>2
    <3>4. Position(n) < lookup.end /\ Position(n) \in Nat /\ Position(i) \in Nat
      BY <3>1, <3>3, PositionsDiffer
    <3>5. Position(i) <= Position(n)
      <4>1. CASE i = n
        BY <3>4, <4>1
      <4>2. CASE i < n
        BY <3>3, <3>4, <4>2, PositionsDiffer
      <4> QED
        BY <3>2, <3>3, <4>1, <4>2
    <3> QED
      BY <1>1, <3>0, <1>4, <3>4, <3>5
  <2> QED
    BY <1>1, <1>4, <2>1, NotStored DEF ReadChunk
<1> QED
  BY <1>3, <1>4

\* The scan goes from entry to entry, and does not leave the key behind.
LEMMA ScanEntryStep ==
  ASSUME Layout, ~Writing, LookupOK(lookup), ScanEntry
  PROVE  LookupOK(lookup')
<1>1. /\ lookup \in [pc: {"chunk", "scan"}, key: Keys, start: Nat, offs: Nat, end: Nat]
      /\ lookup.key \in Keys /\ lookup.offs \in Nat /\ lookup.end \in Nat /\ lookup.pc = "scan"
  BY LookupFields DEF LookupOK, ScanEntry
<1>2. PICK i \in 1..(Len(entries) + 1) : lookup.offs = Position(i) /\ Ahead(lookup.key, i, lookup.end)
  <2>1. PICK m \in 1..Len(entries) : lookup.offs = entries[m].offs
    BY DEF ScanEntry, EntryAt
  <2>2. ~Behind(lookup)
    <3>1. Len(entries) \in Nat /\ Position(Len(entries) + 1) = offset
      BY PositionsDiffer DEF Position
    <3>2. m \in 1..(Len(entries) + 1) /\ Len(entries) + 1 \in 1..(Len(entries) + 1) /\ m < Len(entries) + 1
      BY <3>1
    <3>3. entries[m].offs = Position(m) /\ Position(m) < offset /\ Position(m) \in Nat /\ offset \in Nat
      BY <3>1, <3>2, PositionsDiffer
    <3> QED
      BY <2>1, <3>3 DEF Behind
  <2> QED
    BY <1>1, <2>2 DEF LookupOK, Scanning
<1>2a. lookup.start <= offset /\ lookup.end <= offset
  BY <1>1 DEF LookupOK, Scanning
<1> DEFINE Value_Offs(e) == e.offs + KeySize[e.key]
           Next_(e) == Value_Offs(e) + ValueSize[e.value]
<1>3. PICK k \in EntryAt(lookup.offs) :
        lookup' = IF Truncated(Value_Offs(entries[k])) THEN [lookup EXCEPT !.pc = "chunk"]
                  ELSE IF entries[k].key = lookup.key
                    THEN [pc |-> "value", key |-> entries[k].key, value |-> entries[k].value]
                  ELSE IF Truncated(Next_(entries[k])) THEN [lookup EXCEPT !.pc = "chunk"]
                  ELSE [lookup EXCEPT !.offs = Next_(entries[k])]
  BY DEF ScanEntry
<1>4. Len(entries) \in Nat /\ k \in 1..Len(entries) /\ entries[k].offs = lookup.offs
  BY <1>3, PositionsDiffer DEF EntryAt
<1>5. k = i
  <2>1. Position(k) = Position(i) /\ k \in 1..(Len(entries) + 1)
    BY <1>2, <1>4, PositionsDiffer
  <2> QED
    BY <2>1, PositionsDiffer
<1>6. Next_(entries[k]) = Position(k + 1) /\ Next_(entries[k]) \in Nat
  <2>1. Position(k + 1) = Next_(entries[k])
    BY <1>4 DEF Layout, Adjacent
  <2>2. k + 1 \in 1..(Len(entries) + 1)
    BY <1>4
  <2>3. Position(k + 1) \in Nat
    BY <2>2, PositionsDiffer
  <2> QED
    BY <2>1, <2>3
<1> SUFFICES ASSUME NEW l, l = lookup'
             PROVE  LookupOK(l)
  OBVIOUS
<1> HIDE DEF Value_Offs, Next_
<1>7. CASE l = [lookup EXCEPT !.pc = "chunk"]
  <2>1. /\ l.pc = "chunk" /\ l.key = lookup.key /\ l.offs = lookup.offs /\ l.end = lookup.end
        /\ l.start = lookup.start
        /\ l \in LookupState
    <3>1. l \in [pc: {"chunk", "scan"}, key: Keys, start: Nat, offs: Nat, end: Nat]
      BY <1>1, <1>7
    <3> QED
      BY <1>1, <1>7, <3>1 DEF LookupState
  <2>2. Scanning(l)
    BY <1>2, <1>2a, <2>1 DEF Scanning
  <2> QED
    BY <2>1, <2>2 DEF LookupOK, Bisecting, Found, Answered
<1>8. CASE /\ entries[k].key = lookup.key
           /\ l = [pc |-> "value", key |-> entries[k].key, value |-> entries[k].value]
  <2>1. entries[k] \in Entry
    BY <1>4, PositionsDiffer
  <2>2. entries[k].value \in Values
    BY <2>1 DEF Entry
  <2>3. l.pc = "value" /\ l.key = entries[k].key /\ l.value = entries[k].value /\ l \in LookupState
    BY <1>1, <1>8, <2>2 DEF LookupState
  <2>4. Found(l)
    BY <1>4, <2>3 DEF Found
  <2> QED
    BY <2>3, <2>4 DEF LookupOK, Bisecting, Scanning, Answered
<1>9. CASE entries[k].key # lookup.key /\ l = [lookup EXCEPT !.offs = Next_(entries[k])]
  <2>1. /\ l.pc = "scan" /\ l.key = lookup.key /\ l.offs = Next_(entries[k]) /\ l.end = lookup.end
        /\ l.start = lookup.start
        /\ l \in LookupState
    <3>1. l \in [pc: {"chunk", "scan"}, key: Keys, start: Nat, offs: Nat, end: Nat]
      BY <1>1, <1>6, <1>9
    <3> QED
      BY <1>1, <1>6, <1>9, <3>1 DEF LookupState
  <2>2. Ahead(l.key, k + 1, l.end)
    <3> SUFFICES ASSUME NEW m \in 1..Len(entries), entries[m].key = lookup.key
                 PROVE  \E n \in (k + 1)..Len(entries) : entries[n].key = lookup.key /\ entries[n].offs < lookup.end
      BY <2>1 DEF Ahead
    <3>1. PICK n \in k..Len(entries) : entries[n].key = lookup.key /\ entries[n].offs < lookup.end
      BY <1>2, <1>5 DEF Ahead
    <3>2. n # k
      BY <1>9, <3>1
    <3>3. n \in (k + 1)..Len(entries)
      BY <1>4, <3>1, <3>2
    <3> QED
      BY <3>1, <3>3
  <2>3. k + 1 \in 1..(Len(entries) + 1)
    BY <1>4
  <2>4. Scanning(l)
    BY <1>2a, <1>6, <2>1, <2>2, <2>3 DEF Scanning
  <2> QED
    BY <2>1, <2>4 DEF LookupOK, Bisecting, Found, Answered
<1> QED
  BY <1>3, <1>7, <1>8, <1>9

\* The places of the strings that are taken for keys are within a chunk, the
\* first one is such a place, and so is the second string behind one.
LEMMA KeyPlaces ==
  ASSUME behind \in Tails
  PROVE  /\ DOMAIN behind = 0..(CHUNK - 1)
         /\ \A d \in 0..(CHUNK - 1) : behind[d].size \in 1..CHUNK
         /\ KeyPlace(0)
         /\ \A d : KeyPlace(d) => d \in 0..(CHUNK - 1)
<1>1. /\ behind \in [0..(CHUNK - 1) -> [spells: SUBSET Keys, size: 1..CHUNK]]
  BY TailsAssumption
<1>2. DOMAIN behind = 0..(CHUNK - 1) /\ \A d \in 0..(CHUNK - 1) : behind[d].size \in 1..CHUNK
  BY <1>1
<1>3. KeyPlace(0)
  BY DEF KeyPlace, TakenForKeys
<1>4. TakenForKeys(DOMAIN behind)
  BY <1>2, ChunkAssumption DEF TakenForKeys
<1> QED
  BY <1>2, <1>3, <1>4 DEF KeyPlace

LEMMA NextKeyPlace ==
  ASSUME NEW d, KeyPlace(d), NEW value, value = d + behind[d].size, value \in DOMAIN behind,
         NEW next, next = value + behind[value].size, next \in DOMAIN behind
  PROVE  KeyPlace(next)
<1> SUFFICES ASSUME NEW S \in SUBSET DOMAIN behind, TakenForKeys(S)
             PROVE  next \in S
  BY DEF KeyPlace
<1>1. d \in S
  BY DEF KeyPlace
<1> QED
  BY <1>1 DEF TakenForKeys

\* Behind the last entry the key has not been missed, and what is found there
\* is spelt by a string that is taken for a key.
LEMMA ScanBehindStep ==
  ASSUME Layout, ~Writing, behind \in Tails, LookupOK(lookup), ScanBehind
  PROVE  LookupOK(lookup')
<1>1. /\ lookup \in [pc: {"chunk", "scan"}, key: Keys, start: Nat, offs: Nat, end: Nat]
      /\ lookup.key \in Keys /\ lookup.start \in Nat /\ lookup.offs \in Nat /\ lookup.end \in Nat
      /\ lookup.pc = "scan" /\ EntryAt(lookup.offs) = {}
  BY LookupFields DEF LookupOK, ScanBehind
<1>2. Len(entries) \in Nat /\ offset \in Nat
  BY PositionsDiffer DEF Layout, EntriesOK
<1>3. lookup.start <= offset /\ lookup.end <= offset
  BY <1>1 DEF LookupOK, Scanning
<1>4. Behind(lookup)
  <2>1. ASSUME NEW i \in 1..(Len(entries) + 1), lookup.offs = Position(i), Ahead(lookup.key, i, lookup.end)
        PROVE  Behind(lookup)
    <3>1. i \notin 1..Len(entries)
      BY <1>1, <2>1, PositionsDiffer DEF EntryAt
    <3>2. i = Len(entries) + 1
      BY <1>2, <3>1
    <3>3. i..Len(entries) = {} /\ lookup.offs = offset
      BY <1>2, <2>1, <3>1, <3>2 DEF Position
    <3>4. \A m \in 1..Len(entries) : entries[m].key # lookup.key
      BY <2>1, <3>3 DEF Ahead
    <3>5. KeyPlace(lookup.offs - offset)
      BY <1>2, <3>3, KeyPlaces
    <3> QED
      BY <1>2, <3>3, <3>4, <3>5 DEF Behind
  <2> QED
    BY <1>1, <2>1 DEF LookupOK, Scanning
<1> DEFINE d == lookup.offs - offset
           value_offs == lookup.offs + behind[d].size
           v == d + behind[d].size
           next == value_offs + behind[value_offs - offset].size
<1>5. /\ lookup' = IF Truncated(value_offs) THEN [lookup EXCEPT !.pc = "chunk"]
                   ELSE IF lookup.key \in behind[d].spells
                     THEN [pc |-> "value", key |-> lookup.key, value |-> NoValue]
                   ELSE IF Truncated(next) THEN [lookup EXCEPT !.pc = "chunk"]
                   ELSE [lookup EXCEPT !.offs = next]
  BY DEF ScanBehind
<1>6. /\ d \in 0..(CHUNK - 1) /\ KeyPlace(d) /\ d \in DOMAIN behind /\ behind[d].size \in 1..CHUNK
      /\ \A m \in 1..Len(entries) : entries[m].key # lookup.key
  BY <1>4, KeyPlaces DEF Behind
<1>7. value_offs \in Nat /\ v = value_offs - offset /\ v \in Nat
  BY <1>1, <1>2, <1>6
<1>8. \A x \in Nat : ~Truncated(x) /\ x >= offset => x - offset \in 0..(CHUNK - 1)
  BY <1>1, <1>2, <1>3, ChunkAssumption DEF Truncated
<1> HIDE DEF d
<1>9. ASSUME ~Truncated(value_offs), ~Truncated(next)
      PROVE  next \in Nat /\ next >= offset /\ KeyPlace(next - offset)
  <2>1. value_offs >= offset
    BY <1>2, <1>7
  <2>2. v \in 0..(CHUNK - 1)
    BY <1>7, <1>8, <1>9, <2>1
  <2>3. v \in DOMAIN behind /\ behind[v].size \in 1..CHUNK
    BY <2>2, KeyPlaces
  <2>4. next = value_offs + behind[v].size
    BY <1>7
  <2> HIDE DEF v, value_offs, next
  <2>5. next \in Nat /\ next >= offset /\ next - offset = v + behind[v].size
    BY <1>2, <1>7, <2>1, <2>3, <2>4
  <2>6. next - offset \in 0..(CHUNK - 1)
    BY <1>8, <1>9, <2>5
  <2>7. next - offset \in DOMAIN behind
    BY <2>6, KeyPlaces
  <2> QED
    BY <1>6, <2>3, <2>5, <2>7, NextKeyPlace DEF v
<1> SUFFICES ASSUME NEW l, l = lookup'
             PROVE  LookupOK(l)
  OBVIOUS
<1> HIDE DEF v, value_offs, next
<1>10. CASE l = [lookup EXCEPT !.pc = "chunk"]
  <2>1. /\ l.pc = "chunk" /\ l.key = lookup.key /\ l.offs = lookup.offs /\ l.end = lookup.end
        /\ l.start = lookup.start /\ l \in LookupState
    <3>1. l \in [pc: {"chunk", "scan"}, key: Keys, start: Nat, offs: Nat, end: Nat]
      BY <1>1, <1>10
    <3> QED
      BY <1>1, <1>10, <3>1 DEF LookupState
  <2>2. Scanning(l)
    BY <1>3, <1>4, <2>1 DEF Scanning, Behind
  <2> QED
    BY <2>1, <2>2 DEF LookupOK, Bisecting, Found, Answered
<1>11. CASE /\ lookup.key \in behind[d].spells
            /\ l = [pc |-> "value", key |-> lookup.key, value |-> NoValue]
  <2>1. l.pc = "value" /\ l.key = lookup.key /\ l.value = NoValue /\ l \in LookupState
    BY <1>1, <1>11 DEF LookupState
  <2>2. Spelt(lookup.key)
    BY <1>6, <1>11 DEF Spelt
  <2> QED
    BY <1>6, <2>1, <2>2 DEF LookupOK, Bisecting, Scanning, Found, Answered
<1>12. CASE ~Truncated(value_offs) /\ ~Truncated(next) /\ l = [lookup EXCEPT !.offs = next]
  <2>1. /\ l.pc = "scan" /\ l.key = lookup.key /\ l.offs = next /\ l.end = lookup.end
        /\ l.start = lookup.start /\ l \in LookupState
    <3>1. l \in [pc: {"chunk", "scan"}, key: Keys, start: Nat, offs: Nat, end: Nat]
      BY <1>1, <1>9, <1>12
    <3> QED
      BY <1>1, <1>9, <1>12, <3>1 DEF LookupState
  <2>2. Behind(l)
    BY <1>6, <1>9, <1>12, <2>1 DEF Behind
  <2>3. Scanning(l)
    BY <1>3, <2>1, <2>2 DEF Scanning
  <2> QED
    BY <2>1, <2>3 DEF LookupOK, Bisecting, Found, Answered
<1> QED
  BY <1>5, <1>10, <1>11, <1>12

\* What is returned is stored.
LEMMA ReadValueStep ==
  ASSUME Layout, ~Writing, LookupOK(lookup), ReadValue
  PROVE  LookupOK(lookup')
<1>1. lookup.key \in Keys /\ lookup.value \in Values \cup {NoValue} /\ lookup.pc = "value"
  BY LookupFields DEF LookupOK, ReadValue
<1> SUFFICES ASSUME NEW l, l = lookup'
             PROVE  LookupOK(l)
  OBVIOUS
<1>2. l = [pc |-> "done", key |-> lookup.key, result |-> {lookup.value}]
  BY DEF ReadValue, Done
<1>3. l.pc = "done" /\ l.key = lookup.key /\ l.result = {lookup.value} /\ l \in LookupState
  BY <1>1, <1>2 DEF LookupState
<1>4. Answered(l)
  <2>1. CASE \E m \in 1..Len(entries) : entries[m].key = lookup.key /\ entries[m].value = lookup.value
    <3>1. lookup.value \in Stored(lookup.key)
      BY <2>1 DEF Stored
    <3> QED
      BY <1>3, <3>1 DEF Answered
  <2>2. CASE /\ \A m \in 1..Len(entries) : entries[m].key # lookup.key
             /\ lookup.value = NoValue /\ Spelt(lookup.key)
    <3>1. Stored(lookup.key) = {}
      BY <2>2 DEF Stored
    <3> QED
      BY <1>3, <2>2, <3>1 DEF Answered
  <2> QED
    BY <1>1, <2>1, <2>2 DEF LookupOK, Found
<1> QED
  BY <1>3, <1>4 DEF LookupOK, Bisecting, Scanning, Found

----------------------------------------------------------------------------
\* The state of the file and of the lookup in it.
ReaderOK ==
  /\ n_entries_total \in EntryCounts /\ behind \in Tails
  /\ LookupOK(lookup)

LEMMA ReaderInitNext ==
  /\ Init => ReaderOK
  /\ Layout /\ NoFalseNegatives /\ ReaderOK /\ [Next]_vars => ReaderOK'
<1>1. ASSUME Init
      PROVE  ReaderOK
  <2>1. /\ lookup.pc = "closed" /\ lookup \in LookupState /\ n_entries_total \in EntryCounts
        /\ behind \in Tails
    BY <1>1 DEF Init, Closed, LookupState
  <2> QED
    BY <2>1 DEF ReaderOK, LookupOK, Bisecting, Scanning, Found, Answered
<1>2. ASSUME Layout, NoFalseNegatives, ReaderOK, [Next]_vars
      PROVE  ReaderOK'
  <2> USE <1>2
  <2>1. ASSUME lookup' = Closed, n_entries_total' = n_entries_total, behind' = behind
        PROVE  ReaderOK'
    <3>1. /\ lookup'.pc = "closed" /\ lookup' \in LookupState /\ n_entries_total' \in EntryCounts
          /\ behind' \in Tails
      BY <2>1 DEF Closed, LookupState, ReaderOK
    <3> QED
      BY <3>1 DEF ReaderOK, LookupOK, Bisecting, Scanning, Found, Answered
  <2>2. ASSUME LookupOK(lookup'), UNCHANGED written
        PROVE  ReaderOK'
    <3>1. BLOCKS' = BLOCKS /\ (\A j : First(j)' = First(j)) /\ (\A j : Position(j)' = Position(j))
      BY <2>2 DEF written, BLOCKS, First, LENGTH, Position
    <3>2. UNCHANGED <<entries, n_entries_total, offset, behind>>
      BY <2>2 DEF written
    <3>3. Bisecting(lookup)'
      BY <2>2, <3>1, <3>2 DEF LookupOK, Bisecting
    <3>4. Scanning(lookup)'
      BY <2>2, <3>1, <3>2 DEF LookupOK, Scanning, Behind, KeyPlace, TakenForKeys, Ahead
    <3>5. (Found(lookup) /\ Answered(lookup))'
      BY <2>2, <3>2 DEF LookupOK, Found, Answered, Stored, Spelt, KeyPlace, TakenForKeys
    <3> QED
      BY <2>2, <3>2, <3>3, <3>4, <3>5 DEF ReaderOK, LookupOK
  <2>3. ASSUME lookup # Closed
        PROVE  ~Writing
    BY <2>3 DEF Layout, Sealed
  <2>4. \A pc \in {"open", "bisect", "chunk", "scan", "value", "done"} : lookup.pc = pc => ~Writing
    BY <2>3 DEF Closed
  <2>5. LookupOK(lookup) /\ n_entries_total \in EntryCounts /\ behind \in Tails
    BY DEF ReaderOK
  <2>6. CASE \E k \in Keys, v \in Values : AddEntry(k, v)
    <3>1. Writing /\ UNCHANGED <<lookup, n_entries_total, behind>>
      BY <2>6 DEF AddEntry
    <3> QED
      BY <2>1, <2>3, <3>1
  <2>7. CASE FinishTable \/ FinishHeader
    <3>1. lookup = Closed /\ UNCHANGED <<lookup, n_entries_total, behind>>
      BY <2>3, <2>7 DEF FinishTable, FinishHeader, Layout, Sealed
    <3> QED
      BY <2>1, <3>1
  <2>8. CASE Open
    <3> SUFFICES ASSUME NEW l, l = lookup'
                 PROVE  LookupOK(l)
      BY <2>2, <2>8 DEF Open
    <3>1. l.pc = "open" /\ l \in LookupState
      BY <2>8 DEF Open, LookupState
    <3> QED
      BY <3>1 DEF LookupOK, Bisecting, Scanning, Found, Answered
  <2>9. CASE \E k \in Keys : Lookup(k)
    <3>1. PICK k \in Keys : Lookup(k)
      BY <2>9
    <3>2. ~Writing /\ UNCHANGED written
      BY <2>4, <3>1 DEF Lookup
    <3>3. LookupOK(lookup')
      BY <3>1, <3>2, LookupStarts
    <3> QED
      BY <2>2, <3>2, <3>3
  <2>10. CASE LookupStep
    <3>1. ~Writing /\ UNCHANGED written
      BY <2>4, <2>10 DEF LookupStep, Bisect, FoundBlock, ReadChunk, ScanEntry, ScanBehind, ReadValue
    <3>2. LookupOK(lookup')
      BY <2>5, <2>10, <3>1, BisectStep, FoundBlockStep, ReadChunkStep, ScanEntryStep, ScanBehindStep,
         ReadValueStep DEF LookupStep
    <3> QED
      BY <2>2, <3>1, <3>2
  <2>11. CASE UNCHANGED vars
    <3>1. LookupOK(lookup') /\ UNCHANGED written
      BY <2>5, <2>11 DEF vars
    <3> QED
      BY <2>2, <3>1
  <2> QED
    BY <2>6, <2>7, <2>8, <2>9, <2>10, <2>11 DEF Next
<1> QED
  BY <1>1, <1>2

\* The types of the state, whatever the table spells: the bisection stays
\* within the table, and the scan in the file.
THEOREM TypeCorrect == Spec => []TypeOK
<1> DEFINE BitsOK == bits \in SUBSET Nat
           HeaderOK == header \in BOOLEAN
<1>1. Init => BitsOK
  BY DEF Init
<1>2. ASSUME EntriesOK, BitsOK, [Next]_vars
      PROVE  BitsOK'
  <2>1. CASE UNCHANGED <<n_entries_total, entries, offset, bits>>
    BY <1>2, <2>1
  <2>2. ASSUME NEW k \in Keys, NEW v \in Values, AddEntry(k, v)
        PROVE  BitsOK'
    <3>1. bits' = bloom_filter_add(bits, k)
      BY <2>2 DEF AddEntry
    <3>2. CASE n_bits = 0
      BY <1>2, <3>1, <3>2 DEF bloom_filter_add
    <3>3. CASE n_bits # 0
      BY <1>2, <3>1, <3>3, HashesType DEF bloom_filter_add
    <3> QED
      BY <3>2, <3>3
  <2> QED
    BY <1>2, <2>1, <2>2, OtherSteps
<1>3. Init => HeaderOK
  BY DEF Init
<1>4. HeaderOK /\ [Next]_vars => HeaderOK'
  BY DEF Next, AddEntry, FinishTable, FinishHeader, Open, Lookup, LookupStep, Bisect, FoundBlock,
         ReadChunk, ScanEntry, ScanBehind, ReadValue, written, vars
<1>5. Layout /\ ReaderOK /\ BitsOK /\ HeaderOK => TypeOK
  <2> SUFFICES ASSUME Layout, ReaderOK, BitsOK, HeaderOK
               PROVE  TypeOK
    OBVIOUS
  <2>1. \A t \in table : t \in Seq(Block)
    <3>1. CASE Writing
      BY <3>1 DEF Writing
    <3>2. CASE ~Writing
      BY <3>2, BlocksOfTable
    <3> QED
      BY <3>1, <3>2
  <2> QED
    BY <2>1 DEF Layout, EntriesOK, Divided, ReaderOK, LookupOK, TypeOK
<1>6. Layout => EntriesOK
  BY DEF Layout
<1> HIDE DEF BitsOK, HeaderOK
<1> QED
  BY <1>1, <1>2, <1>3, <1>4, <1>5, <1>6, LayoutAlways, BloomFilterSound, ReaderInitNext, PTL DEF Spec

\* lookup_key returns a value stored under the key if there is one, and NULL
\* otherwise, whatever the keys and values, their sizes, the number of
\* entries, the hashes and the size of the chunks; unless what lies behind the
\* entries, up to the end of the last chunk, spells the key where the scan
\* takes a string for one.
THEOREM LookupSound == Spec => []LookupCorrect
<1>1. ReaderOK => LookupCorrect
  BY DEF ReaderOK, LookupOK, Answered, Stored, LookupCorrect
<1> QED
  BY <1>1, LayoutAlways, BloomFilterSound, ReaderInitNext, PTL DEF Spec
=============================================================================
