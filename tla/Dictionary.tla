----------------------------- MODULE Dictionary -----------------------------
(***************************************************************************)
(* The dictionary: a file of sorted keys and values that is divided into   *)
(* blocks, with a table of the blocks and a Bloom filter behind them       *)
(* (eos-shard-dictionary-writer.c, eos-shard-bloom-filter.c), and the      *)
(* lookup of a key in it (eos-shard-dictionary.c): the filter, a bisection *)
(* over the blocks' first keys, then a scan that reads the file in chunks. *)
(*                                                                         *)
(* A string is a number, in strcmp() order, with a size that counts its    *)
(* NUL.  Writer and reader are different processes: the reader may open    *)
(* the file after any step of the writer.                                  *)
(***************************************************************************)
EXTENDS Integers, Sequences, FiniteSets

CONSTANTS
  Keys, KeySize,       \* keys, and the size of each
  Values, ValueSize,   \* values, and the size of each
  EntryCounts,         \* the numbers of entries a writer is created for
  MaxEntries,          \* bound on the entries added
  CHUNK,               \* DICTIONARY_MAX_KEY_SIZE - 1: what one pread() reads
  N_BITS, N_HASHES,    \* the Bloom filter's size, if there are entries
  fnv_1a, fnv_1a_b,    \* the two hashes of each key
  UINT32_MOD,          \* 2^32
  Tails,               \* what may lie behind the entries, read as strings
  NoValue              \* a value found there: nobody's

ASSUME KeysAssumption == Keys \subseteq Nat /\ KeySize \in [Keys -> Nat \ {0}]
ASSUME ValuesAssumption == ValueSize \in [Values -> Nat \ {0}] /\ NoValue \notin Values
ASSUME CountsAssumption == EntryCounts \subseteq Nat /\ MaxEntries \in Nat
ASSUME ChunkAssumption == CHUNK \in Nat \ {0}
ASSUME BloomAssumption ==
  /\ N_BITS \in Nat \ {0} /\ N_HASHES \in Nat \ {0} /\ UINT32_MOD \in Nat \ {0}
  /\ fnv_1a \in [Keys -> Nat] /\ fnv_1a_b \in [Keys -> Nat]

\* The string that starts at each distance from the last entry: the keys it
\* spells, one or none, and its size, which is less than a chunk's.
ASSUME TailsAssumption ==
  Tails \subseteq {t \in [0..(CHUNK - 1) -> [spells: SUBSET Keys, size: 1..CHUNK]] :
                     \A d \in 0..(CHUNK - 1) : \A k \in t[d].spells : t[d].size = KeySize[k]}

VARIABLES
  n_entries_total,   \* what the writer was created for
  entries,           \* the entries in the file, with their offsets
  offset,            \* the stream's position
  offsets,           \* where the blocks start
  bits,              \* the bits set in the Bloom filter
  table,             \* empty, or the block table in the file
  header,            \* the header is in the file
  behind,            \* what the reader finds behind the entries
  lookup             \* the state of a reader's lookup

written == <<n_entries_total, entries, offset, offsets, bits, table, header, behind>>
vars == <<written, lookup>>

HEADER_SIZE == 24    \* sizeof (struct dictionary_header)

\* ceil (sqrt (n)), and the number of blocks of that length for n entries.
block_length(n) == CHOOSE k \in 0..n : k * k >= n /\ \A j \in 0..(k - 1) : j * j < n
n_blocks(n) == IF n = 0 THEN 0 ELSE (n + block_length(n) - 1) \div block_length(n)

Entry == [key: Keys, value: Values, offs: Nat]
Block == [offset: Nat, length: Nat]
Closed == [pc |-> "closed"]
LookupState ==
       {Closed}
  \cup [pc: {"open"}]
  \cup [pc: {"bisect"}, key: Keys, lo: Int, hi: Int]
  \cup [pc: {"chunk", "scan"}, key: Keys, start: Nat, offs: Nat, end: Nat]
  \cup [pc: {"value"}, key: Keys, value: Values \cup {NoValue}]
  \cup [pc: {"done"}, key: Keys, result: SUBSET (Values \cup {NoValue})]

TypeOK ==
  /\ n_entries_total \in EntryCounts
  /\ entries \in Seq(Entry)
  /\ offset \in Nat /\ offsets \in Seq(Nat)
  /\ bits \in SUBSET Nat
  /\ \A t \in table : t \in Seq(Block)
  /\ header \in BOOLEAN /\ behind \in Tails
  /\ lookup \in LookupState

\* new_for_stream and begin: room is left for the header.  What the block
\* table, the filter and the rest of the shard spell is any of Tails.
Init ==
  /\ n_entries_total \in EntryCounts
  /\ entries = <<>> /\ offset = HEADER_SIZE /\ offsets = <<>>
  /\ bits = {} /\ table = {} /\ header = FALSE /\ behind \in Tails
  /\ lookup = Closed

----------------------------------------------------------------------------
\* The Bloom filter, a set of bits.

n_bits == IF n_entries_total = 0 THEN 0 ELSE N_BITS

\* compute_hashes
hashes(key) ==
  LET x[i \in 0..(N_HASHES - 1)] ==
        IF i = 0 THEN fnv_1a[key] % n_bits
                 ELSE ((x[i - 1] + fnv_1a_b[key]) % UINT32_MOD) % n_bits
  IN  {x[i] : i \in 0..(N_HASHES - 1)}

\* A filter that sets a bit less than it tests.
bloom_filter_add_Short(b, key) ==
  IF n_bits = 0 THEN b ELSE b \cup (hashes(key) \ {fnv_1a[key] % n_bits})

bloom_filter_add(b, key) == IF n_bits = 0 THEN b ELSE b \cup hashes(key)

bloom_filter_test(b, key) == n_bits # 0 /\ hashes(key) \subseteq b

----------------------------------------------------------------------------
\* The writer.

Writing == table = {}

\* A block that starts one entry early.
StartsBlock_Early(n) == (n + 1) % block_length(n_entries_total) = 0

StartsBlock(n) == n % block_length(n_entries_total) = 0

\* add_entry of a key that is not less than the last one: others are refused
\* and leave everything as it is.
AddEntry(key, value) ==
  /\ Writing /\ n_entries_total > 0 /\ Len(entries) < MaxEntries
  /\ entries # <<>> => key >= entries[Len(entries)].key
  /\ offsets' = IF StartsBlock(Len(entries)) THEN Append(offsets, offset) ELSE offsets
  /\ bits' = bloom_filter_add(bits, key)
  /\ entries' = Append(entries, [key |-> key, value |-> value, offs |-> offset])
  /\ offset' = offset + KeySize[key] + ValueSize[value]
  /\ UNCHANGED <<n_entries_total, table, header, behind, lookup>>

\* The subtraction the other way round.
BlockEntry_Swapped(offs, i) == [offset |-> offs[i], length |-> offs[i] - offs[i + 1]]

BlockEntry(offs, i) == [offset |-> offs[i], length |-> offs[i + 1] - offs[i]]

\* A finish that accepts more entries than were announced.
Complete_AtLeast == Len(entries) >= n_entries_total

Complete == Len(entries) = n_entries_total

\* finish, but for its last write: the block table, and the filter.  With
\* the wrong number of entries it does nothing.
FinishTable ==
  /\ Writing /\ Complete
  /\ LET all == Append(offsets, offset)
     IN  /\ offsets' = all
         /\ table' = {[i \in 1..n_blocks(n_entries_total) |-> BlockEntry(all, i)]}
  /\ UNCHANGED <<n_entries_total, entries, offset, bits, header, behind, lookup>>

\* The last write of finish.
FinishHeader ==
  /\ ~Writing /\ ~header
  /\ header' = TRUE
  /\ UNCHANGED <<n_entries_total, entries, offset, offsets, bits, table, behind, lookup>>

----------------------------------------------------------------------------
\* The reader.  It opens a file with the magic of a header only.

blocks == CHOOSE t \in table : TRUE
EntryAt(offs) == {i \in 1..Len(entries) : entries[i].offs = offs}

Open ==
  /\ lookup = Closed /\ header
  /\ lookup' = [pc |-> "open"]
  /\ UNCHANGED written

Done(key, result) == [pc |-> "done", key |-> key, result |-> result]

\* dictionary_lookup_key: the filter is asked first.
Lookup(key) ==
  /\ lookup.pc \in {"open", "done"}
  /\ lookup' = IF bloom_filter_test(bits, key)
                 THEN [pc |-> "bisect", key |-> key, lo |-> 0, hi |-> Len(blocks) - 1]
                 ELSE Done(key, {})
  /\ UNCHANGED written

\* The comparison without the equal keys.
Beyond_OrEqual(chunk_key, key) == chunk_key >= key

\* strncmp (chunk_key, key, key_size) > 0
Beyond(chunk_key, key) == chunk_key > key

\* A bisection that keeps the block it has looked at.
Bisect_Keep ==
  /\ lookup.pc = "bisect" /\ lookup.lo <= lookup.hi
  /\ LET mid == (lookup.lo + lookup.hi) \div 2
     IN  \E i \in EntryAt(blocks[mid + 1].offset) :
           lookup' = IF Beyond(entries[i].key, lookup.key)
                       THEN [lookup EXCEPT !.hi = mid - 1]
                       ELSE [lookup EXCEPT !.lo = mid]
  /\ UNCHANGED written

\* One turn of the bisection in dictionary_find_block.
Bisect ==
  /\ lookup.pc = "bisect" /\ lookup.lo <= lookup.hi
  /\ LET mid == (lookup.lo + lookup.hi) \div 2
     IN  \E i \in EntryAt(blocks[mid + 1].offset) :
           lookup' = IF Beyond(entries[i].key, lookup.key)
                       THEN [lookup EXCEPT !.hi = mid - 1]
                       ELSE [lookup EXCEPT !.lo = mid + 1]
  /\ UNCHANGED written

\* Its end: no block, or the one before the first that is too far.
FoundBlock ==
  /\ lookup.pc = "bisect" /\ lookup.lo > lookup.hi
  /\ lookup' = IF lookup.lo <= 0 THEN Done(lookup.key, {})
               ELSE LET b == blocks[lookup.lo]
                    IN  [pc |-> "chunk", key |-> lookup.key, start |-> b.offset,
                         offs |-> b.offset, end |-> b.offset + b.length]
  /\ UNCHANGED written

\* The head of the outer loop of dictionary_lookup_key_in_block: a chunk is
\* read at offs.
ReadChunk ==
  /\ lookup.pc = "chunk"
  /\ lookup' = IF lookup.offs < lookup.end
                 THEN [lookup EXCEPT !.pc = "scan", !.start = lookup.offs]
                 ELSE Done(lookup.key, {})
  /\ UNCHANGED written

\* ADVANCE_CHUNK: a string that reaches the end of the chunk is read again,
\* from the start of its entry.
Truncated(end) == end >= lookup.start + CHUNK

\* One turn of the inner loop, at an entry.
ScanEntry ==
  /\ lookup.pc = "scan"
  /\ \E i \in EntryAt(lookup.offs) :
       LET e == entries[i]
           value_offs == e.offs + KeySize[e.key]
           next == value_offs + ValueSize[e.value]
       IN  lookup' = IF Truncated(value_offs) THEN [lookup EXCEPT !.pc = "chunk"]
                     ELSE IF e.key = lookup.key
                       THEN [pc |-> "value", key |-> e.key, value |-> e.value]
                     ELSE IF Truncated(next) THEN [lookup EXCEPT !.pc = "chunk"]
                     ELSE [lookup EXCEPT !.offs = next]
  /\ UNCHANGED written

\* The inner loop does not stop where the block ends, nor behind the last
\* entry: there it takes the block table, the filter and what follows for
\* keys and values, in turns, up to the end of the chunk.
ScanBehind ==
  /\ lookup.pc = "scan" /\ EntryAt(lookup.offs) = {}
  /\ LET string(offs) == behind[offs - offset]
         value_offs == lookup.offs + string(lookup.offs).size
         next == value_offs + string(value_offs).size
     IN  lookup' = IF Truncated(value_offs) THEN [lookup EXCEPT !.pc = "chunk"]
                   ELSE IF lookup.key \in string(lookup.offs).spells
                     THEN [pc |-> "value", key |-> lookup.key, value |-> NoValue]
                   ELSE IF Truncated(next) THEN [lookup EXCEPT !.pc = "chunk"]
                   ELSE [lookup EXCEPT !.offs = next]
  /\ UNCHANGED written

\* read_cstring: a string that fills the chunk is read again, from the same
\* place.
ReadValue ==
  /\ lookup.pc = "value"
  /\ lookup.value # NoValue => ValueSize[lookup.value] <= CHUNK
  /\ lookup' = Done(lookup.key, {lookup.value})
  /\ UNCHANGED written

LookupStep == Bisect \/ FoundBlock \/ ReadChunk \/ ScanEntry \/ ScanBehind \/ ReadValue

Next ==
  \/ \E k \in Keys, v \in Values : AddEntry(k, v)
  \/ FinishTable \/ FinishHeader
  \/ Open \/ \E k \in Keys : Lookup(k)
  \/ LookupStep

\* A lookup is one call: nothing holds it up.
Spec == Init /\ [][Next]_vars
FairSpec == Spec /\ WF_vars(LookupStep)

----------------------------------------------------------------------------
\* The Bloom filter's promise: "this function may return false positives but
\* never false negatives".
NoFalseNegatives ==
  \A i \in 1..Len(entries) : bloom_filter_test(bits, entries[i].key)

\* The assertion in finish holds, for every number of entries, and the
\* blocks cover the entries without a gap.
BlocksCover ==
  /\ Writing /\ Complete => Len(offsets) = n_blocks(n_entries_total)
  /\ \A t \in table :
       /\ Len(t) > 0 => t[1].offset = HEADER_SIZE
       /\ \A i \in 1..Len(t) :
            /\ EntryAt(t[i].offset) # {}
            /\ t[i].offset + t[i].length = IF i = Len(t) THEN offset ELSE t[i + 1].offset

\* A file that can be opened is whole: it has the number of entries the
\* writer was created for, in order, wherever the writer was stopped and
\* whatever add_entry refused.
OnlyWhole ==
  lookup # Closed =>
    /\ Len(entries) = n_entries_total
    /\ \A i, j \in 1..Len(entries) : i < j => entries[i].key <= entries[j].key

\* Where a string behind the entries is taken for a key: every second one,
\* from the first on.
TakenForKeys(S) ==
  /\ 0 \in S
  /\ \A d \in S :
       LET value == d + behind[d].size
       IN  value \in DOMAIN behind /\ value + behind[value].size \in DOMAIN behind
             => value + behind[value].size \in S
KeyPlace(d) == \A S \in SUBSET DOMAIN behind : TakenForKeys(S) => d \in S
Spelt(key) == \E d \in DOMAIN behind : key \in behind[d].spells /\ KeyPlace(d)

\* lookup_key returns a value stored under the key, if there is one, and
\* NULL otherwise; unless one of the strings behind the entries that the
\* scan takes for keys spells the one asked for: then it may return what
\* follows there.
LookupCorrect ==
  lookup.pc = "done" =>
    LET stored == {entries[i].value : i \in {j \in 1..Len(entries) : entries[j].key = lookup.key}}
    IN  IF stored # {} THEN lookup.result # {} /\ lookup.result \subseteq stored
        ELSE lookup.result = {} \/ (lookup.result = {NoValue} /\ Spelt(lookup.key))

\* Every lookup ends, also of a key that is not there: the bisection and the
\* scan move on, over blocks and chunks of any size.
LookupEnds == (lookup.pc \in {"bisect", "chunk", "scan", "value"}) ~> (lookup.pc = "done")
=============================================================================
