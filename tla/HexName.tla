------------------------------ MODULE HexName ------------------------------
(***************************************************************************)
(* The names of records.  Callers of a writer and of a reader give them in *)
(* hexadecimal; they are stored, sorted and searched as bytes.  Both       *)
(* writers convert a name without looking whether that succeeded, the      *)
(* reader looks (eos-shard-shard-file.c, add_record in both writers).      *)
(*                                                                         *)
(* A character is a string of length one, a hex name a sequence of them, a *)
(* raw name a sequence of RAW_NAME_SIZE bytes.                             *)
(***************************************************************************)
EXTENDS SortSearch, FiniteSetsExt

CONSTANTS
  RAW_NAME_SIZE,   \* EOS_SHARD_RAW_NAME_SIZE
  HexNames,        \* the names records are added under
  Lookups,         \* the names they are looked up by
  MaxRecords

ASSUME HexNameAssumption == RAW_NAME_SIZE \in Nat \ {0} /\ MaxRecords \in Nat
ASSUME StringsAssumption == HexNames \cup Lookups \subseteq Seq(STRING)

VARIABLES
  asked,     \* the hex names records were added under
  records,   \* the raw names in the writer, then in the file
  sealed     \* the file has been written

vars == <<asked, records, sealed>>

Lower == <<"0", "1", "2", "3", "4", "5", "6", "7", "8", "9", "a", "b", "c", "d", "e", "f">>
Upper == <<"0", "1", "2", "3", "4", "5", "6", "7", "8", "9", "A", "B", "C", "D", "E", "F">>

g_ascii_isxdigit(c) == \E v \in 1..16 : c \in {Lower[v], Upper[v]}
g_ascii_xdigit_value(c) == (CHOOSE v \in 1..16 : c \in {Lower[v], Upper[v]}) - 1

\* The two digits of a byte taken in the wrong order.
Byte_Swapped(a, b) == g_ascii_xdigit_value(b) * 16 + g_ascii_xdigit_value(a)

\* (g_ascii_xdigit_value (a) << 4) | g_ascii_xdigit_value (b)
Byte(a, b) == g_ascii_xdigit_value(a) * 16 + g_ascii_xdigit_value(b)

\* How many bytes are converted before the function gives up: none of a name
\* that is too short; what follows the last pair is not looked at.
Converted(hex) ==
  IF Len(hex) < 2 * RAW_NAME_SIZE THEN 0
  ELSE Max({n \in 0..RAW_NAME_SIZE : \A k \in 1..2 * n : g_ascii_isxdigit(hex[k])})

\* eos_shard_util_hex_name_to_raw_name: what it returns, and what it leaves
\* in the caller's buffer, which held old.
hex_name_to_raw_name(old, hex) ==
  [ok |-> Converted(hex) = RAW_NAME_SIZE,
   raw_name |-> [i \in 1..RAW_NAME_SIZE |->
     IF i <= Converted(hex) THEN Byte(hex[2 * i - 1], hex[2 * i]) ELSE old[i]]]

\* eos_shard_util_raw_name_to_hex_name: "%02x" of every byte.
raw_name_to_hex_name(raw) ==
  [k \in 1..2 * RAW_NAME_SIZE |->
    Lower[(IF k % 2 = 1 THEN raw[(k + 1) \div 2] \div 16 ELSE raw[k \div 2] % 16) + 1]]

\* Bytes compared as signed ones.
memcmp_Signed(a, b) ==
  LET signed(x) == IF x < 128 THEN x ELSE x - 256
      differ == {i \in 1..RAW_NAME_SIZE : a[i] # b[i]}
  IN  IF differ = {} THEN 0 ELSE signed(a[Min(differ)]) - signed(b[Min(differ)])

\* memcmp (a, b, EOS_SHARD_RAW_NAME_SIZE)
memcmp(a, b) ==
  LET differ == {i \in 1..RAW_NAME_SIZE : a[i] # b[i]}
  IN  IF differ = {} THEN 0 ELSE a[Min(differ)] - b[Min(differ)]

Zeros == [i \in 1..RAW_NAME_SIZE |-> 0]

----------------------------------------------------------------------------
Init == asked = <<>> /\ records = <<>> /\ sealed = FALSE

\* add_record of either writer: the record is zeroed, what the conversion
\* returns is ignored.
AddRecord(hex) ==
  /\ ~sealed /\ Len(records) < MaxRecords
  /\ asked' = Append(asked, hex)
  /\ records' = Append(records, hex_name_to_raw_name(Zeros, hex).raw_name)
  /\ UNCHANGED sealed

\* finish, write: sorted by memcmp() of the raw names.
Finish ==
  /\ ~sealed
  /\ sealed' = TRUE
  /\ \E p \in Reorders(Len(records)) :
       /\ \A i, j \in 1..Len(records) : i < j => memcmp(records[p[i]], records[p[j]]) <= 0
       /\ records' = Reordered(records, p)
  /\ UNCHANGED asked

Next == Finish \/ \E hex \in HexNames : AddRecord(hex)

Spec == Init /\ [][Next]_vars

\* eos_shard_shard_file_find_record_by_hex_name: empty, or the raw name of
\* the record found. The buffer is uninitialized: nothing may come of that.
find_record_by_hex_name(old, hex) ==
  LET name == hex_name_to_raw_name(old, hex)
      compar == [k \in 1..Len(records) |-> memcmp(name.raw_name, records[k])]
  IN  IF name.ok THEN {records[k] : k \in bsearch(Len(records), compar)} ELSE {}

----------------------------------------------------------------------------
\* The lower-case spelling of a name, empty for one that is not hexadecimal
\* or too short: what two names that mean the same record have in common.
Spelling(hex) ==
  LET digit(c) == CHOOSE v \in 1..16 : c \in {Lower[v], Upper[v]}
  IN  IF \E k \in 1..2 * RAW_NAME_SIZE : k > Len(hex) \/ ~g_ascii_isxdigit(hex[k]) THEN <<>>
      ELSE [k \in 1..2 * RAW_NAME_SIZE |-> Lower[digit(hex[k])]]

\* A record is found by every spelling of the name it was added under, the
\* name it then gives (eos_shard_record_get_hex_name) is that name in lower
\* case, and a name nobody added, or that is not one, finds nothing, also
\* when the uninitialized buffer still holds the name of a record.
FoundByName ==
  sealed => \A hex \in Lookups, k \in 1..Len(records) :
    {raw_name_to_hex_name(r) : r \in find_record_by_hex_name(records[k], hex)}
      = {Spelling(asked[j]) : j \in {i \in 1..Len(asked) : Spelling(asked[i]) = Spelling(hex)}} \ {<<>>}

\* The records of a file are in the order of their names as text.
InTextOrder ==
  LET position(c) == CHOOSE v \in 1..16 : Lower[v] = c
      before(s, t) == \E k \in 1..Len(s) : /\ \A j \in 1..k - 1 : s[j] = t[j]
                                           /\ position(s[k]) < position(t[k])
      text(k) == raw_name_to_hex_name(records[k])
  IN  sealed => \A k \in 2..Len(records) : ~before(text(k), text(k - 1))
=============================================================================
