--------------------------- MODULE HexNameProofs ---------------------------
(***************************************************************************)
(* Theorems of HexName, for names of every length: a record is found by    *)
(* every spelling of its name and by no other string, and the records of a *)
(* file are in the order of their names as text.                           *)
(***************************************************************************)
EXTENDS HexName, SearchProofs

RawName == [1..RAW_NAME_SIZE -> 0..255]

IsHex(hex) ==
  /\ Len(hex) >= 2 * RAW_NAME_SIZE
  /\ \A k \in 1..2 * RAW_NAME_SIZE : g_ascii_isxdigit(hex[k])

----------------------------------------------------------------------------
\* Digits.
LEMMA DigitValue ==
  ASSUME NEW c, g_ascii_isxdigit(c)
  PROVE  g_ascii_xdigit_value(c) \in 0..15
<1>1. \E v \in 1..16 : c \in {Lower[v], Upper[v]}
  BY DEF g_ascii_isxdigit
<1> DEFINE d == CHOOSE v \in 1..16 : c \in {Lower[v], Upper[v]}
<1>2. d \in 1..16
  <2> HIDE DEF Lower, Upper
  <2> QED
    BY <1>1
<1>3. g_ascii_xdigit_value(c) = d - 1
  BY DEF g_ascii_xdigit_value
<1> HIDE DEF d
<1> QED
  BY <1>2, <1>3

LEMMA LowerInjective == \A i, j \in 1..16 : Lower[i] = Lower[j] => i = j
  BY DEF Lower

LEMMA ByteType ==
  ASSUME NEW a, NEW b, g_ascii_isxdigit(a), g_ascii_isxdigit(b)
  PROVE  /\ Byte(a, b) \in 0..255
         /\ Byte(a, b) \div 16 = g_ascii_xdigit_value(a)
         /\ Byte(a, b) % 16 = g_ascii_xdigit_value(b)
<1>1. g_ascii_xdigit_value(a) \in 0..15 /\ g_ascii_xdigit_value(b) \in 0..15
  BY DigitValue
<1>2. \A x, y \in 0..15 : x * 16 + y \in 0..255 /\ (x * 16 + y) \div 16 = x /\ (x * 16 + y) % 16 = y
  OBVIOUS
<1> QED
  BY <1>1, <1>2 DEF Byte

----------------------------------------------------------------------------
\* The conversion of a name.
Digits(hex, n) == \A k \in 1..2 * n : g_ascii_isxdigit(hex[k])

LEMMA ConvertedType ==
  ASSUME NEW hex, Len(hex) \in Nat
  PROVE  /\ Converted(hex) \in 0..RAW_NAME_SIZE
         /\ Digits(hex, Converted(hex))
         /\ Converted(hex) = RAW_NAME_SIZE <=> IsHex(hex)
<1> DEFINE S == {n \in 0..RAW_NAME_SIZE : Digits(hex, n)}
           T == {m \in 0..RAW_NAME_SIZE : RAW_NAME_SIZE - m \in S}
<1>0. RAW_NAME_SIZE \in Nat \ {0}
  BY HexNameAssumption
<1>1. 0 \in S
  BY <1>0 DEF Digits
<1>2. \E x \in S : \A y \in S : x >= y
  <2>1. T \in SUBSET Nat /\ RAW_NAME_SIZE \in T
    BY <1>0, <1>1
  <2>2. PICK m \in T : \A y \in T : m <= y
    <3> HIDE DEF T
    <3> QED
      BY <2>1, LeastNatural
  <2>3. m \in 0..RAW_NAME_SIZE /\ RAW_NAME_SIZE - m \in S
    OBVIOUS
  <2>4. \A y \in S : RAW_NAME_SIZE - y \in T
    BY <1>0
  <2>5. \A y \in S : RAW_NAME_SIZE - m >= y
    <3> TAKE y \in S
    <3>1. y \in 0..RAW_NAME_SIZE /\ m <= RAW_NAME_SIZE - y
      BY <2>2, <2>4
    <3> QED
      BY <1>0, <2>3, <3>1
  <2> QED
    BY <2>3, <2>5
<1>3. Max(S) \in S /\ \A y \in S : Max(S) >= y
  <2> HIDE DEF S
  <2> QED
    BY <1>2 DEF Max
<1>4. CASE Len(hex) < 2 * RAW_NAME_SIZE
  <2>1. Converted(hex) = 0 /\ ~IsHex(hex)
    BY <1>0, <1>4 DEF Converted, IsHex
  <2> QED
    BY <1>0, <1>1, <2>1
<1>5. CASE ~(Len(hex) < 2 * RAW_NAME_SIZE)
  <2>1. Converted(hex) = Max(S)
    BY <1>5 DEF Converted, Digits
  <2>2. IsHex(hex) <=> RAW_NAME_SIZE \in S
    BY <1>0, <1>5 DEF IsHex, Digits
  <2>3. Max(S) \in 0..RAW_NAME_SIZE /\ Digits(hex, Max(S))
    BY <1>3
  <2>4. Max(S) = RAW_NAME_SIZE <=> RAW_NAME_SIZE \in S
    <3> HIDE DEF S
    <3> QED
      BY <1>0, <1>3, <2>3
  <2> HIDE DEF S
  <2> QED
    BY <2>1, <2>2, <2>3, <2>4
<1> QED
  BY <1>4, <1>5

\* What add_record stores.
Stored(hex) == hex_name_to_raw_name(Zeros, hex).raw_name

LEMMA StoredType ==
  ASSUME NEW hex, Len(hex) \in Nat
  PROVE  Stored(hex) \in RawName
<1> DEFINE n == Converted(hex)
<1>1. n \in 0..RAW_NAME_SIZE /\ Digits(hex, n)
  BY ConvertedType
<1>2. Stored(hex) = [i \in 1..RAW_NAME_SIZE |-> IF i <= n THEN Byte(hex[2 * i - 1], hex[2 * i]) ELSE Zeros[i]]
  BY DEF Stored, hex_name_to_raw_name
<1> HIDE DEF n
<1>3. ASSUME NEW i \in 1..RAW_NAME_SIZE, i <= n
      PROVE  Byte(hex[2 * i - 1], hex[2 * i]) \in 0..255
  <2>1. 2 * i - 1 \in 1..2 * n /\ 2 * i \in 1..2 * n
    BY <1>1, <1>3, HexNameAssumption
  <2>2. g_ascii_isxdigit(hex[2 * i - 1]) /\ g_ascii_isxdigit(hex[2 * i])
    BY <1>1, <2>1 DEF Digits
  <2> QED
    BY <2>2, ByteType
<1>4. \A i \in 1..RAW_NAME_SIZE : Zeros[i] = 0 /\ 0 \in 0..255
  BY DEF Zeros
<1> QED
  BY <1>2, <1>3, <1>4 DEF RawName

\* Of a hexadecimal name, whatever the buffer held.
LEMMA HexConverted ==
  ASSUME NEW hex, Len(hex) \in Nat, NEW old
  PROVE  /\ hex_name_to_raw_name(old, hex).ok <=> IsHex(hex)
         /\ IsHex(hex) => hex_name_to_raw_name(old, hex).raw_name = Stored(hex)
<1>1. Converted(hex) = RAW_NAME_SIZE <=> IsHex(hex)
  BY ConvertedType
<1>2. ASSUME IsHex(hex)
      PROVE  hex_name_to_raw_name(old, hex).raw_name = Stored(hex)
  <2>1. \A i \in 1..RAW_NAME_SIZE : i <= Converted(hex)
    BY <1>1, <1>2, HexNameAssumption
  <2> QED
    BY <2>1 DEF Stored, hex_name_to_raw_name
<1> QED
  BY <1>1, <1>2 DEF hex_name_to_raw_name

----------------------------------------------------------------------------
\* The two digits of a byte.
Nibble(raw, k) == IF k % 2 = 1 THEN raw[(k + 1) \div 2] \div 16 ELSE raw[k \div 2] % 16

LEMMA Nibbles ==
  ASSUME NEW raw, NEW i \in 1..RAW_NAME_SIZE
  PROVE  /\ 2 * i - 1 \in 1..2 * RAW_NAME_SIZE /\ Nibble(raw, 2 * i - 1) = raw[i] \div 16
         /\ 2 * i \in 1..2 * RAW_NAME_SIZE /\ Nibble(raw, 2 * i) = raw[i] % 16
<1>1. (2 * i - 1) % 2 = 1 /\ ((2 * i - 1) + 1) \div 2 = i /\ (2 * i) % 2 = 0 /\ (2 * i) \div 2 = i
  BY HexNameAssumption
<1>2. 2 * i - 1 \in 1..2 * RAW_NAME_SIZE /\ 2 * i \in 1..2 * RAW_NAME_SIZE
  BY HexNameAssumption
<1> QED
  BY <1>1, <1>2 DEF Nibble

\* Every character of a name is one of the two of a byte.
LEMMA EvenOrOdd ==
  ASSUME NEW k \in 1..2 * RAW_NAME_SIZE
  PROVE  \E i \in 1..RAW_NAME_SIZE : k = 2 * i - 1 \/ k = 2 * i
<1> DEFINE i == (k + 1) \div 2
<1>1. i \in 1..RAW_NAME_SIZE /\ (k = 2 * i - 1 \/ k = 2 * i)
  BY HexNameAssumption
<1> QED
  BY <1>1

LEMMA NibbleType ==
  ASSUME NEW raw \in RawName, NEW k \in 1..2 * RAW_NAME_SIZE
  PROVE  Nibble(raw, k) \in 0..15
<1>1. PICK i \in 1..RAW_NAME_SIZE : k = 2 * i - 1 \/ k = 2 * i
  BY EvenOrOdd
<1>2. raw[i] \in 0..255
  BY DEF RawName
<1>3. \A x \in 0..255 : x \div 16 \in 0..15 /\ x % 16 \in 0..15
  OBVIOUS
<1> QED
  BY <1>1, <1>2, <1>3, Nibbles

LEMMA TextOf ==
  ASSUME NEW raw
  PROVE  raw_name_to_hex_name(raw) = [k \in 1..2 * RAW_NAME_SIZE |-> Lower[Nibble(raw, k) + 1]]
  BY DEF raw_name_to_hex_name, Nibble

\* The name a record gives is the one it was added under, in lower case.
LEMMA TextOfStored ==
  ASSUME NEW hex, Len(hex) \in Nat, IsHex(hex)
  PROVE  raw_name_to_hex_name(Stored(hex)) = Spelling(hex)
<1> DEFINE raw == Stored(hex)
           digit(c) == CHOOSE v \in 1..16 : c \in {Lower[v], Upper[v]}
<1>1. \A i \in 1..RAW_NAME_SIZE : raw[i] = Byte(hex[2 * i - 1], hex[2 * i])
  <2>1. Converted(hex) = RAW_NAME_SIZE
    BY ConvertedType
  <2>2. \A i \in 1..RAW_NAME_SIZE : i <= Converted(hex)
    BY <2>1, HexNameAssumption
  <2> QED
    BY <2>2 DEF Stored, hex_name_to_raw_name
<1> HIDE DEF raw
<1>2. ASSUME NEW k \in 1..2 * RAW_NAME_SIZE
      PROVE  Nibble(raw, k) = g_ascii_xdigit_value(hex[k])
  <2>1. PICK i \in 1..RAW_NAME_SIZE : k = 2 * i - 1 \/ k = 2 * i
    BY EvenOrOdd
  <2>2. g_ascii_isxdigit(hex[2 * i - 1]) /\ g_ascii_isxdigit(hex[2 * i])
    BY Nibbles DEF IsHex
  <2>3. Byte(hex[2 * i - 1], hex[2 * i]) \div 16 = g_ascii_xdigit_value(hex[2 * i - 1])
        /\ Byte(hex[2 * i - 1], hex[2 * i]) % 16 = g_ascii_xdigit_value(hex[2 * i])
    BY <2>2, ByteType
  <2> QED
    BY <1>1, <2>1, <2>3, Nibbles
<1>3. ASSUME NEW k \in 1..2 * RAW_NAME_SIZE
      PROVE  Nibble(raw, k) + 1 = digit(hex[k])
  <2>1. g_ascii_isxdigit(hex[k])
    BY DEF IsHex
  <2>2. g_ascii_xdigit_value(hex[k]) = digit(hex[k]) - 1 /\ g_ascii_xdigit_value(hex[k]) \in 0..15
    BY <2>1, DigitValue DEF g_ascii_xdigit_value
  <2>3. digit(hex[k]) \in 1..16
    <3>1. \E v \in 1..16 : hex[k] \in {Lower[v], Upper[v]}
      BY <2>1 DEF g_ascii_isxdigit
    <3> QED
      BY <3>1
  <2> HIDE DEF digit
  <2> QED
    BY <1>2, <2>2, <2>3
<1>4. Spelling(hex) = [k \in 1..2 * RAW_NAME_SIZE |-> Lower[digit(hex[k])]]
  <2>1. ~\E k \in 1..2 * RAW_NAME_SIZE : k > Len(hex) \/ ~g_ascii_isxdigit(hex[k])
    BY HexNameAssumption DEF IsHex
  <2> QED
    BY <2>1 DEF Spelling
<1> HIDE DEF digit
<1> QED
  BY <1>3, <1>4, TextOf DEF raw

LEMMA SameName ==
  ASSUME NEW a \in RawName, NEW b \in RawName, \A i \in 1..RAW_NAME_SIZE : a[i] = b[i]
  PROVE  a = b
<1>1. a = [i \in 1..RAW_NAME_SIZE |-> a[i]] /\ b = [i \in 1..RAW_NAME_SIZE |-> b[i]]
  BY DEF RawName
<1> QED
  BY <1>1

LEMMA TwoDigits ==
  ASSUME NEW x \in 0..255
  PROVE  x = 16 * (x \div 16) + (x % 16) /\ x \div 16 \in 0..15 /\ x % 16 \in 0..15
  OBVIOUS

\* Two raw names with one text are one.
LEMMA TextInjective ==
  ASSUME NEW a \in RawName, NEW b \in RawName, raw_name_to_hex_name(a) = raw_name_to_hex_name(b)
  PROVE  a = b
<1>1. ASSUME NEW k \in 1..2 * RAW_NAME_SIZE
      PROVE  Nibble(a, k) = Nibble(b, k)
  <2>1. Lower[Nibble(a, k) + 1] = Lower[Nibble(b, k) + 1]
    <3>1. raw_name_to_hex_name(a)[k] = Lower[Nibble(a, k) + 1]
      BY TextOf
    <3>2. raw_name_to_hex_name(b)[k] = Lower[Nibble(b, k) + 1]
      BY TextOf
    <3> QED
      BY <3>1, <3>2
  <2>2. Nibble(a, k) \in 0..15 /\ Nibble(b, k) \in 0..15
    BY NibbleType
  <2>3. Nibble(a, k) + 1 \in 1..16 /\ Nibble(b, k) + 1 \in 1..16
    BY <2>2
  <2>4. Nibble(a, k) + 1 = Nibble(b, k) + 1
    BY <2>1, <2>3, LowerInjective
  <2> QED
    BY <2>2, <2>4
<1>3. ASSUME NEW i \in 1..RAW_NAME_SIZE
      PROVE  a[i] = b[i]
  <2>1. a[i] \div 16 = b[i] \div 16 /\ a[i] % 16 = b[i] % 16
    BY <1>1, Nibbles
  <2>2. a[i] \in 0..255 /\ b[i] \in 0..255
    BY DEF RawName
  <2>3. a[i] = 16 * (a[i] \div 16) + (a[i] % 16) /\ b[i] = 16 * (b[i] \div 16) + (b[i] % 16)
    BY <2>2, TwoDigits
  <2> QED
    BY <2>1, <2>3
<1> QED
  BY <1>3, SameName

----------------------------------------------------------------------------
\* The order of raw names.
Less(a, b) == \E i \in 1..RAW_NAME_SIZE : a[i] < b[i] /\ \A j \in 1..i - 1 : a[j] = b[j]

LEMMA Compare ==
  ASSUME NEW a \in RawName, NEW b \in RawName
  PROVE  /\ memcmp(a, b) \in Int
         /\ memcmp(a, b) < 0 <=> Less(a, b)
         /\ memcmp(a, b) > 0 <=> Less(b, a)
         /\ memcmp(a, b) = 0 <=> a = b
<1> DEFINE D == {i \in 1..RAW_NAME_SIZE : a[i] # b[i]}
           m == Min(D)
<1>0. RAW_NAME_SIZE \in Nat /\ \A i \in 1..RAW_NAME_SIZE : a[i] \in 0..255 /\ b[i] \in 0..255
  BY HexNameAssumption DEF RawName
<1>1. CASE D = {}
  <2>1. a = b
    BY <1>1, SameName
  <2>2. memcmp(a, b) = 0
    BY <1>1 DEF memcmp
  <2>3. ~Less(a, b) /\ ~Less(b, a)
    BY <1>0, <2>1 DEF Less
  <2> QED
    BY <2>1, <2>2, <2>3
<1>2. CASE D # {}
  <2>1. D \in SUBSET Nat
    BY <1>0
  <2>2. \E x \in D : \A y \in D : x <= y
    <3> HIDE DEF D
    <3> QED
      BY <1>2, <2>1, LeastNatural
  <2>3. m \in D /\ \A y \in D : m <= y
    <3> HIDE DEF D
    <3> QED
      BY <2>2 DEF Min
  <2>4. memcmp(a, b) = a[m] - b[m]
    BY <1>2 DEF memcmp
  <2> HIDE DEF m
  <2>5. m \in 1..RAW_NAME_SIZE /\ a[m] # b[m]
    BY <2>3
  <2>6. \A j \in 1..RAW_NAME_SIZE : j < m => a[j] = b[j]
    BY <1>0, <2>3, <2>5
  <2>7. a[m] \in 0..255 /\ b[m] \in 0..255
    BY <1>0, <2>5
  <2>8. \A j \in 1..m - 1 : j \in 1..RAW_NAME_SIZE /\ j < m
    BY <1>0, <2>5
  <2>9. \A i \in 1..RAW_NAME_SIZE :
          (\A j \in 1..i - 1 : a[j] = b[j]) /\ a[i] # b[i] => i = m
    <3> TAKE i \in 1..RAW_NAME_SIZE
    <3> HAVE (\A j \in 1..i - 1 : a[j] = b[j]) /\ a[i] # b[i]
    <3>1. ~(i < m)
      BY <2>6
    <3>2. ~(m < i)
      <4> SUFFICES ASSUME m < i
                   PROVE  m \in 1..i - 1
        BY <2>5
      <4> QED
        BY <1>0, <2>5
    <3> QED
      BY <1>0, <2>5, <3>1, <3>2
  <2>10. Less(a, b) <=> a[m] < b[m]
    <3>1. ASSUME Less(a, b)
          PROVE  a[m] < b[m]
      <4>1. PICK i \in 1..RAW_NAME_SIZE : a[i] < b[i] /\ \A j \in 1..i - 1 : a[j] = b[j]
        BY <3>1 DEF Less
      <4>2. a[i] \in 0..255 /\ b[i] \in 0..255
        BY <1>0
      <4>3. a[i] # b[i]
        BY <4>1, <4>2
      <4> QED
        BY <2>9, <4>1, <4>3
    <3>2. ASSUME a[m] < b[m]
          PROVE  Less(a, b)
      BY <2>5, <2>6, <2>8, <3>2 DEF Less
    <3> QED
      BY <3>1, <3>2
  <2>11. Less(b, a) <=> b[m] < a[m]
    <3>1. ASSUME Less(b, a)
          PROVE  b[m] < a[m]
      <4>1. PICK i \in 1..RAW_NAME_SIZE : b[i] < a[i] /\ \A j \in 1..i - 1 : b[j] = a[j]
        BY <3>1 DEF Less
      <4>2. a[i] \in 0..255 /\ b[i] \in 0..255
        BY <1>0
      <4>3. a[i] # b[i]
        BY <4>1, <4>2
      <4>4. \A j \in 1..i - 1 : a[j] = b[j]
        BY <4>1
      <4> QED
        BY <2>9, <4>1, <4>3, <4>4
    <3>2. ASSUME b[m] < a[m]
          PROVE  Less(b, a)
      <4>1. \A j \in 1..m - 1 : b[j] = a[j]
        BY <2>6, <2>8
      <4> QED
        BY <2>5, <3>2, <4>1 DEF Less
    <3> QED
      BY <3>1, <3>2
  <2>12. a # b
    BY <2>5
  <2> HIDE DEF D
  <2>13. \A x, y \in 0..255 :
          x - y \in Int /\ (x - y < 0 <=> x < y) /\ (x - y > 0 <=> y < x) /\ (x - y = 0 <=> x = y)
    OBVIOUS
  <2>14. memcmp(a, b) \in Int /\ (memcmp(a, b) < 0 <=> a[m] < b[m]) /\ (memcmp(a, b) > 0 <=> b[m] < a[m])
         /\ memcmp(a, b) # 0
    <3>1. /\ a[m] - b[m] \in Int
          /\ a[m] - b[m] < 0 <=> a[m] < b[m]
          /\ a[m] - b[m] > 0 <=> b[m] < a[m]
          /\ a[m] - b[m] = 0 <=> a[m] = b[m]
      BY <2>7, <2>13
    <3> QED
      BY <2>4, <2>5, <3>1
  <2> QED
    BY <2>10, <2>11, <2>12, <2>14
<1> QED
  BY <1>1, <1>2

LEMMA LessTrans ==
  ASSUME NEW a \in RawName, NEW b \in RawName, NEW c \in RawName, Less(a, b), Less(b, c)
  PROVE  Less(a, c)
<1>0. RAW_NAME_SIZE \in Nat
      /\ \A i \in 1..RAW_NAME_SIZE : a[i] \in 0..255 /\ b[i] \in 0..255 /\ c[i] \in 0..255
  BY HexNameAssumption DEF RawName
<1>1. PICK i \in 1..RAW_NAME_SIZE : a[i] < b[i] /\ \A k \in 1..i - 1 : a[k] = b[k]
  BY DEF Less
<1>2. PICK j \in 1..RAW_NAME_SIZE : b[j] < c[j] /\ \A k \in 1..j - 1 : b[k] = c[k]
  BY DEF Less
<1>3. CASE i < j
  <2>1. i \in 1..j - 1
    BY <1>3
  <2>2. a[i] < c[i]
    BY <1>1, <1>2, <2>1
  <2>3. \A k \in 1..i - 1 : k \in 1..j - 1
    BY <1>3
  <2>4. \A k \in 1..i - 1 : a[k] = c[k]
    BY <1>1, <1>2, <2>3
  <2> QED
    BY <2>2, <2>4 DEF Less
<1>4. CASE i = j
  <2>1. a[i] < c[i]
    <3>1. a[i] < b[i] /\ b[i] < c[i]
      BY <1>1, <1>2, <1>4
    <3>2. a[i] \in 0..255 /\ b[i] \in 0..255 /\ c[i] \in 0..255
      BY <1>0
    <3>3. \A x, y, z \in 0..255 : x < y /\ y < z => x < z
      OBVIOUS
    <3> QED
      BY <3>1, <3>2, <3>3
  <2>2. \A k \in 1..i - 1 : a[k] = c[k]
    BY <1>1, <1>2, <1>4
  <2> QED
    BY <2>1, <2>2 DEF Less
<1>5. CASE j < i
  <2>1. j \in 1..i - 1
    BY <1>5
  <2>2. a[j] < c[j]
    BY <1>1, <1>2, <2>1
  <2>3. \A k \in 1..j - 1 : k \in 1..i - 1
    BY <1>5
  <2>4. \A k \in 1..j - 1 : a[k] = c[k]
    BY <1>1, <1>2, <2>3
  <2> QED
    BY <2>2, <2>4 DEF Less
<1> QED
  BY <1>3, <1>4, <1>5

\* The order of the texts is that of the bytes.
LEMMA TextOrder ==
  ASSUME NEW a \in RawName, NEW b \in RawName, NEW k \in 1..2 * RAW_NAME_SIZE,
         Nibble(a, k) < Nibble(b, k), \A j \in 1..k - 1 : Nibble(a, j) = Nibble(b, j)
  PROVE  Less(a, b)
<1>0. RAW_NAME_SIZE \in Nat /\ \A i \in 1..RAW_NAME_SIZE : a[i] \in 0..255 /\ b[i] \in 0..255
  BY HexNameAssumption DEF RawName
<1>1. PICK i \in 1..RAW_NAME_SIZE : k = 2 * i - 1 \/ k = 2 * i
  BY EvenOrOdd
<1>2. ASSUME NEW j \in 1..i - 1
      PROVE  a[j] = b[j]
  <2>1. j \in 1..RAW_NAME_SIZE
    BY <1>0, <1>2
  <2>2. 2 * j - 1 \in 1..k - 1 /\ 2 * j \in 1..k - 1
    BY <1>1, <1>2
  <2>3. a[j] \div 16 = b[j] \div 16 /\ a[j] % 16 = b[j] % 16
    BY <2>1, <2>2, Nibbles
  <2>4. a[j] = 16 * (a[j] \div 16) + (a[j] % 16) /\ b[j] = 16 * (b[j] \div 16) + (b[j] % 16)
    BY <1>0, <2>1, TwoDigits
  <2> QED
    BY <2>3, <2>4
<1>3. a[i] \in 0..255 /\ b[i] \in 0..255
  BY <1>0
<1>4. /\ a[i] = 16 * (a[i] \div 16) + (a[i] % 16) /\ a[i] \div 16 \in 0..15 /\ a[i] % 16 \in 0..15
      /\ b[i] = 16 * (b[i] \div 16) + (b[i] % 16) /\ b[i] \div 16 \in 0..15 /\ b[i] % 16 \in 0..15
  BY <1>3, TwoDigits
<1>5. a[i] < b[i]
  <2>1. CASE k = 2 * i - 1
    <3>1. a[i] \div 16 < b[i] \div 16
      BY <2>1, Nibbles
    <3>2. \A p, q, r, s \in 0..15 : p < r => 16 * p + q < 16 * r + s
      OBVIOUS
    <3>3. 16 * (a[i] \div 16) + (a[i] % 16) < 16 * (b[i] \div 16) + (b[i] % 16)
      BY <1>4, <3>1, <3>2
    <3> QED
      BY <1>4, <3>3
  <2>2. CASE k = 2 * i
    <3>1. a[i] % 16 < b[i] % 16
      BY <2>2, Nibbles
    <3>2. 2 * i - 1 \in 1..k - 1
      BY <2>2
    <3>3. a[i] \div 16 = b[i] \div 16
      BY <3>2, Nibbles
    <3> QED
      BY <1>4, <3>1, <3>3
  <2> QED
    BY <1>1, <2>1, <2>2
<1> QED
  BY <1>2, <1>5 DEF Less

----------------------------------------------------------------------------
\* What the writer holds: a record for every name it was asked for, and
\* nothing else; once written, in the order of memcmp().
Ordered(names) == \A i, j \in 1..Len(names) : i < j => memcmp(names[i], names[j]) <= 0

HoldsNames ==
  /\ asked \in Seq(HexNames)
  /\ records \in Seq(RawName)
  /\ \A j \in 1..Len(asked) : \E k \in 1..Len(records) : records[k] = Stored(asked[j])
  /\ \A k \in 1..Len(records) : \E j \in 1..Len(asked) : records[k] = Stored(asked[j])
  /\ sealed => Ordered(records)

LEMMA NamesAreStrings == \A hex \in HexNames \cup Lookups : Len(hex) \in Nat
  BY StringsAssumption

LEMMA InitHolds == Init => HoldsNames
<1> SUFFICES ASSUME Init
             PROVE  HoldsNames
  OBVIOUS
<1>1. asked = <<>> /\ records = <<>> /\ sealed = FALSE
  BY DEF Init
<1> QED
  BY <1>1 DEF HoldsNames

LEMMA AddRecordHolds ==
  ASSUME HoldsNames, NEW hex \in HexNames, AddRecord(hex)
  PROVE  HoldsNames'
<1> DEFINE raw == Stored(hex)
<1>1. /\ ~sealed /\ sealed' = sealed
      /\ asked' = Append(asked, hex) /\ records' = Append(records, raw)
  BY DEF AddRecord, Stored
<1>2. raw \in RawName
  BY NamesAreStrings, StoredType
<1>3. asked \in Seq(HexNames) /\ records \in Seq(RawName)
  BY DEF HoldsNames
<1> DEFINE n == Len(asked)  m == Len(records)
<1>4. n \in Nat /\ m \in Nat /\ Len(asked') = n + 1 /\ Len(records') = m + 1
  BY <1>1, <1>2, <1>3
<1>5. asked' \in Seq(HexNames) /\ records' \in Seq(RawName)
  BY <1>1, <1>2, <1>3
<1>6. /\ \A j \in 1..n : asked'[j] = asked[j]
      /\ asked'[n + 1] = hex
      /\ \A k \in 1..m : records'[k] = records[k]
      /\ records'[m + 1] = raw
  BY <1>1, <1>2, <1>3
<1>7. /\ \A j \in 1..n : \E k \in 1..m : records[k] = Stored(asked[j])
      /\ \A k \in 1..m : \E j \in 1..n : records[k] = Stored(asked[j])
  BY DEF HoldsNames
<1>8. n + 1 \in 1..n + 1 /\ m + 1 \in 1..m + 1
      /\ (\A j \in 1..n : j \in 1..n + 1) /\ (\A k \in 1..m : k \in 1..m + 1)
      /\ (\A j \in 1..n + 1 : j \in 1..n \/ j = n + 1) /\ (\A k \in 1..m + 1 : k \in 1..m \/ k = m + 1)
  BY <1>4
<1>9. raw = Stored(hex)
  OBVIOUS
<1> HIDE DEF raw, n, m
<1>10. ASSUME NEW j \in 1..n + 1
       PROVE  \E k \in 1..m + 1 : records'[k] = Stored(asked'[j])
  <2>1. CASE j = n + 1
    BY <1>6, <1>8, <1>9, <2>1
  <2>2. CASE j \in 1..n
    <3>1. PICK k \in 1..m : records[k] = Stored(asked[j])
      BY <1>7, <2>2
    <3>2. records'[k] = Stored(asked'[j])
      BY <1>6, <2>2, <3>1
    <3> QED
      BY <1>8, <3>2
  <2> QED
    BY <1>8, <2>1, <2>2
<1>11. ASSUME NEW k \in 1..m + 1
       PROVE  \E j \in 1..n + 1 : records'[k] = Stored(asked'[j])
  <2>1. CASE k = m + 1
    BY <1>6, <1>8, <1>9, <2>1
  <2>2. CASE k \in 1..m
    <3>1. PICK j \in 1..n : records[k] = Stored(asked[j])
      BY <1>7, <2>2
    <3>2. records'[k] = Stored(asked'[j])
      BY <1>6, <2>2, <3>1
    <3> QED
      BY <1>8, <3>2
  <2> QED
    BY <1>8, <2>1, <2>2
<1>12. ~sealed'
  BY <1>1
<1>13. /\ \A j \in 1..Len(asked') : \E k \in 1..Len(records') : records'[k] = Stored(asked'[j])
       /\ \A k \in 1..Len(records') : \E j \in 1..Len(asked') : records'[k] = Stored(asked'[j])
  BY <1>4, <1>10, <1>11
<1> QED
  BY <1>5, <1>12, <1>13 DEF HoldsNames

LEMMA FinishHolds ==
  ASSUME HoldsNames, Finish
  PROVE  HoldsNames'
<1> DEFINE m == Len(records)
<1>1. PICK p \in Reorders(m) :
        /\ \A i, j \in 1..m : i < j => memcmp(records[p[i]], records[p[j]]) <= 0
        /\ records' = Reordered(records, p)
  BY DEF Finish
<1>2. records \in Seq(RawName) /\ m \in Nat /\ asked' = asked
  BY DEF HoldsNames, Finish
<1>3. p \in [1..m -> 1..m]
  BY <1>1 DEF Reorders
<1>4. records' = [i \in 1..m |-> records[p[i]]]
  BY <1>1 DEF Reordered
<1>5. records' \in Seq(RawName) /\ Len(records') = m
  BY <1>2, <1>3, <1>4
<1>6. \A i \in 1..m : records'[i] = records[p[i]] /\ p[i] \in 1..m
  BY <1>3, <1>4
<1>7. /\ \A j \in 1..Len(asked) : \E k \in 1..m : records[k] = Stored(asked[j])
      /\ \A k \in 1..m : \E j \in 1..Len(asked) : records[k] = Stored(asked[j])
      /\ asked \in Seq(HexNames)
  BY DEF HoldsNames
<1> HIDE DEF m
<1>8. ASSUME NEW j \in 1..Len(asked)
      PROVE  \E k \in 1..m : records'[k] = Stored(asked[j])
  <2>1. PICK k \in 1..m : records[k] = Stored(asked[j])
    BY <1>7
  <2>2. PICK i \in 1..m : p[i] = k
    BY <1>1, <1>2, Onto
  <2> QED
    BY <1>6, <2>1, <2>2
<1>9. \A k \in 1..m : \E j \in 1..Len(asked) : records'[k] = Stored(asked[j])
  <2> TAKE k \in 1..m
  <2>1. records'[k] = records[p[k]] /\ p[k] \in 1..m
    BY <1>6
  <2>2. PICK j \in 1..Len(asked) : records[p[k]] = Stored(asked[j])
    BY <1>7, <2>1
  <2> QED
    BY <2>1, <2>2
<1>10. \A i, j \in 1..m : i < j => memcmp(records'[i], records'[j]) <= 0
  BY <1>1, <1>6
<1>11. Ordered(records')
  BY <1>5, <1>10 DEF Ordered
<1> QED
  BY <1>2, <1>5, <1>7, <1>8, <1>9, <1>11 DEF HoldsNames

\* In every state the records are those that were asked for, and a written
\* file has them in the order of their bytes.
THEOREM RecordsOfNames == Spec => []HoldsNames
<1>1. Init => HoldsNames
  BY InitHolds
<1>2. HoldsNames /\ [Next]_vars => HoldsNames'
  <2> SUFFICES ASSUME HoldsNames, [Next]_vars
               PROVE  HoldsNames'
    OBVIOUS
  <2>1. CASE Finish
    BY <2>1, FinishHolds
  <2>2. ASSUME NEW hex \in HexNames, AddRecord(hex)
        PROVE  HoldsNames'
    BY <2>2, AddRecordHolds
  <2>3. CASE UNCHANGED vars
    BY <2>3 DEF vars, HoldsNames
  <2> QED
    BY <2>1, <2>2, <2>3 DEF Next
<1> QED
  BY <1>1, <1>2, PTL DEF Spec

----------------------------------------------------------------------------
\* Where a digit of a text comes in the order of digits, and the order of
\* texts.
Place(c) == CHOOSE v \in 1..16 : Lower[v] = c
Before(s, t) == \E k \in 1..Len(s) : /\ \A j \in 1..k - 1 : s[j] = t[j]
                                     /\ Place(s[k]) < Place(t[k])

LEMMA TextLength ==
  ASSUME NEW raw \in RawName
  PROVE  Len(raw_name_to_hex_name(raw)) = 2 * RAW_NAME_SIZE
<1> DEFINE text == raw_name_to_hex_name(raw)
<1>1. text = [k \in 1..2 * RAW_NAME_SIZE |-> Lower[Nibble(raw, k) + 1]]
  BY TextOf
<1>2. \A k \in 1..2 * RAW_NAME_SIZE : Nibble(raw, k) + 1 \in 1..16
  <2> TAKE k \in 1..2 * RAW_NAME_SIZE
  <2>1. Nibble(raw, k) \in 0..15
    BY NibbleType
  <2> QED
    BY <2>1
<1> DEFINE Digit == {Lower[v] : v \in 1..16}
<1>3. text \in [1..2 * RAW_NAME_SIZE -> Digit]
  <2>1. \A k \in 1..2 * RAW_NAME_SIZE : Lower[Nibble(raw, k) + 1] \in Digit
    BY <1>2
  <2> HIDE DEF Digit
  <2> QED
    BY <1>1, <2>1
<1>6. 2 * RAW_NAME_SIZE \in Nat
  BY HexNameAssumption
<1> HIDE DEF text, Digit
<1>4. text \in Seq(Digit) /\ DOMAIN text = 1..2 * RAW_NAME_SIZE
  BY <1>3, <1>6
<1>5. Len(text) = 2 * RAW_NAME_SIZE
  BY <1>4, <1>6
<1> QED
  BY <1>5 DEF text

LEMMA TextPlaces ==
  ASSUME NEW raw \in RawName, NEW k \in 1..2 * RAW_NAME_SIZE
  PROVE  Place(raw_name_to_hex_name(raw)[k]) = Nibble(raw, k) + 1
<1> DEFINE n == Nibble(raw, k) + 1
<1>1. n \in 1..16
  <2>1. Nibble(raw, k) \in 0..15
    BY NibbleType
  <2> QED
    BY <2>1
<1>2. raw_name_to_hex_name(raw)[k] = Lower[n]
  BY TextOf
<1> HIDE DEF n
<1>3. Place(Lower[n]) = n
  BY <1>1, LowerInjective DEF Place
<1>4. Place(raw_name_to_hex_name(raw)[k]) = n
  BY <1>2, <1>3
<1> QED
  BY <1>4 DEF n

LEMMA TextBefore ==
  ASSUME NEW a \in RawName, NEW b \in RawName,
         Before(raw_name_to_hex_name(a), raw_name_to_hex_name(b))
  PROVE  Less(a, b)
<1>1. PICK k \in 1..Len(raw_name_to_hex_name(a)) :
        /\ \A j \in 1..k - 1 : raw_name_to_hex_name(a)[j] = raw_name_to_hex_name(b)[j]
        /\ Place(raw_name_to_hex_name(a)[k]) < Place(raw_name_to_hex_name(b)[k])
  BY DEF Before
<1>2. k \in 1..2 * RAW_NAME_SIZE
  BY <1>1, TextLength
<1>3. Nibble(a, k) < Nibble(b, k)
  <2>1. Nibble(a, k) + 1 < Nibble(b, k) + 1
    BY <1>1, <1>2, TextPlaces
  <2>2. Nibble(a, k) \in 0..15 /\ Nibble(b, k) \in 0..15
    BY <1>2, NibbleType
  <2>3. \A x, y \in 0..15 : x + 1 < y + 1 => x < y
    OBVIOUS
  <2> QED
    BY <2>1, <2>2, <2>3
<1>4. ASSUME NEW j \in 1..k - 1
      PROVE  Nibble(a, j) = Nibble(b, j)
  <2>1. j \in 1..2 * RAW_NAME_SIZE
    BY <1>2, HexNameAssumption
  <2>2. Place(raw_name_to_hex_name(a)[j]) = Place(raw_name_to_hex_name(b)[j])
    BY <1>1
  <2>3. Nibble(a, j) + 1 = Nibble(b, j) + 1
    BY <2>1, <2>2, TextPlaces
  <2>4. Nibble(a, j) \in 0..15 /\ Nibble(b, j) \in 0..15
    BY <2>1, NibbleType
  <2>5. \A x, y \in 0..15 : x + 1 = y + 1 => x = y
    OBVIOUS
  <2> QED
    BY <2>3, <2>4, <2>5
<1> QED
  BY <1>2, <1>3, <1>4, TextOrder

LEMMA OrderedTexts == HoldsNames => InTextOrder
<1> SUFFICES ASSUME HoldsNames, sealed
             PROVE  InTextOrder
  BY DEF InTextOrder
<1>1. ASSUME NEW k \in 2..Len(records)
      PROVE  ~Before(raw_name_to_hex_name(records[k]), raw_name_to_hex_name(records[k - 1]))
  <2>1. k - 1 \in 1..Len(records) /\ k \in 1..Len(records) /\ k - 1 < k
    BY DEF HoldsNames
  <2>2. records[k] \in RawName /\ records[k - 1] \in RawName
    BY <2>1 DEF HoldsNames
  <2>3. memcmp(records[k - 1], records[k]) <= 0
    BY <2>1 DEF HoldsNames, Ordered
  <2>4. /\ memcmp(records[k - 1], records[k]) \in Int
        /\ memcmp(records[k - 1], records[k]) > 0 <=> Less(records[k], records[k - 1])
    BY <2>2, Compare
  <2>5. ~Less(records[k], records[k - 1])
    BY <2>3, <2>4
  <2> QED
    BY <2>2, <2>5, TextBefore
<1> QED
  BY <1>1 DEF InTextOrder, Before, Place

\* The records of a file are in the order of their names as text, whatever
\* strings they were added under: what finish() of the writers sorts by
\* memcmp() a listing shows sorted.
THEOREM FileInTextOrder == Spec => []InTextOrder
  BY RecordsOfNames, OrderedTexts, PTL

----------------------------------------------------------------------------
\* A name added under a string that is not a name, of which add_record stores
\* the part that is one and zeros, is not stored as one that is looked up.
StrangersApart ==
  \A hex \in HexNames, other \in Lookups :
    ~IsHex(hex) /\ IsHex(other) => Stored(hex) # Stored(other)

LEMMA SpellingOf ==
  ASSUME NEW hex, Len(hex) \in Nat
  PROVE  IsHex(hex) <=> Spelling(hex) # <<>>
<1> DEFINE digit(c) == CHOOSE v \in 1..16 : c \in {Lower[v], Upper[v]}
           text == [k \in 1..2 * RAW_NAME_SIZE |-> Lower[digit(hex[k])]]
           Short == \E k \in 1..2 * RAW_NAME_SIZE : k > Len(hex) \/ ~g_ascii_isxdigit(hex[k])
<1>1. Short <=> ~IsHex(hex)
  <2>1. ASSUME NEW k \in 1..2 * RAW_NAME_SIZE, k > Len(hex)
        PROVE  ~IsHex(hex)
    BY <2>1, HexNameAssumption DEF IsHex
  <2>2. ASSUME NEW k \in 1..2 * RAW_NAME_SIZE, ~g_ascii_isxdigit(hex[k])
        PROVE  ~IsHex(hex)
    BY <2>2 DEF IsHex
  <2>3. ASSUME Len(hex) < 2 * RAW_NAME_SIZE
        PROVE  Short
    <3>1. 2 * RAW_NAME_SIZE \in 1..2 * RAW_NAME_SIZE /\ 2 * RAW_NAME_SIZE > Len(hex)
      BY <2>3, HexNameAssumption
    <3> QED
      BY <3>1
  <2>4. ASSUME NEW k \in 1..2 * RAW_NAME_SIZE, ~g_ascii_isxdigit(hex[k])
        PROVE  Short
    BY <2>4
  <2>5. ~IsHex(hex) => Short
    BY <2>3, <2>4, HexNameAssumption DEF IsHex
  <2> QED
    BY <2>1, <2>2, <2>5
<1>2. Spelling(hex) = IF Short THEN <<>> ELSE text
  BY DEF Spelling
<1>3. text # <<>>
  <2>1. 1 \in 1..2 * RAW_NAME_SIZE
    BY HexNameAssumption
  <2>2. 1 \in DOMAIN text
    BY <2>1
  <2>3. 1 \notin DOMAIN <<>>
    OBVIOUS
  <2> HIDE DEF text
  <2> QED
    BY <2>2, <2>3
<1> HIDE DEF text, Short
<1> QED
  BY <1>1, <1>2, <1>3

\* Two names are one record exactly when they are spelled alike.
LEMMA SameRecord ==
  ASSUME NEW a, NEW b, Len(a) \in Nat, Len(b) \in Nat, IsHex(a), IsHex(b)
  PROVE  Stored(a) = Stored(b) <=> Spelling(a) = Spelling(b)
<1>1. raw_name_to_hex_name(Stored(a)) = Spelling(a) /\ raw_name_to_hex_name(Stored(b)) = Spelling(b)
  BY TextOfStored
<1>2. Stored(a) \in RawName /\ Stored(b) \in RawName
  BY StoredType
<1>3. Stored(a) = Stored(b) => Spelling(a) = Spelling(b)
  BY <1>1
<1>4. Spelling(a) = Spelling(b) => Stored(a) = Stored(b)
  BY <1>1, <1>2, TextInjective
<1> QED
  BY <1>3, <1>4

\* The comparisons of a search in a written file fall where the names do.
LEMMA SearchOrder ==
  ASSUME HoldsNames, sealed, NEW raw \in RawName
  PROVE  Ascending(Len(records), [k \in 1..Len(records) |-> memcmp(raw, records[k])])
<1> DEFINE n == Len(records)
           compar == [k \in 1..n |-> memcmp(raw, records[k])]
<1>1. \A k \in 1..n : records[k] \in RawName
  BY DEF HoldsNames
<1>2. \A k \in 1..n : compar[k] = memcmp(raw, records[k]) /\ compar[k] \in Int
  BY <1>1, Compare
<1>3. compar \in [1..n -> Int]
  BY <1>2
<1>4. ASSUME NEW i \in 1..n, NEW j \in 1..n, i < j
      PROVE  memcmp(records[i], records[j]) \in Int /\ ~(memcmp(records[i], records[j]) > 0)
  <2>1. memcmp(records[i], records[j]) \in Int
    BY <1>1, Compare
  <2>2. memcmp(records[i], records[j]) <= 0
    BY <1>4 DEF HoldsNames, Ordered
  <2> QED
    BY <2>1, <2>2
<1>5. ASSUME NEW i \in 1..n, NEW j \in 1..n, i < j
      PROVE  Less(records[i], records[j]) \/ records[i] = records[j]
  <2>1. memcmp(records[i], records[j]) < 0 \/ memcmp(records[i], records[j]) = 0
    BY <1>4, <1>5
  <2> QED
    BY <1>1, <2>1, Compare
<1>6. ASSUME NEW i \in 1..n, NEW j \in 1..n, i < j, compar[i] < 0
      PROVE  compar[j] < 0
  <2>1. Less(raw, records[i])
    BY <1>1, <1>2, <1>6, Compare
  <2>2. Less(raw, records[j])
    BY <1>1, <1>5, <1>6, <2>1, LessTrans
  <2> QED
    BY <1>1, <1>2, <2>2, Compare
<1>7. ASSUME NEW i \in 1..n, NEW j \in 1..n, i < j, compar[j] > 0
      PROVE  compar[i] > 0
  <2>1. Less(records[j], raw)
    BY <1>1, <1>2, <1>7, Compare
  <2>2. Less(records[i], raw)
    BY <1>1, <1>5, <1>7, <2>1, LessTrans
  <2> QED
    BY <1>1, <1>2, <2>2, Compare
<1> HIDE DEF compar
<1>8. Ascending(n, compar)
  BY <1>3, <1>6, <1>7 DEF Ascending
<1> QED
  BY <1>8 DEF compar

\* What a search returns: nothing for a string that is no name; the name, if
\* a record has it; else nothing.
LEMMA Finds ==
  ASSUME HoldsNames, sealed, NEW hex \in Lookups, NEW old
  PROVE  /\ ~IsHex(hex) => find_record_by_hex_name(old, hex) = {}
         /\ IsHex(hex) => find_record_by_hex_name(old, hex)
              = {records[k] : k \in {i \in 1..Len(records) : records[i] = Stored(hex)}}
<1> DEFINE n == Len(records)
           raw == Stored(hex)
           compar == [k \in 1..n |-> memcmp(raw, records[k])]
           K == bsearch(n, compar)
<1>0. Len(hex) \in Nat
  BY NamesAreStrings
<1>1. ~IsHex(hex) => find_record_by_hex_name(old, hex) = {}
  BY <1>0, HexConverted DEF find_record_by_hex_name
<1>2. ASSUME IsHex(hex)
      PROVE  find_record_by_hex_name(old, hex)
              = {records[k] : k \in {i \in 1..n : records[i] = raw}}
  <2>1. find_record_by_hex_name(old, hex) = {records[k] : k \in K}
    BY <1>0, <1>2, HexConverted DEF find_record_by_hex_name
  <2>2. raw \in RawName
    BY <1>0, StoredType
  <2>3. Ascending(n, compar) /\ n \in Nat
    BY <2>2, SearchOrder DEF HoldsNames
  <2>4. \A k \in 1..n : compar[k] = 0 <=> records[k] = raw
    <3> TAKE k \in 1..n
    <3>1. records[k] \in RawName /\ compar[k] = memcmp(raw, records[k])
      BY DEF HoldsNames
    <3>2. memcmp(raw, records[k]) = 0 <=> raw = records[k]
      BY <2>2, <3>1, Compare
    <3> QED
      BY <3>1, <3>2
  <2> HIDE DEF raw, compar
  <2>5. K \subseteq {k \in 1..n : compar[k] = 0} /\ (K = {} => \A k \in 1..n : compar[k] # 0)
    BY <2>3, SearchFinds
  <2> HIDE DEF n, K
  <2>6. \A k \in K : k \in 1..n /\ records[k] = raw
    BY <2>4, <2>5
  <2>7. \A k \in 1..n : records[k] = raw => K # {}
    BY <2>4, <2>5
  <2> QED
    BY <2>1, <2>6, <2>7
<1> QED
  BY <1>1, <1>2

LEMMA NamesFound ==
  ASSUME StrangersApart, HoldsNames
  PROVE  FoundByName
<1> SUFFICES ASSUME sealed, NEW hex \in Lookups, NEW kk \in 1..Len(records)
             PROVE  {raw_name_to_hex_name(r) : r \in find_record_by_hex_name(records[kk], hex)}
                      = {Spelling(asked[j]) : j \in {i \in 1..Len(asked) : Spelling(asked[i]) = Spelling(hex)}}
                          \ {<<>>}
  BY DEF FoundByName
<1> DEFINE found == find_record_by_hex_name(records[kk], hex)
           alike == {i \in 1..Len(asked) : Spelling(asked[i]) = Spelling(hex)}
<1>0. Len(hex) \in Nat
  BY NamesAreStrings
<1>1. \A j \in 1..Len(asked) : asked[j] \in HexNames /\ Len(asked[j]) \in Nat
  BY NamesAreStrings DEF HoldsNames
<1>2. CASE ~IsHex(hex)
  <2>1. found = {}
    BY <1>2, Finds
  <2>2. Spelling(hex) = <<>>
    BY <1>0, <1>2, SpellingOf
  <2>3. \A j \in alike : Spelling(asked[j]) = <<>>
    BY <2>2
  <2> HIDE DEF found, alike
  <2>4. {raw_name_to_hex_name(r) : r \in found} = {} /\ {Spelling(asked[j]) : j \in alike} \ {<<>>} = {}
    BY <2>1, <2>3
  <2> QED
    BY <2>4 DEF found, alike
<1>3. CASE IsHex(hex)
  <2> DEFINE at == {i \in 1..Len(records) : records[i] = Stored(hex)}
  <2>1. found = {records[k] : k \in at}
    BY <1>3, Finds
  <2>2. \A k \in at : raw_name_to_hex_name(records[k]) = Spelling(hex)
    BY <1>0, <1>3, TextOfStored
  <2>3. \A j \in alike : Spelling(asked[j]) = Spelling(hex)
    OBVIOUS
  <2>4. Spelling(hex) # <<>>
    BY <1>0, <1>3, SpellingOf
  <2>5. ASSUME NEW k \in at
        PROVE  alike # {}
    <3>1. PICK j \in 1..Len(asked) : Stored(hex) = Stored(asked[j])
      BY DEF HoldsNames
    <3>2. IsHex(asked[j])
      BY <1>1, <1>3, <3>1 DEF StrangersApart
    <3>3. Spelling(asked[j]) = Spelling(hex)
      BY <1>0, <1>1, <1>3, <3>1, <3>2, SameRecord
    <3> QED
      BY <3>3
  <2>6. ASSUME NEW j \in alike
        PROVE  at # {}
    <3>1. j \in 1..Len(asked) /\ Spelling(asked[j]) = Spelling(hex)
      OBVIOUS
    <3>2. IsHex(asked[j])
      BY <1>1, <2>4, <3>1, SpellingOf
    <3>3. Stored(asked[j]) = Stored(hex)
      BY <1>0, <1>1, <1>3, <3>1, <3>2, SameRecord
    <3>4. PICK k \in 1..Len(records) : records[k] = Stored(asked[j])
      BY <3>1 DEF HoldsNames
    <3> QED
      BY <3>3, <3>4
  <2> HIDE DEF found, alike, at
  <2>7. {raw_name_to_hex_name(r) : r \in found} = IF at = {} THEN {} ELSE {Spelling(hex)}
    BY <2>1, <2>2
  <2>8. {Spelling(asked[j]) : j \in alike} \ {<<>>} = IF alike = {} THEN {} ELSE {Spelling(hex)}
    BY <2>3, <2>4
  <2>9. at = {} <=> alike = {}
    BY <2>5, <2>6
  <2> QED
    BY <2>7, <2>8, <2>9 DEF found, alike
<1> QED
  BY <1>2, <1>3

\* A record is found by every spelling of its name and by nothing else, and
\* gives that name in lower case, for names of every length and files of
\* every number of records, and whatever the uninitialized buffer held.
THEOREM Found == ASSUME StrangersApart PROVE Spec => []FoundByName
  BY RecordsOfNames, NamesFound, PTL
=============================================================================
