-------------------------- MODULE BlobStreamProofs --------------------------
(***************************************************************************)
(* Proofs about BlobStream: for every width of the integers, every size of *)
(* a blob and every sequence of seeks and reads, the stream is the one     *)
(* ByteStream describes.                                                   *)
(***************************************************************************)
EXTENDS BlobStream, TLAPS

----------------------------------------------------------------------------
\* The arithmetic of a gsize and of a goffset.

LEMMA HalfPositive == Half \in Nat /\ Half > 0 /\ GSIZE_MOD = 2 * Half
BY GsizeAssumption, SMT DEF Half

LEMMA GsizeSmall ==
  ASSUME NEW x \in 0..GSIZE_MOD - 1
  PROVE  gsize(x) = x
BY GsizeAssumption, SMT DEF gsize

LEMMA GsizeNegative ==
  ASSUME NEW x \in Int, -GSIZE_MOD <= x, x < 0
  PROVE  gsize(x) = x + GSIZE_MOD
BY GsizeAssumption, SMT DEF gsize

LEMMA GoffsetSmall ==
  ASSUME NEW x \in Offsets
  PROVE  goffset(x) = x
<1>1. x + Half \in 0..GSIZE_MOD - 1
  BY HalfPositive, SMT DEF Offsets
<1>2. (x + Half) % GSIZE_MOD = x + Half
  BY <1>1, GsizeSmall DEF gsize
<1> QED
  BY <1>2, HalfPositive, SMT DEF goffset, Offsets

LEMMA GoffsetLarge ==
  ASSUME NEW x \in Int, Half <= x, x < GSIZE_MOD + Half
  PROVE  goffset(x) = x - GSIZE_MOD
<1>1. x - Half \in 0..GSIZE_MOD - 1
  BY HalfPositive, SMT
<1>2. (x + Half) % GSIZE_MOD = x - Half
  BY <1>1, GsizeAssumption, HalfPositive, SMT
<1> QED
  BY <1>2, HalfPositive, SMT DEF goffset

\* A sum is wrapped to a value out of the blob, or it is exact.
LEMMA GoffsetOfGsize ==
  ASSUME NEW x \in Int, -Half <= x, x < GSIZE_MOD
  PROVE  /\ goffset(x) = IF x < Half THEN x ELSE x - GSIZE_MOD
         /\ goffset(gsize(x)) = goffset(x)
<1>1. goffset(x) = IF x < Half THEN x ELSE x - GSIZE_MOD
  <2>1. CASE x < Half
    <3>1. x \in Offsets
      BY <2>1, HalfPositive, SMT DEF Offsets
    <3> QED
      BY <2>1, <3>1, GoffsetSmall
  <2>2. CASE ~(x < Half)
    <3>1. Half <= x /\ x < GSIZE_MOD + Half
      BY <2>2, HalfPositive, SMT
    <3> QED
      BY <2>2, <3>1, GoffsetLarge
  <2> QED
    BY <2>1, <2>2
<1>2. goffset(gsize(x)) = goffset(x)
  <2>1. CASE x >= 0
    <3>1. x \in 0..GSIZE_MOD - 1
      BY <2>1, HalfPositive, SMT
    <3> QED
      BY <3>1, GsizeSmall
  <2>2. CASE x < 0
    <3>1. gsize(x) = x + GSIZE_MOD
      BY <2>2, GsizeNegative, HalfPositive, SMT
    <3> DEFINE y == x + GSIZE_MOD
    <3>2. y \in Int /\ Half <= y /\ y < GSIZE_MOD + Half /\ y - GSIZE_MOD = x
      BY <2>2, HalfPositive, SMT
    <3> HIDE DEF y
    <3>4. goffset(y) = x
      BY <3>2, GoffsetLarge
    <3>3. x < Half
      BY <2>2, HalfPositive, SMT
    <3> QED
      BY <1>1, <3>1, <3>3, <3>4 DEF y
  <2> QED
    BY <2>1, <2>2, SMT
<1> QED
  BY <1>1, <1>2

\* A size is the value of a goffset.
LEMMA SizeSmall ==
  ASSUME size \in Sizes
  PROVE  size \in Nat /\ size < Half
BY SizesAssumption, HalfPositive, SMT

----------------------------------------------------------------------------
\* A seek is accepted if and only if its target, in the integers, is in the
\* blob or at its end, and then leads there: no sum that wraps is taken for a
\* position (eos_shard_blob_stream_seek).
LEMMA SeekExact ==
  ASSUME size \in Sizes, pos \in 0..size,
         NEW offset \in Offsets, NEW type \in Types
  PROVE  /\ ~Invalid(Absolute(offset, type)) <=> Stream!Target(offset, type) \in 0..size
         /\ ~Invalid(Absolute(offset, type)) =>
              Absolute(offset, type) = Stream!Target(offset, type)
<1> DEFINE target == Stream!Target(offset, type)
           absolute == Absolute(offset, type)
<1>1. /\ target \in Int /\ -Half <= target /\ target < GSIZE_MOD
      /\ offset \in Int /\ -Half <= offset /\ offset < Half
  BY SizeSmall, HalfPositive, SMT DEF Stream!Target, Offsets, Types
<1>2. absolute = IF target < Half THEN target ELSE target - GSIZE_MOD
  <2>1. CASE type = "CUR"
    <3>1. target = pos + offset
      BY <1>1, <2>1, SizeSmall, SMT DEF Stream!Target
    <3> QED
      BY <1>1, <2>1, <3>1, GoffsetOfGsize DEF Absolute
  <2>2. CASE type = "SET"
    <3>1. target = offset
      BY <1>1, <2>2, SMT DEF Stream!Target
    <3> QED
      BY <1>1, <2>2, <3>1 DEF Absolute
  <2>3. CASE type = "END"
    <3>1. target = size + offset
      BY <1>1, <2>3, SizeSmall, SMT DEF Stream!Target
    <3> QED
      BY <1>1, <2>3, <3>1, GoffsetOfGsize DEF Absolute
  <2> QED
    BY <2>1, <2>2, <2>3 DEF Types
<1> HIDE DEF target, absolute
<1>3. absolute \in Int /\ absolute < Half
  BY <1>1, <1>2, HalfPositive, SMT
<1>4. absolute >= 0 => gsize(absolute) = absolute
  <2>1. absolute >= 0 => absolute \in 0..GSIZE_MOD - 1
    BY <1>3, HalfPositive, SMT
  <2> QED
    BY <2>1, GsizeSmall
<1>5. ~Invalid(absolute) <=> absolute \in 0..size
  BY <1>3, <1>4, SizeSmall, SMT DEF Invalid
<1>6. absolute \in 0..size <=> target \in 0..size
  BY <1>1, <1>2, SizeSmall, HalfPositive, SMT
<1>7. absolute \in 0..size => absolute = target
  BY <1>1, <1>2, SizeSmall, HalfPositive, SMT
<1> QED
  BY <1>5, <1>6, <1>7 DEF target, absolute

\* What a read may take: no more than was asked for, or than is left.
LEMMA LeftBound ==
  ASSUME size \in Sizes, pos \in 0..size, NEW count \in Counts
  PROVE  /\ Left(count) \in 0..GSIZE_MOD - 1
         /\ Left(count) <= count /\ Left(count) <= size - pos
<1>1. count \in Nat /\ count < GSIZE_MOD
  BY CountsAssumption, HalfPositive, SMT
<1>2. gsize(size - pos) = size - pos
  <2>1. size - pos \in 0..GSIZE_MOD - 1
    BY SizeSmall, HalfPositive, SMT
  <2> QED
    BY <2>1, GsizeSmall
<1> DEFINE left == size - pos
<1>3. left \in Nat /\ left < GSIZE_MOD
  BY SizeSmall, HalfPositive, SMT
<1> HIDE DEF left
<1>4. \E m \in {count, left} : \A y \in {count, left} : m <= y
  BY <1>1, <1>3, SMT
<1>5. Left(count) = CHOOSE m \in {count, left} : \A y \in {count, left} : m <= y
  BY <1>2 DEF Left, Min, left
<1>6. Left(count) \in {count, left} /\ \A y \in {count, left} : Left(count) <= y
  BY <1>4, <1>5, Zenon
<1>7. Left(count) \in 0..GSIZE_MOD - 1 /\ Left(count) <= count /\ Left(count) <= left
  BY <1>1, <1>3, <1>6, HalfPositive, SMT
<1> QED
  BY <1>7 DEF left

----------------------------------------------------------------------------
\* The inductive invariant: what a read under way has computed still holds
\* when it is used, since nobody moves the position beside it.
ReadInBlob ==
  /\ reading.pc = "pread" => reading.actual_count <= size - pos
  /\ reading.pc = "advance" =>
       /\ reading.from = pos
       /\ reading.size_read <= size - pos
       /\ reading.size_read <= reading.count

StreamInv == TypeOK /\ PosInBlob /\ ReadInBlob /\ OnlyThisBlob

LEMMA ReadStates ==
  ASSUME reading \in ReadState
  PROVE  /\ reading.pc \in {"start", "pread", "advance"} => reading.count \in Counts
         /\ reading.pc = "pread" => reading.actual_count \in 0..GSIZE_MOD - 1
         /\ reading.pc = "advance" => reading.from \in Nat /\ reading.size_read \in Nat
BY SMT DEF ReadState

LEMMA StreamInvInit == Init => StreamInv
<1> SUFFICES ASSUME Init
             PROVE  StreamInv
  OBVIOUS
<1> USE DEF Init
<1>1. TypeOK
  BY HalfPositive, SMT DEF TypeOK, ReadState, Idle, Offsets
<1>2. PosInBlob
  BY SizeSmall, SMT DEF PosInBlob
<1>3. ReadInBlob
  BY DEF ReadInBlob, Idle
<1>4. OnlyThisBlob
  BY DEF OnlyThisBlob
<1> QED
  BY <1>1, <1>2, <1>3, <1>4 DEF StreamInv

\* seek, when no read is under way.
LEMMA StreamInvSeek ==
  ASSUME StreamInv, Waiting, NEW offset \in Offsets, NEW type \in Types, Seek(offset, type)
  PROVE  StreamInv'
<1> DEFINE absolute == Absolute(offset, type)
           target == Stream!Target(offset, type)
<1>1. size \in Sizes /\ pos \in 0..size /\ size \in Nat /\ size < Half
  BY SizeSmall DEF StreamInv, TypeOK, PosInBlob
<1>2. /\ ~Invalid(absolute) <=> target \in 0..size
      /\ ~Invalid(absolute) => absolute = target
  BY <1>1, SeekExact
<1>3. /\ pos' = IF Invalid(absolute) THEN pos ELSE absolute
      /\ answer'.call = "seek"
      /\ size' = size /\ reading' = reading
  BY DEF Seek
<1> HIDE DEF absolute, target
<1>4. pos' \in 0..size
  BY <1>1, <1>2, <1>3
<1>5. pos' \in Offsets
  BY <1>1, <1>4, HalfPositive, SMT DEF Offsets
<1> QED
  BY <1>1, <1>3, <1>4, <1>5 DEF StreamInv, TypeOK, PosInBlob, ReadInBlob, OnlyThisBlob, Waiting

\* A read: the call, and its three looks at the position.
LEMMA StreamInvRead ==
  ASSUME StreamInv, Read \/ \E count \in Counts : ReadCall(count)
  PROVE  StreamInv'
<1>1. size \in Sizes /\ pos \in 0..size /\ size \in Nat /\ size < Half /\ pos \in Offsets
  BY SizeSmall DEF StreamInv, TypeOK, PosInBlob
<1>2. reading \in ReadState
  BY DEF StreamInv, TypeOK
<1>3. CASE \E count \in Counts : ReadCall(count)
  <2>1. PICK count \in Counts : ReadCall(count)
    BY <1>3
  <2>2. reading' = [pc |-> "start", count |-> count] /\ UNCHANGED <<size, pos, answer>>
    BY <2>1 DEF ReadCall
  <2>3. reading' \in ReadState /\ reading'.pc = "start"
    BY <2>2, SMT DEF ReadState
  <2> QED
    BY <1>1, <2>2, <2>3 DEF StreamInv, TypeOK, PosInBlob, ReadInBlob, OnlyThisBlob
<1>4. CASE ReadCount
  <2>1. /\ reading.pc = "start" /\ reading.count \in Counts
        /\ UNCHANGED <<size, pos, answer>>
    BY <1>2, <1>4, ReadStates DEF ReadCount
  <2> DEFINE n == Left(reading.count)
  <2>2. reading' = [pc |-> "pread", count |-> reading.count, actual_count |-> n]
    BY <1>4 DEF ReadCount
  <2>3. n \in 0..GSIZE_MOD - 1 /\ n <= reading.count /\ n <= size - pos
    BY <1>1, <2>1, LeftBound
  <2> HIDE DEF n
  <2>4. reading' \in ReadState
    BY <2>1, <2>2, <2>3, SMT DEF ReadState
  <2>5. reading'.pc = "pread" /\ reading'.actual_count = n /\ reading'.count = reading.count
    BY <2>2
  <2> QED
    BY <1>1, <2>1, <2>3, <2>4, <2>5 DEF StreamInv, TypeOK, PosInBlob, ReadInBlob, OnlyThisBlob
<1>5. CASE ReadData
  <2>1. /\ reading.pc = "pread" /\ reading.count \in Counts
        /\ reading.actual_count \in 0..GSIZE_MOD - 1
        /\ reading.actual_count <= reading.count /\ reading.actual_count <= size - pos
        /\ UNCHANGED <<size, pos>>
    BY <1>2, <1>5, ReadStates DEF ReadData, StreamInv, TypeOK, ReadInBlob
  <2>2. reading.count \in Nat
    <3>1. Counts \subseteq Nat
      BY CountsAssumption, HalfPositive, SMT
    <3> QED
      BY <2>1, <3>1
  <2>3. CASE reading' = Idle /\ answer' = [call |-> "error"]
    <3>1. reading' \in ReadState /\ reading'.pc = "idle" /\ answer'.call = "error"
      BY <2>3, SMT DEF Idle, ReadState
    <3> QED
      BY <1>1, <2>1, <3>1 DEF StreamInv, TypeOK, PosInBlob, ReadInBlob, OnlyThisBlob
  <2>4. ASSUME NEW n \in 0..reading.actual_count, UNCHANGED answer,
               reading' = [pc |-> "advance", count |-> reading.count,
                           from |-> pos, size_read |-> n]
        PROVE  StreamInv'
    <3>1. n \in Nat /\ n <= reading.count /\ n <= size - pos /\ pos \in Nat
      BY <1>1, <2>1, <2>2, SMT
    <3>2. reading' \in ReadState
      BY <2>1, <2>4, <3>1, SMT DEF ReadState
    <3>3. /\ reading'.pc = "advance" /\ reading'.from = pos
          /\ reading'.size_read = n /\ reading'.count = reading.count
      BY <2>4
    <3> QED
      BY <1>1, <2>1, <2>4, <3>1, <3>2, <3>3
      DEF StreamInv, TypeOK, PosInBlob, ReadInBlob, OnlyThisBlob
  <2> QED
    BY <1>5, <2>3, <2>4 DEF ReadData
<1>6. CASE ReadAdvance
  <2>1. /\ reading.pc = "advance" /\ reading.from = pos
        /\ reading.size_read \in Nat /\ reading.size_read <= size - pos
        /\ size' = size
    BY <1>2, <1>6, ReadStates DEF ReadAdvance, StreamInv, ReadInBlob
  <2>2. pos + reading.size_read \in 0..size /\ pos + reading.size_read \in Offsets
    BY <1>1, <2>1, HalfPositive, SMT DEF Offsets
  <2>3. pos' = pos + reading.size_read
    BY <1>6, <2>2, GoffsetSmall DEF ReadAdvance
  <2>4. answer'.from = pos /\ answer'.n = reading.size_read
    BY <1>6, <2>1 DEF ReadAdvance
  <2>5. reading' \in ReadState /\ reading'.pc = "idle"
    BY <1>6, SMT DEF ReadAdvance, Idle, ReadState
  <2>6. pos >= 0 /\ pos + reading.size_read <= size
    BY <1>1, <2>2, SMT
  <2> QED
    BY <1>1, <2>1, <2>2, <2>3, <2>4, <2>5, <2>6
    DEF StreamInv, TypeOK, PosInBlob, ReadInBlob, OnlyThisBlob
<1> QED
  BY <1>3, <1>4, <1>5, <1>6 DEF Read

LEMMA StreamInvStep == StreamInv /\ [Next]_vars => StreamInv'
<1> SUFFICES ASSUME StreamInv, [Next]_vars
             PROVE  StreamInv'
  OBVIOUS
<1>1. CASE Waiting /\ AnySeek
  BY <1>1, StreamInvSeek DEF AnySeek
<1>2. CASE Read \/ \E count \in Counts : ReadCall(count)
  BY <1>2, StreamInvRead
<1>3. CASE UNCHANGED vars
  BY <1>3 DEF vars, StreamInv, TypeOK, PosInBlob, ReadInBlob, OnlyThisBlob
<1> QED
  BY <1>1, <1>2, <1>3 DEF Next

LEMMA StreamInvAlways == Spec => []StreamInv
BY StreamInvInit, StreamInvStep, PTL DEF Spec

----------------------------------------------------------------------------
\* Every reachable state has its types; in particular no pread() is asked for
\* more than the caller's buffer holds.
THEOREM TypeCorrect == Spec => []TypeOK
<1>1. StreamInv => TypeOK
  BY DEF StreamInv
<1> QED
  BY <1>1, StreamInvAlways, PTL

\* The position never leaves the blob, and a read returns bytes of this blob
\* only, whatever the offsets of the seeks before it.
THEOREM StreamSafe == Spec => [](PosInBlob /\ OnlyThisBlob)
<1>1. StreamInv => PosInBlob /\ OnlyThisBlob
  BY DEF StreamInv
<1> QED
  BY <1>1, StreamInvAlways, PTL

\* The stream implements ByteStream: a call to seek goes where the integers
\* say or is refused, and each read is the one between its position and the
\* next; the looks at the position in between are stutters.
THEOREM StreamRefines == Spec => ImplementsStream
<1>1. Init => Stream!StreamInit
  BY SizeSmall DEF Init, Stream!StreamInit
<1>2. StreamInv /\ [Next]_vars => [Stream!StreamNext]_(Stream!streamVars)
  <2> SUFFICES ASSUME StreamInv, [Next]_vars
               PROVE  [Stream!StreamNext]_(Stream!streamVars)
    OBVIOUS
  <2>1. size \in Sizes /\ pos \in 0..size /\ size \in Nat /\ size < Half /\ reading \in ReadState
    BY SizeSmall DEF StreamInv, TypeOK, PosInBlob
  <2>2. ASSUME NEW offset \in Offsets, NEW type \in Types, Seek(offset, type)
        PROVE  Stream!StreamSeek(offset, type)
    <3>1. /\ ~Invalid(Absolute(offset, type)) <=> Stream!Target(offset, type) \in 0..size
          /\ ~Invalid(Absolute(offset, type)) =>
               Absolute(offset, type) = Stream!Target(offset, type)
      BY <2>1, SeekExact
    <3>2. (~Invalid(Absolute(offset, type))) = (Stream!Target(offset, type) \in 0..size)
      BY <3>1, SMT
    <3> QED
      BY <2>2, <3>1, <3>2, Zenon DEF Seek, Stream!StreamSeek
  <2>3. CASE ReadAdvance
    <3>1. /\ reading.pc = "advance" /\ reading.from = pos /\ reading.count \in Counts
          /\ reading.size_read \in Nat /\ reading.size_read <= size - pos
          /\ reading.size_read <= reading.count
      BY <2>1, <2>3, ReadStates DEF ReadAdvance, StreamInv, ReadInBlob
    <3>2. pos + reading.size_read \in Offsets /\ reading.size_read \in 0..size - pos
      BY <2>1, <3>1, HalfPositive, SMT DEF Offsets
    <3>3. pos' = pos + reading.size_read /\ size' = size
      BY <2>3, <3>2, GoffsetSmall DEF ReadAdvance
    <3>4. Stream!StreamRead(reading.count)
      BY <2>3, <3>1, <3>2, <3>3 DEF ReadAdvance, Stream!StreamRead
    <3> QED
      BY <3>1, <3>4 DEF Stream!StreamNext
  <2>4. CASE ReadData
    BY <2>4 DEF ReadData, Stream!StreamNext, Stream!StreamFail, Stream!streamVars
  <2>5. CASE ReadCount \/ \E count \in Counts : ReadCall(count)
    BY <2>5 DEF ReadCount, ReadCall, Stream!streamVars
  <2>6. CASE UNCHANGED vars
    BY <2>6 DEF vars, Stream!streamVars
  <2>7. CASE AnySeek
    BY <2>2, <2>7 DEF AnySeek, Stream!StreamNext
  <2> QED
    BY <2>3, <2>4, <2>5, <2>6, <2>7 DEF Next, Read
<1> QED
  BY <1>1, <1>2, StreamInvAlways, PTL DEF Spec, ImplementsStream, Stream!StreamSpec
=============================================================================
