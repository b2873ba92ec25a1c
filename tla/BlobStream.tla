----------------------------- MODULE BlobStream -----------------------------
(***************************************************************************)
(* EosShardBlobStream (eos-shard-blob-stream.c): a seekable input stream   *)
(* over the packed data of a blob, read with pread().                      *)
(*                                                                         *)
(* A read looks at the position three times: for the number of bytes that  *)
(* are left, for the place to read from and to move it.  GIO runs          *)
(* read_async in a thread, with no other read beside it, while seek and    *)
(* tell are called directly: unless the caller waits (Waiting), they come  *)
(* between any two of these.                                               *)
(***************************************************************************)
EXTENDS Integers, FiniteSetsExt

CONSTANTS
  GSIZE_MOD,   \* 2^64, the values of a gsize and of a goffset
  Sizes,       \* the sizes of blobs
  Counts       \* the lengths reads ask for

Half == GSIZE_MOD \div 2
Offsets == -Half..Half - 1   \* the values of a goffset
Types == {"SET", "CUR", "END"}

ASSUME GsizeAssumption == GSIZE_MOD \in Nat /\ Half > 0 /\ GSIZE_MOD = 2 * Half
ASSUME SizesAssumption == Sizes \subseteq 0..Half - 1
ASSUME CountsAssumption == Counts \subseteq 0..GSIZE_MOD - 1

VARIABLES
  size,      \* eos_shard_blob_get_packed_content_size, of one blob
  pos,       \* self->pos
  reading,   \* the read under way
  answer     \* what the last call that returned was told

vars == <<size, pos, reading, answer>>

Idle == [pc |-> "idle"]

ReadState ==
       [pc: {"idle"}]
  \cup [pc: {"start"}, count: Counts]
  \cup [pc: {"pread"}, count: Counts, actual_count: 0..GSIZE_MOD - 1]
  \cup [pc: {"advance"}, count: Counts, from: Nat, size_read: Nat]

TypeOK ==
  /\ size \in Sizes
  /\ pos \in Offsets
  /\ reading \in ReadState
  /\ reading.pc = "pread" => reading.actual_count <= reading.count

\* A sum in unsigned and in signed arithmetic of the width of a gsize.
gsize(x) == x % GSIZE_MOD
goffset(x) == ((x + Half) % GSIZE_MOD) - Half

Init == size \in Sizes /\ pos = 0 /\ reading = Idle /\ answer = [call |-> "none"]

----------------------------------------------------------------------------
\* The end seen from the wrong side.
Absolute_Mirrored(offset, type) ==
  CASE type = "CUR" -> goffset(pos + offset)
    [] type = "SET" -> offset
    [] type = "END" -> goffset(gsize(size - offset))

\* The switch of seek. From the end, the sum is an unsigned one.
Absolute(offset, type) ==
  CASE type = "CUR" -> goffset(pos + offset)
    [] type = "SET" -> offset
    [] type = "END" -> goffset(gsize(size + offset))

\* Signed comparisons: the end itself is out of range, what is before the
\* start is not.
Invalid_Bounds(absolute) == absolute >= size

\* absolute < 0 || absolute > blob_content_size, the second one unsigned.
Invalid(absolute) == absolute < 0 \/ gsize(absolute) > size

\* seek
Seek(offset, type) ==
  LET absolute == Absolute(offset, type)
  IN  /\ pos' = IF Invalid(absolute) THEN pos ELSE absolute
      /\ answer' = [call |-> "seek", offset |-> offset, type |-> type,
                    ok |-> ~Invalid(absolute)]
      /\ UNCHANGED <<size, reading>>

\* g_input_stream_read, or the thread of read_async.
ReadCall(count) ==
  /\ reading.pc = "idle"
  /\ reading' = [pc |-> "start", count |-> count]
  /\ UNCHANGED <<size, pos, answer>>

\* The count as it was asked for.
Left_All(count) == count

\* The greater of the two: more than the buffer holds.
Left_Max(count) == Max({count, gsize(size - pos)})

\* MIN (count, blob_content_size - self->pos), unsigned.
Left(count) == Min({count, gsize(size - pos)})

\* read: how many bytes.
ReadCount ==
  /\ reading.pc = "start"
  /\ reading' = [pc |-> "pread", count |-> reading.count,
                 actual_count |-> Left(reading.count)]
  /\ UNCHANGED <<size, pos, answer>>

\* read: pread() at the position, which may return less, or fail.
ReadData ==
  /\ reading.pc = "pread"
  /\ \/ /\ \E n \in 0..reading.actual_count :
             reading' = [pc |-> "advance", count |-> reading.count,
                         from |-> pos, size_read |-> n]
        /\ UNCHANGED answer
     \/ reading' = Idle /\ answer' = [call |-> "error"]
  /\ UNCHANGED <<size, pos>>

\* read: self->pos += size_read, and the return.
ReadAdvance ==
  /\ reading.pc = "advance"
  /\ pos' = goffset(pos + reading.size_read)
  /\ answer' = [call |-> "read", from |-> reading.from, n |-> reading.size_read]
  /\ reading' = Idle
  /\ UNCHANGED size

Read == ReadCount \/ ReadData \/ ReadAdvance

\* The caller seeks only when no read is under way.
Waiting == reading.pc = "idle"

AnySeek == \E offset \in Offsets, type \in Types : Seek(offset, type)

Next == (Waiting /\ AnySeek) \/ (\E count \in Counts : ReadCall(count)) \/ Read
Spec == Init /\ [][Next]_vars

----------------------------------------------------------------------------
\* The position stays in the blob, its end included, whatever the offsets of
\* the seeks, and however short the reads.
PosInBlob == pos \in 0..size

\* A read returns bytes of this blob only, not of what lies behind it.
OnlyThisBlob == answer.call = "read" => answer.from >= 0 /\ answer.from + answer.n <= size

Stream == INSTANCE ByteStream

\* The stream is the seekable stream GIO describes: the arithmetic that wraps
\* and mixes signed and unsigned values makes no difference.
ImplementsStream == Stream!StreamSpec
=============================================================================
