----------------------------- MODULE ShardFile -----------------------------
(***************************************************************************)
(* What the readers of both versions share: reading a blob's data through  *)
(* the shard file (eos-shard-shard-file.c).                                *)
(* A result that may be NULL is a set: empty, or the one value returned.   *)
(***************************************************************************)
EXTENDS FileExtents, SortSearch, FiniteSetsExt

CONSTANT GIO_BUFFER   \* what a GConverterInputStream reads of its source at once

ASSUME BufferAssumption == GIO_BUFFER \in Nat \ {0}

\* The checksum is not looked at.
Intact_Unchecked(bytes, blob) == bytes

\* memcmp (checksum_buf, blob->checksum): the bytes are what they were.
Intact(bytes, blob) == {d \in bytes : d = blob.checksum}

\* _eos_shard_shard_file_load_blob: the packed bytes must have the checksum;
\* compressed ones are read back through one call of a converter stream,
\* which returns what the first GIO_BUFFER bytes of its source yield, and no
\* more than the recorded size of the contents.
load_blob(f, blob) ==
  LET bytes == {c \in Contents :
                  \/ blob.size = 0 /\ SizeOf[c] = 0
                  \/ At(blob.offs, blob.size, Data(c)) \in f}
      loaded(d) ==
        IF ~blob.flags THEN {[content |-> d, whole |-> TRUE]}
        ELSE {[content |-> c, whole |-> blob.size <= GIO_BUFFER
                                          /\ SizeOf[c] <= blob.uncompressed_size] :
                c \in {x \in Plain : Zlib[x] = d}}
  IN  UNION {loaded(d) : d \in Intact(bytes, blob)}
=============================================================================
