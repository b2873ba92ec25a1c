--------------------------- MODULE ShardV1Format ---------------------------
(***************************************************************************)
(* The version 1 file format (eos-shard-format-v1.h): the size of the      *)
(* header, the header, a GVariant with an array of records, and the data   *)
(* of the blobs, each on a boundary.                                       *)
(***************************************************************************)
EXTENDS FileExtents

CONSTANTS METADATA, DATA   \* EOS_SHARD_WRITER_V1_BLOB_METADATA, ..._DATA

ASSUME KindsAssumption == METADATA # DATA

Kinds == {METADATA, DATA}

\* "ShardV1" and its NUL, and what one record takes beside its content types.
\* How a GVariant pads and frames its members is left out: it depends on the
\* number of records and on the content types only.
MAGIC_SIZE == 8
RECORD_SIZE == 20 + 2 * (32 + 4 + 3 * 8)

\* ALIGN(n): n rounded up to a multiple of 0x40.
ALIGN(n) == ((n + 63) \div 64) * 64
=============================================================================
