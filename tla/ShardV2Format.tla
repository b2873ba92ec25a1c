--------------------------- MODULE ShardV2Format ---------------------------
(***************************************************************************)
(* The on-disk format of a version 2 shard (eos-shard-format-v2.h).        *)
(***************************************************************************)
EXTENDS FileExtents

\* sizeof() of the structures, under #pragma pack(4).
HDR_SIZE == 36
RECORD_SIZE == 36
ENTRY_SIZE == 8
BLOB_SIZE == 76

EOS_SHARD_V2_BLOB_MAX_NAME_SIZE == 255
EOS_SHARD_V2_BLOB_MAX_CONTENT_TYPE_SIZE == 255

\* struct eos_shard_v2_blob
SBlob == [flags: BOOLEAN,               \* EOS_SHARD_BLOB_FLAG_COMPRESSED_ZLIB
          name_offs: Nat, content_type_offs: Nat, csum: Checksums,
          size: Nat, uncompressed_size: Nat, data_start: Nat]

\* struct eos_shard_v2_record
SRecord == [raw_name: Nat, tombstone: BOOLEAN,
            blob_table_length: Nat, blob_table_start: Nat]

\* struct eos_shard_v2_hdr
Hdr == [records_length: Nat, records_start: Nat,
        string_constant_table_start: Nat]

\* What an extent of the file holds.
Chunk ==      [kind: {"data"}, data: Contents]
         \cup [kind: {"blob"}, sblob: SBlob]
         \cup [kind: {"entry"}, blob_start: Nat]
         \cup [kind: {"record"}, srecord: SRecord]
         \cup [kind: {"string"}, str: Strings]
         \cup [kind: {"hdr"}, hdr: Hdr]

Extent == [off: Nat, len: Nat, val: Chunk]

----------------------------------------------------------------------------
\* ALIGN(n): n rounded up to a multiple of 0x20.
ALIGN(n) == ((n + 31) \div 32) * 32
============================================================================
