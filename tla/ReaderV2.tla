------------------------------ MODULE ReaderV2 ------------------------------
(***************************************************************************)
(* The version 2 reader (eos-shard-shard-file-impl-v2.c), as operators on  *)
(* a file.  A result that may be NULL is a set: empty, or the one value    *)
(* returned.                                                               *)
(***************************************************************************)
EXTENDS ShardV2Format, ShardFile

CONSTANTS
  Internal,    \* the strings that start with '$'
  METADATA,    \* "$metadata"
  DATA         \* "$data"

ASSUME InternalAssumption ==
  Internal \subseteq Strings /\ METADATA \in Internal /\ DATA \in Internal

FileLength(f) == Max({0} \cup {e.off + e.len : e \in f})

\* _eos_shard_shard_file_impl_v2_new: the header must be there and the record
\* table must lie inside the file; its records are read into memory.
impl_v2_new(f) ==
  {[file |-> f, hdr |-> v.hdr,
    records |-> [k \in 1..v.hdr.records_length |->
      {w.srecord : w \in preads(f, v.hdr.records_start + RECORD_SIZE * (k - 1), "record")}]] :
   v \in {w \in preads(f, 0, "hdr") :
            w.hdr.records_length = 0 \/
            FileLength(f) >= w.hdr.records_start + RECORD_SIZE * w.hdr.records_length}}

\* lookup_string_constant: at most buf_size - 1 bytes of the string.
lookup_string_constant(sf, buf_size, offs) ==
  {[str |-> v.str, len |-> Min({StrLen[v.str], buf_size - 1})] :
     v \in preads(sf.file, sf.hdr.string_constant_table_start + offs, "string")}

\* blob_new: no blob for an empty one, nor without its content type.
blob_new(sf, sblob) ==
  IF sblob.uncompressed_size = 0 THEN {}
  ELSE {[flags |-> sblob.flags, checksum |-> sblob.csum, size |-> sblob.size,
         uncompressed_size |-> sblob.uncompressed_size, offs |-> sblob.data_start,
         content_type |-> ct] :
        ct \in lookup_string_constant(sf, EOS_SHARD_V2_BLOB_MAX_CONTENT_TYPE_SIZE,
                                      sblob.content_type_offs)}

\* Every index leads to the first entry.
TableBlob_First(sf, srecord, i) ==
  UNION {{b.sblob : b \in preads(sf.file, e.blob_start, "blob")} :
         e \in preads(sf.file, srecord.blob_table_start, "entry")}

\* The blob header the i-th (from 0) entry of the record's table leads to.
TableBlob(sf, srecord, i) ==
  UNION {{b.sblob : b \in preads(sf.file, e.blob_start, "blob")} :
         e \in preads(sf.file, srecord.blob_table_start + i * ENTRY_SIZE, "entry")}

\* find_blob: the first entry with the name.
find_blob(sf, srecord, name) ==
  LET matches(i) ==
        {b \in TableBlob(sf, srecord, i) :
          \E s \in lookup_string_constant(sf, EOS_SHARD_V2_BLOB_MAX_NAME_SIZE + 1, b.name_offs) :
             s = [str |-> name, len |-> StrLen[name]]}
      hits == {i \in 0..srecord.blob_table_length - 1 : matches(i) # {}}
  IN  IF hits = {} THEN {} ELSE matches(Min(hits))

read_blob(sf, srecord, name) ==
  UNION {blob_new(sf, b) : b \in find_blob(sf, srecord, name)}

\* record_new
record_new(sf, srecord) ==
  IF srecord.tombstone THEN {}
  ELSE {[raw_name |-> srecord.raw_name, srecord |-> srecord,
         metadata |-> read_blob(sf, srecord, METADATA),
         data |-> read_blob(sf, srecord, DATA)]}

\* find_record_by_raw_name_compar: memcmp() of the name with that of the k-th record. A record
\* whose bytes are not one compares below every name.
find_record_by_raw_name_compar(sf, raw, k) ==
  LET item == IF sf.records[k] = {} THEN -1 ELSE (CHOOSE r \in sf.records[k] : TRUE).raw_name
  IN  IF raw = item THEN 0 ELSE IF raw < item THEN -1 ELSE 1

find_record_by_raw_name(sf, raw) ==
  LET compar == [k \in 1..Len(sf.records) |->
                   find_record_by_raw_name_compar(sf, raw, k)]
  IN  UNION {UNION {record_new(sf, r) : r \in sf.records[k]} :
             k \in bsearch(Len(sf.records), compar)}

\* list_records and records_foreach visit the same records, in table order.
list_records(sf) ==
  LET live == {k \in 1..Len(sf.records) : \E r \in sf.records[k] : ~r.tombstone}
      nth(n) == CHOOSE k \in live : Cardinality({j \in live : j <= k}) = n
  IN  [n \in 1..Cardinality(live) |-> record_new(sf, CHOOSE r \in sf.records[nth(n)] : TRUE)]

\* lookup_blob: internal names are not to be looked up.
lookup_blob(sf, record, name) ==
  IF name \in Internal THEN {} ELSE read_blob(sf, record.srecord, name)

\* list_blobs: every readable entry, last first; an empty blob is a NULL in
\* the list.
list_blobs(sf, record) ==
  LET n == record.srecord.blob_table_length
      readable == {i \in 0..n - 1 : TableBlob(sf, record.srecord, i) # {}}
      nth(k) == CHOOSE i \in readable : Cardinality({j \in readable : j >= i}) = k
  IN  [k \in 1..Cardinality(readable) |->
        blob_new(sf, CHOOSE b \in TableBlob(sf, record.srecord, nth(k)) : TRUE)]
=============================================================================
