------------------------------ MODULE ReaderV1 ------------------------------
(***************************************************************************)
(* The version 1 reader (eos-shard-shard-file-impl-v1.c), as operators on  *)
(* a file.  A result that may be NULL is a set.                            *)
(***************************************************************************)
EXTENDS ShardV1Format, ShardFile

\* detect_version looks for the magic in the first bytes, which is where the
\* header is; _impl_v1_new reads as much of it as its size says.
impl_v1_new(f) ==
  {v.records : v \in {w \in preads(f, 8, "header") :
     \E n \in preads(f, 0, "size") : At(8, n.size, w) \in f}}

\* blob_new_for_variant: no blob without an offset. An empty one is a blob.
blob_new_for_variant(b) ==
  IF b.offs = 0 THEN {}
  ELSE {[flags |-> b.flags, checksum |-> c, size |-> b.size, offs |-> b.offs,
         uncompressed_size |-> b.uncompressed_size, content_type |-> b.content_type] :
        c \in b.checksum}

record_new_for_variant(r) ==
  [raw_name |-> r.raw_name,
   metadata |-> blob_new_for_variant(r.blobs[METADATA]),
   data |-> blob_new_for_variant(r.blobs[DATA])]

find_record_by_raw_name_compar(records, raw, k) ==
  IF raw = records[k].raw_name THEN 0 ELSE IF raw < records[k].raw_name THEN -1 ELSE 1

find_record_by_raw_name(records, raw) ==
  LET compar == [k \in 1..Len(records) |-> find_record_by_raw_name_compar(records, raw, k)]
  IN  {record_new_for_variant(records[k]) : k \in bsearch(Len(records), compar)}

\* list_records and records_foreach visit the children in order.
list_records(records) == [k \in 1..Len(records) |-> record_new_for_variant(records[k])]

\* lookup_blob: there are no named blobs in version 1.
lookup_blob(record, name) == {}

\* The metadata before the data.
list_blobs_MetadataFirst(record) ==
  [k \in 1..Cardinality(record.data) + Cardinality(record.metadata) |->
     IF k = 1 /\ record.metadata # {} THEN CHOOSE b \in record.metadata : TRUE
     ELSE CHOOSE b \in record.data : TRUE]

\* list_blobs: the data before the metadata, without the ones that are NULL.
list_blobs(record) ==
  [k \in 1..Cardinality(record.data) + Cardinality(record.metadata) |->
     IF k = 1 /\ record.data # {} THEN CHOOSE b \in record.data : TRUE
     ELSE CHOOSE b \in record.metadata : TRUE]
=============================================================================
