------------------------------ MODULE WriterV2 ------------------------------
(***************************************************************************)
(* EosShardWriterV2 (eos-shard-writer-v2.c): several threads add blobs and *)
(* records to one writer, the caller joins them, attaches blobs to records *)
(* and calls finish, which lays out everything but the blob data.          *)
(*                                                                         *)
(* add_blob takes the writer's lock twice, and writes the blob's data      *)
(* after it released it; each stretch between two lock operations is one   *)
(* action.  add_blob_to_record and finish take no lock at all: the caller  *)
(* may use them only while no other call is under way (Quiet), which is    *)
(* the discipline modelled here.  Indices are the code's plus one.         *)
(***************************************************************************)
EXTENDS ShardV2Format, SortSearch

CONSTANTS
  Threads,     \* threads that call add_blob
  Requests,    \* the arguments add_blob is called with
  HexNames,    \* the names add_record is called with
  HexToRaw,    \* the raw name each leaves, numbered in memcmp() order
  UINT_MOD,    \* 2^32, the values of a guint
  UINT8_MOD,   \* 2^8, the values of a uint8_t
  MaxBlobs, MaxRecords, MaxAttach   \* bounds on the calls explored

ASSUME RequestsAssumption ==
  /\ Requests \subseteq [name: Strings, content_type: Strings,
                         content: Contents, zlib: BOOLEAN]
  /\ \A r \in Requests : r.zlib => r.content \in Plain
ASSUME HexNamesAssumption == HexToRaw \in [HexNames -> Nat]
ASSUME WidthsAssumption == UINT_MOD \in Nat \ {0} /\ UINT8_MOD \in Nat \ {0}
ASSUME BoundsAssumption == MaxBlobs \in Nat /\ MaxRecords \in Nat /\ MaxAttach \in Nat

VARIABLES
  offset,               \* ctx.offset: where the next structure goes
  blobs,                \* blob entries, in the order they were added
  records,              \* record entries; sorted by finish
  csum_to_data_start,   \* where the data of each checksum is; 0 when absent
  cpool,                \* the string constant pool
  file,                 \* the shard file
  thread,               \* what each thread is doing in add_blob
  fin,                  \* how far finish has come
  aborted               \* g_error, a failed g_assert or a crash

vars == <<offset, blobs, records, csum_to_data_start, cpool, file, thread, fin, aborted>>
pool == <<csum_to_data_start, cpool>>

\* The bytes add_blob puts in the file: compressed or as they are.
Packed(r) == IF r.zlib THEN Zlib[r.content] ELSE r.content

BlobEntry == [offs: Nat, name: Strings, sblob: SBlob]
RecordEntry == [raw_name: Nat, blobs: Seq(Nat \ {0}), blob_table_start: Nat]

ThreadState ==
       [pc: {"idle"}]
  \cup [pc: {"read"}, req: Requests, name_offs: Nat, content_type_offs: Nat]
  \cup [pc: {"write", "publish"}, req: Requests, index: Nat \ {0}, data_start: Nat]

Phases == {"open", "blobs", "tables", "records", "strings", "done"}

FinState == [pc: Phases, i: Nat \ {0}, pos: Nat, records_start: Nat, strings_start: Nat]

TypeOK ==
  /\ offset \in Nat
  /\ blobs \in Seq(BlobEntry)
  /\ records \in Seq(RecordEntry)
  /\ csum_to_data_start \in [Checksums -> Nat]
  /\ cpool \in [total_size: Nat, strings: Seq(Strings), offsets: [Strings -> Nat]]
  /\ file \in SUBSET Extent
  /\ thread \in [Threads -> ThreadState]
  /\ fin \in FinState
  /\ aborted \in BOOLEAN

Idle == [pc |-> "idle"]
Quiet == \A t \in Threads : thread[t].pc = "idle"
Running == ~aborted

----------------------------------------------------------------------------
\* constant_pool_init / open_write_context / eos_shard_writer_v2_init: an
\* empty pool, empty arrays, and the first free byte right after the header.
Init ==
  /\ offset = HDR_SIZE
  /\ blobs = <<>>
  /\ records = <<>>
  /\ csum_to_data_start = [c \in Checksums |-> 0]
  /\ cpool = [total_size |-> 0, strings |-> <<>>, offsets |-> [s \in Strings |-> 0]]
  /\ file = {}
  /\ thread = [t \in Threads |-> Idle]
  /\ fin = [pc |-> "open", i |-> 1, pos |-> 0, records_start |-> 0, strings_start |-> 0]
  /\ aborted = FALSE

\* A pool entry that forgets the string's terminating NUL.
constant_pool_add_NoNul(cp, s) ==
  IF \E i \in 1..Len(cp.strings) : cp.strings[i] = s THEN cp
  ELSE [total_size |-> cp.total_size + StrLen[s],
        strings |-> Append(cp.strings, s),
        offsets |-> [cp.offsets EXCEPT ![s] = cp.total_size]]

\* constant_pool_add: a string is stored once; its bytes and its NUL are
\* accounted for at the end of the pool.
constant_pool_add(cp, s) ==
  IF \E i \in 1..Len(cp.strings) : cp.strings[i] = s THEN cp
  ELSE [total_size |-> cp.total_size + StrLen[s] + 1,
        strings |-> Append(cp.strings, s),
        offsets |-> [cp.offsets EXCEPT ![s] = cp.total_size]]

\* What constant_pool_add returns; a known offset comes back through
\* GPOINTER_TO_UINT.
constant_pool_offset(cp, s) ==
  IF \E i \in 1..Len(cp.strings) : cp.strings[i] = s
    THEN cp.offsets[s] % UINT_MOD
    ELSE cp.total_size

InFlight == {t \in Threads : thread[t].pc = "read"}

\* add_blob up to the first unlock: too long a name or type is refused, the
\* strings of the others enter the pool.
AddBlobConstants(t, r) ==
  /\ Running /\ fin.pc = "open" /\ thread[t].pc = "idle"
  /\ Len(blobs) + Cardinality(InFlight) < MaxBlobs
  /\ StrLen[r.name] <= EOS_SHARD_V2_BLOB_MAX_NAME_SIZE
  /\ StrLen[r.content_type] <= EOS_SHARD_V2_BLOB_MAX_CONTENT_TYPE_SIZE
  /\ LET cp == constant_pool_add(cpool, r.name)
     IN  /\ cpool' = constant_pool_add(cp, r.content_type)
         /\ thread' = [thread EXCEPT ![t] =
              [pc |-> "read", req |-> r,
               name_offs |-> constant_pool_offset(cpool, r.name),
               content_type_offs |-> constant_pool_offset(cp, r.content_type)]]
  /\ UNCHANGED <<offset, blobs, records, csum_to_data_start, file, fin, aborted>>

\* The struct add_blob fills in before it takes the lock again: size and
\* data_start are still zero.
NewBlob(s) ==
  [offs |-> 0, name |-> s.req.name,
   sblob |-> [flags |-> s.req.zlib,
              name_offs |-> s.name_offs, content_type_offs |-> s.content_type_offs,
              csum |-> Packed(s.req), size |-> 0,
              uncompressed_size |-> SizeOf[s.req.content], data_start |-> 0]]

\* The lookup in csum_to_data_start, through GPOINTER_TO_UINT.
Found(c) == csum_to_data_start[c] % UINT_MOD

\* Space reserved for the blob's start only, not for its data.
Reserve_NoSize(c) == offset' = ALIGN(offset + 1)

\* ctx.offset moves past the data of c.
Reserve(c) == offset' = ALIGN(offset + SizeOf[c])

\* The place is entered in the table after ctx.offset has moved on.
Remember_Late(c) == csum_to_data_start' = [csum_to_data_start EXCEPT ![c] = offset']

\* The blob is not entered in the table.
Remember_Nothing(c) == csum_to_data_start' = csum_to_data_start

\* g_hash_table_insert (csum_to_data_start, &csum, data_start)
Remember(c) == csum_to_data_start' = [csum_to_data_start EXCEPT ![c] = offset]

\* The second critical section of add_blob, when the data is new: the entry
\* is appended, space is reserved and the table updated before the unlock.
AddBlobNew(t) ==
  /\ Running /\ thread[t].pc = "read"
  /\ LET c == Packed(thread[t].req)
     IN  Found(c) = 0 /\ Reserve(c) /\ Remember(c)
  /\ blobs' = Append(blobs, NewBlob(thread[t]))
  /\ thread' = [thread EXCEPT ![t] =
       [pc |-> "write", req |-> thread[t].req,
        index |-> Len(blobs) + 1, data_start |-> offset]]
  /\ UNCHANGED <<records, cpool, file, fin, aborted>>

\* The same critical section, when data with this checksum has a place
\* already: the entry shares it.
AddBlobShared(t) ==
  /\ Running /\ thread[t].pc = "read"
  /\ LET c == Packed(thread[t].req)
     IN  /\ Found(c) # 0
         /\ thread' = [thread EXCEPT ![t] =
              [pc |-> "publish", req |-> thread[t].req,
               index |-> Len(blobs) + 1, data_start |-> Found(c)]]
  /\ blobs' = Append(blobs, NewBlob(thread[t]))
  /\ UNCHANGED <<offset, records, pool, file, fin, aborted>>

\* The extent add_blob writes: the packed data at its place.
DataExtent(s) == At(s.data_start, SizeOf[Packed(s.req)], Data(Packed(s.req)))

\* The copy loop, after the unlock.
AddBlobWrite(t) ==
  /\ Running /\ thread[t].pc = "write"
  /\ file' = pwrite(file, DataExtent(thread[t]))
  /\ thread' = [thread EXCEPT ![t].pc = "publish"]
  /\ UNCHANGED <<offset, blobs, records, pool, fin, aborted>>

\* The end of add_blob: data_start and size are set in the shared entry,
\* without the lock, and the index is returned.
AddBlobReturn(t) ==
  /\ Running /\ thread[t].pc = "publish"
  /\ blobs' = [blobs EXCEPT ![thread[t].index].sblob.data_start = thread[t].data_start,
                            ![thread[t].index].sblob.size = SizeOf[Packed(thread[t].req)]]
  /\ thread' = [thread EXCEPT ![t] = Idle]
  /\ UNCHANGED <<offset, records, pool, file, fin, aborted>>

\* add_record: one critical section.
AddRecord(h) ==
  /\ Running /\ fin.pc = "open" /\ Len(records) < MaxRecords
  /\ records' = Append(records,
       [raw_name |-> HexToRaw[h], blobs |-> <<>>, blob_table_start |-> 0])
  /\ UNCHANGED <<offset, blobs, pool, file, thread, fin, aborted>>

\* add_blob_to_record, unlocked.
AddBlobToRecord(r, b) ==
  /\ Running /\ fin.pc = "open" /\ Quiet
  /\ r \in 1..Len(records) /\ b \in 1..Len(blobs)
  /\ Len(records[r].blobs) < MaxAttach
  /\ records' = [records EXCEPT ![r].blobs = Append(@, b)]
  /\ UNCHANGED <<offset, blobs, pool, file, thread, fin, aborted>>

----------------------------------------------------------------------------
Goto(phase) == [fin EXCEPT !.pc = phase, !.i = 1]
Advance == [fin EXCEPT !.i = @ + 1]
InPhase(phase) == Running /\ fin.pc = phase

\* finish, up to its first loop.
FinishSort ==
  /\ InPhase("open") /\ Quiet
  /\ \E p \in SortedBy(Len(records), [i \in 1..Len(records) |-> records[i].raw_name]) :
       records' = Reordered(records, p)
  /\ fin' = Goto("blobs")
  /\ UNCHANGED <<offset, blobs, pool, file, thread, aborted>>

\* One turn of the loop over the blobs: the blob's header.
FinishBlob ==
  /\ InPhase("blobs") /\ fin.i <= Len(blobs)
  /\ blobs' = [blobs EXCEPT ![fin.i].offs = offset]
  /\ file' = pwrite(file, At(offset, BLOB_SIZE,
                             [kind |-> "blob", sblob |-> blobs[fin.i].sblob]))
  /\ offset' = offset + BLOB_SIZE
  /\ fin' = Advance
  /\ UNCHANGED <<records, pool, thread, aborted>>

FinishBlobsDone ==
  /\ InPhase("blobs") /\ fin.i > Len(blobs)
  /\ fin' = Goto("tables")
  /\ UNCHANGED <<offset, blobs, records, pool, file, thread, aborted>>

\* The entries write_blob_table writes for a record whose sorted blobs are bs.
TableExtents(bs) ==
  {At(offset + ENTRY_SIZE * (k - 1), ENTRY_SIZE,
      [kind |-> "entry", blob_start |-> blobs[bs[k]].offs]) : k \in 1..Len(bs)}

\* write_blob_table: the record's blobs sorted by name, one entry for each.
FinishTable ==
  /\ InPhase("tables") /\ fin.i <= Len(records)
  /\ LET bs == records[fin.i].blobs
     IN  \E p \in SortedBy(Len(bs), [k \in 1..Len(bs) |-> blobs[bs[k]].name]) :
           /\ records' = [records EXCEPT ![fin.i].blobs = Reordered(bs, p),
                                         ![fin.i].blob_table_start = offset]
           /\ file' = pwrites(file, TableExtents(Reordered(bs, p)))
           /\ offset' = offset + ENTRY_SIZE * Len(bs)
  /\ fin' = Advance
  /\ UNCHANGED <<blobs, pool, thread, aborted>>

FinishTablesDone ==
  /\ InPhase("tables") /\ fin.i > Len(records)
  /\ offset' = ALIGN(offset)
  /\ fin' = [Goto("records") EXCEPT !.records_start = ALIGN(offset)]
  /\ UNCHANGED <<blobs, records, pool, file, thread, aborted>>

\* The index of the last entry in the place of their number.
Written_LastIndex(e) ==
  [raw_name |-> e.raw_name, tombstone |-> FALSE,
   blob_table_length |-> Len(e.blobs) - 1,
   blob_table_start |-> e.blob_table_start]

\* The struct write_record writes: blob_table_length is a uint8_t, and no
\* flag is ever set.
Written(e) ==
  [raw_name |-> e.raw_name, tombstone |-> FALSE,
   blob_table_length |-> Len(e.blobs) % UINT8_MOD,
   blob_table_start |-> e.blob_table_start]

\* write_record
FinishRecord ==
  /\ InPhase("records") /\ fin.i <= Len(records)
  /\ file' = pwrite(file, At(offset, RECORD_SIZE,
                             [kind |-> "record", srecord |-> Written(records[fin.i])]))
  /\ offset' = offset + RECORD_SIZE
  /\ fin' = Advance
  /\ UNCHANGED <<blobs, records, pool, thread, aborted>>

\* The string table starts at the next boundary; ctx.offset stays.
FinishRecordsDone ==
  /\ InPhase("records") /\ fin.i > Len(records)
  /\ fin' = [Goto("strings") EXCEPT !.strings_start = ALIGN(offset), !.pos = ALIGN(offset)]
  /\ UNCHANGED <<offset, blobs, records, pool, file, thread, aborted>>

\* One turn of constant_pool_write.
FinishString ==
  /\ InPhase("strings") /\ fin.i <= Len(cpool.strings)
  /\ LET s == cpool.strings[fin.i]
     IN  /\ file' = pwrite(file, At(fin.pos, StrLen[s] + 1, [kind |-> "string", str |-> s]))
         /\ fin' = [Advance EXCEPT !.pos = @ + StrLen[s] + 1]
  /\ UNCHANGED <<offset, blobs, records, pool, thread, aborted>>

\* The header, last of all.
FinishHeader ==
  /\ InPhase("strings") /\ fin.i > Len(cpool.strings)
  /\ file' = pwrite(file, At(0, HDR_SIZE,
       [kind |-> "hdr", hdr |-> [records_length |-> Len(records),
                                 records_start |-> fin.records_start,
                                 string_constant_table_start |-> fin.strings_start]]))
  /\ fin' = [fin EXCEPT !.pc = "done"]
  /\ UNCHANGED <<offset, blobs, records, pool, thread, aborted>>

\* g_error when a source file cannot be read, a g_assert that fails on a
\* write, or the end of the process: the file stays as it is.
Abort ==
  /\ Running /\ fin.pc # "done"
  /\ aborted' = TRUE
  /\ UNCHANGED <<offset, blobs, records, pool, file, thread, fin>>

AddBlob(t) ==
  \/ \E r \in Requests : AddBlobConstants(t, r)
  \/ AddBlobNew(t)
  \/ AddBlobShared(t)
  \/ AddBlobWrite(t)
  \/ AddBlobReturn(t)

Finish ==
  \/ FinishSort
  \/ FinishBlob \/ FinishBlobsDone
  \/ FinishTable \/ FinishTablesDone
  \/ FinishRecord \/ FinishRecordsDone
  \/ FinishString \/ FinishHeader

Next ==
  \/ \E t \in Threads : AddBlob(t)
  \/ \E h \in HexNames : AddRecord(h)
  \/ \E r \in 1..MaxRecords, b \in 1..MaxBlobs : AddBlobToRecord(r, b)
  \/ Finish
  \/ Abort

Spec == Init /\ [][Next]_vars

----------------------------------------------------------------------------
\* The entries whose add_blob has returned.
Published(i) ==
  \A t \in Threads : thread[t].pc \in {"write", "publish"} => thread[t].index # i

\* What a published entry points to is in the file, unless the thread that
\* reserved the place for these bytes is still copying them there: the lock
\* is released before the copy, and a second blob with the same checksum
\* is returned to its caller meanwhile.
BlobIntact(b) ==
  \/ b.size = 0
  \/ At(b.data_start, b.size, Data(b.csum)) \in file
  \/ \E t \in Threads : /\ thread[t].pc = "write"
                        /\ DataExtent(thread[t]) = At(b.data_start, b.size, Data(b.csum))

DataIntact ==
  \A i \in 1..Len(blobs) :
    Published(i) => /\ blobs[i].sblob.size = SizeOf[blobs[i].sblob.csum]
                    /\ BlobIntact(blobs[i].sblob)

\* Blobs with the same packed bytes share one place in the file (the test
\* "Add the same blob to multiple records and assure they have the same
\* offset" says so of a single thread).
SharedOffset ==
  \A i, j \in 1..Len(blobs) :
    /\ Published(i) /\ Published(j)
    /\ blobs[i].sblob.csum = blobs[j].sblob.csum
    => blobs[i].sblob.data_start = blobs[j].sblob.data_start

\* A record is written with the number of blobs attached to it: at least
\* one, if there is one.
CountsKept ==
  \A k \in 1..Len(records) :
    \A v \in preads(file, fin.records_start + RECORD_SIZE * (k - 1), "record") :
       v.srecord.blob_table_length = Len(records[k].blobs)

\* No write of the writer touches bytes an earlier one wrote: neither the
\* data the threads copy side by side, nor any structure of finish, nor the
\* string table, for which ctx.offset is not advanced, nor the header.
WriteOnce == [][file \subseteq file']_vars
=============================================================================
