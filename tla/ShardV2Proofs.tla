--------------------------- MODULE ShardV2Proofs ---------------------------
(***************************************************************************)
(* Theorems of WriterV2 and ShardV2, for any number of threads and any     *)
(* requests.  First the writer alone: its types; no write touches what     *)
(* another wrote; the data of every published blob is where its entry      *)
(* says.  Then the writer with the reader: what finish has passed is in    *)
(* the file, each entry says what add_blob was asked for, so lists are     *)
(* complete and the file implements the archive.                           *)
(***************************************************************************)
EXTENDS ShardV2, SearchProofs

USE DEF HDR_SIZE, RECORD_SIZE, ENTRY_SIZE, BLOB_SIZE, Checksums

\* Rounding up yields an offset that is not smaller.
LEMMA AlignUp == \A n \in Nat : ALIGN(n) \in Nat /\ ALIGN(n) >= n
  BY DEF ALIGN

\* A write of an extent leaves a set of extents.
LEMMA WriteType ==
  ASSUME NEW f \in SUBSET Extent, NEW w \in Extent
  PROVE  pwrite(f, w) \in SUBSET Extent
  BY DEF pwrite

\* The same of a run of writes.
LEMMA WritesType ==
  ASSUME NEW f \in SUBSET Extent, NEW W \in SUBSET Extent
  PROVE  pwrites(f, W) \in SUBSET Extent
  BY DEF pwrites

\* What is sorted is a sequence of the same elements.
LEMMA ReorderedType ==
  ASSUME NEW S, NEW s \in Seq(S), NEW key, NEW p \in SortedBy(Len(s), key)
  PROVE  Reordered(s, p) \in Seq(S) /\ Len(Reordered(s, p)) = Len(s)
<1>1. p \in [1..Len(s) -> 1..Len(s)]
  BY DEF SortedBy, Reorders
<1>2. \A i \in 1..Len(s) : s[p[i]] \in S
  BY <1>1
<1>. QED
  BY <1>2 DEF Reordered

\* The pool stays a pool, and where it puts a string is an offset.
LEMMA PoolType ==
  ASSUME NEW cp \in [total_size: Nat, strings: Seq(Strings), offsets: [Strings -> Nat]],
         NEW s \in Strings
  PROVE  /\ constant_pool_add(cp, s) \in
              [total_size: Nat, strings: Seq(Strings), offsets: [Strings -> Nat]]
         /\ constant_pool_offset(cp, s) \in Nat
<1>1. StrLen[s] \in Nat
  BY StringsAssumption
<1>2. constant_pool_add(cp, s) \in
        [total_size: Nat, strings: Seq(Strings), offsets: [Strings -> Nat]]
  BY <1>1 DEF constant_pool_add
<1>3. cp.offsets[s] % UINT_MOD \in Nat
  BY WidthsAssumption
<1>. QED
  BY <1>2, <1>3 DEF constant_pool_offset

\* What add_blob puts in the file, and how long it is.
LEMMA PackedType ==
  ASSUME NEW r \in Requests
  PROVE  Packed(r) \in Contents /\ SizeOf[Packed(r)] \in Nat /\ SizeOf[r.content] \in Nat
  BY RequestsAssumption, ContentsAssumption DEF Packed

\* The struct a thread in add_blob is about to append is a blob entry.
LEMMA NewBlobType ==
  ASSUME NEW s \in [pc: {"read"}, req: Requests, name_offs: Nat, content_type_offs: Nat]
  PROVE  NewBlob(s) \in BlobEntry
<1>1. s.req \in Requests
  OBVIOUS
<1>2. /\ Packed(s.req) \in Contents /\ SizeOf[s.req.content] \in Nat
      /\ s.req.name \in Strings /\ s.req.zlib \in BOOLEAN
  BY <1>1, PackedType, RequestsAssumption
<1>. QED
  BY <1>2 DEF NewBlob, BlobEntry, SBlob

\* The states a thread can be in, by what its pc says.
LEMMA ThreadCases ==
  ASSUME NEW s \in ThreadState
  PROVE  /\ s.pc = "read" => s \in [pc: {"read"}, req: Requests, name_offs: Nat,
                                     content_type_offs: Nat]
         /\ s.pc \in {"write", "publish"} =>
              s \in [pc: {"write", "publish"}, req: Requests, index: Nat \ {0},
                     data_start: Nat]
  BY DEF ThreadState

\* Every reference to a blob entry, from a record or from a thread that has
\* not returned yet, is to one that exists.
IdsOK ==
  /\ \A r \in 1..Len(records) : \A k \in 1..Len(records[r].blobs) :
        records[r].blobs[k] <= Len(blobs)
  /\ \A t \in Threads : thread[t].pc \in {"write", "publish"} => thread[t].index <= Len(blobs)

\* Giving an entry its place in the file leaves entries.
LEMMA OffsType ==
  ASSUME NEW q \in Seq(BlobEntry), NEW i \in 1..Len(q), NEW m \in Nat
  PROVE  [q EXCEPT ![i].offs = m] \in Seq(BlobEntry)
<1>1. q[i] \in BlobEntry
  OBVIOUS
<1>2. [q[i] EXCEPT !.offs = m] \in BlobEntry
  BY <1>1 DEF BlobEntry
<1>. QED
  BY <1>2

\* So does publishing where its data is, and how long.
LEMMA PublishType ==
  ASSUME NEW q \in Seq(BlobEntry), NEW i, NEW m \in Nat, NEW n \in Nat
  PROVE  [q EXCEPT ![i].sblob.data_start = m, ![i].sblob.size = n] \in Seq(BlobEntry)
<1>1. CASE i \in 1..Len(q)
  <2>1. \A r \in Seq(BlobEntry) :
          i \in 1..Len(r) => [r EXCEPT ![i].sblob.size = n] \in Seq(BlobEntry)
    <3>. SUFFICES ASSUME NEW r \in Seq(BlobEntry), i \in 1..Len(r)
                  PROVE  [r EXCEPT ![i].sblob.size = n] \in Seq(BlobEntry)
      OBVIOUS
    <3>1. r[i] \in BlobEntry
      OBVIOUS
    <3>2. [r[i] EXCEPT !.sblob.size = n] \in BlobEntry
      BY <3>1 DEF BlobEntry, SBlob
    <3>. QED
      BY <3>2
  <2>2. q[i] \in BlobEntry
    BY <1>1
  <2>3. [q[i] EXCEPT !.sblob.data_start = m] \in BlobEntry
    BY <2>2 DEF BlobEntry, SBlob
  <2>4. /\ [q EXCEPT ![i].sblob.data_start = m] \in Seq(BlobEntry)
        /\ Len([q EXCEPT ![i].sblob.data_start = m]) = Len(q)
    BY <1>1, <2>3
  <2>. QED
    BY <1>1, <2>1, <2>4
<1>2. CASE i \notin 1..Len(q)
  <2>1. [q EXCEPT ![i].sblob.data_start = m, ![i].sblob.size = n] = q
    BY <1>2
  <2>. QED
    BY <2>1
<1>. QED
  BY <1>1, <1>2

\* Sorting a record's blobs and placing its table leaves records.
LEMMA TableType ==
  ASSUME NEW q \in Seq(RecordEntry), NEW i \in 1..Len(q),
         NEW bs \in Seq(Nat \ {0}), NEW m \in Nat
  PROVE  [q EXCEPT ![i].blobs = bs, ![i].blob_table_start = m] \in Seq(RecordEntry)
<1>1. \A r \in Seq(RecordEntry) :
        i \in 1..Len(r) => [r EXCEPT ![i].blob_table_start = m] \in Seq(RecordEntry)
  <2>. SUFFICES ASSUME NEW r \in Seq(RecordEntry), i \in 1..Len(r)
                PROVE  [r EXCEPT ![i].blob_table_start = m] \in Seq(RecordEntry)
    OBVIOUS
  <2>1. r[i] \in RecordEntry
    OBVIOUS
  <2>2. [r[i] EXCEPT !.blob_table_start = m] \in RecordEntry
    BY <2>1 DEF RecordEntry
  <2>. QED
    BY <2>2
<1>2. q[i] \in RecordEntry
  OBVIOUS
<1>3. [q[i] EXCEPT !.blobs = bs] \in RecordEntry
  BY <1>2 DEF RecordEntry
<1>4. /\ [q EXCEPT ![i].blobs = bs] \in Seq(RecordEntry)
      /\ Len([q EXCEPT ![i].blobs = bs]) = Len(q)
  BY <1>3
<1>. QED
  BY <1>1, <1>4

\* The table of a record whose references exist consists of extents.
LEMMA TableExtentsType ==
  ASSUME TypeOK, NEW bs \in Seq(Nat \ {0}), \A k \in 1..Len(bs) : bs[k] <= Len(blobs)
  PROVE  TableExtents(bs) \in SUBSET Extent
<1>. SUFFICES ASSUME NEW k \in 1..Len(bs)
              PROVE  At(offset + ENTRY_SIZE * (k - 1), ENTRY_SIZE,
                        [kind |-> "entry", blob_start |-> blobs[bs[k]].offs]) \in Extent
  BY DEF TableExtents
<1>1. bs[k] \in 1..Len(blobs)
  OBVIOUS
<1>2. blobs[bs[k]] \in BlobEntry
  BY <1>1 DEF TypeOK
<1>3. blobs[bs[k]].offs \in Nat
  BY <1>2 DEF BlobEntry
<1>4. offset + 8 * (k - 1) \in Nat
  BY DEF TypeOK
<1>. QED
  BY <1>3, <1>4 DEF At, Extent, Chunk

\* finish goes from phase to phase, and through the loop of each.
LEMMA FinType ==
  ASSUME fin \in FinState
  PROVE  /\ \A phase \in Phases : Goto(phase) \in FinState
         /\ Advance \in FinState
         /\ \A f \in FinState, n \in Nat : /\ [f EXCEPT !.pos = n] \in FinState
                                           /\ [f EXCEPT !.records_start = n] \in FinState
                                           /\ [f EXCEPT !.strings_start = n] \in FinState
<1>1. Advance \in FinState
  BY DEF Advance, FinState
<1>2. \A phase \in Phases : [fin EXCEPT !.pc = phase] \in FinState
  BY DEF FinState
<1>3. \A f \in FinState : /\ [f EXCEPT !.i = 1] \in FinState
                          /\ \A n \in Nat : /\ [f EXCEPT !.pos = n] \in FinState
                                            /\ [f EXCEPT !.records_start = n] \in FinState
                                            /\ [f EXCEPT !.strings_start = n] \in FinState
  BY DEF FinState
<1>4. \A phase \in Phases : Goto(phase) \in FinState
  BY <1>2, <1>3, Zenon DEF Goto
<1>. QED
  BY <1>1, <1>3, <1>4

\* The initial state is well typed.
LEMMA FinFields == TypeOK => fin.i \in Nat \ {0} /\ fin.pos \in Nat
<1>1. ASSUME TypeOK PROVE fin \in FinState
  BY <1>1 DEF TypeOK
<1>. QED
  BY <1>1 DEF FinState

\* The record whose table is written next.
LEMMA TableIndex == TypeOK /\ FinishTable => fin.i \in 1..Len(records)
<1>. SUFFICES ASSUME TypeOK, FinishTable PROVE fin.i \in 1..Len(records)
  OBVIOUS
<1>1. fin.i <= Len(records)
  BY Zenon DEF FinishTable
<1>2. fin.i \in Nat \ {0} /\ Len(records) \in Nat
  BY FinFields DEF TypeOK
<1>. QED
  BY <1>1, <1>2

\* Setting the blobs of one record, alone or with its table.
LEMMA BlobsSet ==
  ASSUME NEW rs \in Seq(RecordEntry), NEW n \in 1..Len(rs), NEW bs
  PROVE  LET us == [rs EXCEPT ![n].blobs = bs]
         IN  /\ Len(us) = Len(rs)
             /\ us[n].blobs = bs
             /\ \A q \in 1..Len(rs) : q # n => us[q] = rs[q]
<1>1. rs[n] \in RecordEntry
  OBVIOUS
<1>2. [rs[n] EXCEPT !.blobs = bs].blobs = bs
  BY <1>1 DEF RecordEntry
<1>. QED
  BY <1>2

\* A record that gets its sorted blobs and the start of its table.
LEMMA BlobsAndTableSet ==
  ASSUME NEW rs \in Seq(RecordEntry), NEW n \in 1..Len(rs), NEW bs, NEW o
  PROVE  LET us == [rs EXCEPT ![n].blobs = bs, ![n].blob_table_start = o]
         IN  /\ Len(us) = Len(rs)
             /\ us[n].blobs = bs
             /\ \A q \in 1..Len(rs) : q # n => us[q] = rs[q]
<1>. DEFINE vs == [rs EXCEPT ![n].blobs = bs]
<1>1. rs[n] \in RecordEntry
  OBVIOUS
<1>2. /\ [rs[n] EXCEPT !.blobs = bs].blobs = bs
      /\ [[rs[n] EXCEPT !.blobs = bs] EXCEPT !.blob_table_start = o].blobs = bs
  BY <1>1 DEF RecordEntry
<1>. QED
  BY <1>2

\* The initial state is of the right types.
LEMMA InitType == Init => TypeOK
<1>. SUFFICES ASSUME Init PROVE TypeOK
  OBVIOUS
<1>1. thread \in [Threads -> ThreadState]
  BY DEF Init, Idle, ThreadState
<1>2. cpool \in [total_size: Nat, strings: Seq(Strings), offsets: [Strings -> Nat]]
  BY DEF Init
<1>3. fin \in FinState
  BY DEF Init, FinState, Phases
<1>4. offset \in Nat /\ blobs \in Seq(BlobEntry) /\ records \in Seq(RecordEntry)
  BY DEF Init
<1>5. /\ csum_to_data_start \in [Checksums -> Nat]
      /\ file \in SUBSET Extent /\ aborted \in BOOLEAN
  BY DEF Init
<1>. QED
  BY <1>1, <1>2, <1>3, <1>4, <1>5 DEF TypeOK

\* Every step leaves the state well typed.
LEMMA NextType == TypeOK /\ IdsOK /\ [Next]_vars => TypeOK'
<1>. SUFFICES ASSUME TypeOK, IdsOK, [Next]_vars PROVE TypeOK'
  OBVIOUS
<1>. USE DEF TypeOK
<1>1. ASSUME NEW t \in Threads, NEW r \in Requests, AddBlobConstants(t, r)
      PROVE  TypeOK'
  <2>1. r.name \in Strings /\ r.content_type \in Strings
    BY RequestsAssumption
  <2>2. /\ constant_pool_add(cpool, r.name) \in
             [total_size: Nat, strings: Seq(Strings), offsets: [Strings -> Nat]]
        /\ constant_pool_offset(cpool, r.name) \in Nat
    BY <2>1, PoolType
  <2>3. /\ cpool' \in [total_size: Nat, strings: Seq(Strings), offsets: [Strings -> Nat]]
        /\ constant_pool_offset(constant_pool_add(cpool, r.name), r.content_type) \in Nat
    BY <1>1, <2>1, <2>2, PoolType DEF AddBlobConstants
  <2>4. thread' \in [Threads -> ThreadState]
    BY <1>1, <2>2, <2>3 DEF AddBlobConstants, ThreadState
  <2>. QED
    BY <1>1, <2>3, <2>4 DEF AddBlobConstants
<1>2. ASSUME NEW t \in Threads, AddBlobNew(t)
      PROVE  TypeOK'
  <2>1. thread[t] \in [pc: {"read"}, req: Requests, name_offs: Nat, content_type_offs: Nat]
    BY <1>2, ThreadCases DEF AddBlobNew
  <2>. DEFINE c == Packed(thread[t].req)
  <2>2. thread[t].req \in Requests /\ c \in Contents /\ SizeOf[c] \in Nat
    BY <2>1, PackedType
  <2>3. offset' \in Nat
    <3>1. offset + SizeOf[c] \in Nat
      BY <2>2
    <3>. QED
      BY <1>2, <3>1, AlignUp DEF AddBlobNew, Reserve
  <2>4. csum_to_data_start' \in [Checksums -> Nat]
    BY <1>2, <2>2 DEF AddBlobNew, Remember
  <2>5. blobs' \in Seq(BlobEntry)
    BY <1>2, <2>1, NewBlobType DEF AddBlobNew
  <2>6. thread' \in [Threads -> ThreadState]
    <3>1. [pc |-> "write", req |-> thread[t].req, index |-> Len(blobs) + 1,
           data_start |-> offset] \in ThreadState
      BY <2>2 DEF ThreadState
    <3>. QED
      BY <1>2, <3>1 DEF AddBlobNew
  <2>. QED
    BY <1>2, <2>3, <2>4, <2>5, <2>6 DEF AddBlobNew
<1>3. ASSUME NEW t \in Threads, AddBlobShared(t)
      PROVE  TypeOK'
  <2>1. thread[t] \in [pc: {"read"}, req: Requests, name_offs: Nat, content_type_offs: Nat]
    BY <1>3, ThreadCases DEF AddBlobShared
  <2>2. thread[t].req \in Requests /\ Found(Packed(thread[t].req)) \in Nat
    BY <2>1, PackedType, WidthsAssumption DEF Found
  <2>3. blobs' \in Seq(BlobEntry)
    BY <1>3, <2>1, NewBlobType DEF AddBlobShared
  <2>4. thread' \in [Threads -> ThreadState]
    <3>1. [pc |-> "publish", req |-> thread[t].req, index |-> Len(blobs) + 1,
           data_start |-> Found(Packed(thread[t].req))] \in ThreadState
      BY <2>2 DEF ThreadState
    <3>. QED
      BY <1>3, <3>1 DEF AddBlobShared
  <2>. QED
    BY <1>3, <2>3, <2>4 DEF AddBlobShared, pool
<1>4. ASSUME NEW t \in Threads, AddBlobWrite(t)
      PROVE  TypeOK'
  <2>1. thread[t] \in [pc: {"write", "publish"}, req: Requests, index: Nat \ {0},
                       data_start: Nat]
    BY <1>4, ThreadCases DEF AddBlobWrite
  <2>2. DataExtent(thread[t]) \in Extent
    <3>1. thread[t].req \in Requests /\ thread[t].data_start \in Nat
      BY <2>1
    <3>. QED
      BY <3>1, PackedType DEF DataExtent, At, Data, Extent, Chunk
  <2>3. file' \in SUBSET Extent
    BY <1>4, <2>2, WriteType DEF AddBlobWrite
  <2>4. thread' \in [Threads -> ThreadState]
    <3>1. [thread[t] EXCEPT !.pc = "publish"] \in
             [pc: {"write", "publish"}, req: Requests, index: Nat \ {0}, data_start: Nat]
      BY <2>1
    <3>. QED
      BY <1>4, <3>1 DEF AddBlobWrite, ThreadState
  <2>. QED
    BY <1>4, <2>3, <2>4 DEF AddBlobWrite, pool
<1>5. ASSUME NEW t \in Threads, AddBlobReturn(t)
      PROVE  TypeOK'
  <2>1. thread[t] \in [pc: {"write", "publish"}, req: Requests, index: Nat \ {0},
                       data_start: Nat]
    BY <1>5, ThreadCases DEF AddBlobReturn
  <2>2. thread[t].data_start \in Nat /\ SizeOf[Packed(thread[t].req)] \in Nat
    BY <2>1, PackedType
  <2>3. blobs' \in Seq(BlobEntry)
    BY <1>5, <2>2, PublishType DEF AddBlobReturn
  <2>4. thread' \in [Threads -> ThreadState]
    BY <1>5 DEF AddBlobReturn, Idle, ThreadState
  <2>. QED
    BY <1>5, <2>3, <2>4 DEF AddBlobReturn, pool
<1>6. ASSUME NEW h \in HexNames, AddRecord(h)
      PROVE  TypeOK'
  <2>1. [raw_name |-> HexToRaw[h], blobs |-> <<>>, blob_table_start |-> 0] \in RecordEntry
    BY HexNamesAssumption DEF RecordEntry
  <2>. QED
    BY <1>6, <2>1 DEF AddRecord, pool
<1>7. ASSUME NEW r \in 1..MaxRecords, NEW b \in 1..MaxBlobs, AddBlobToRecord(r, b)
      PROVE  TypeOK'
  <2>1. records[r] \in RecordEntry /\ b \in Nat \ {0} /\ r \in 1..Len(records)
    BY <1>7 DEF AddBlobToRecord
  <2>2. [records[r] EXCEPT !.blobs = Append(@, b)] \in RecordEntry
    <3>1. Append(records[r].blobs, b) \in Seq(Nat \ {0})
      BY <2>1 DEF RecordEntry
    <3>. QED
      BY <2>1, <3>1 DEF RecordEntry
  <2>3. records' \in Seq(RecordEntry)
    BY <1>7, <2>1, <2>2 DEF AddBlobToRecord
  <2>. QED
    BY <1>7, <2>3 DEF AddBlobToRecord, pool
<1>8. CASE FinishSort
  <2>1. records' \in Seq(RecordEntry)
    BY <1>8, ReorderedType DEF FinishSort
  <2>. QED
    BY <1>8, <2>1, FinType DEF FinishSort, Phases, pool
<1>9. CASE FinishBlob
  <2>1. fin.i \in 1..Len(blobs)
    BY <1>9 DEF FinishBlob, FinState
  <2>2. blobs' \in Seq(BlobEntry)
    BY <1>9, <2>1, OffsType DEF FinishBlob
  <2>3. file' \in SUBSET Extent
    <3>. DEFINE w == At(offset, BLOB_SIZE, [kind |-> "blob", sblob |-> blobs[fin.i].sblob])
    <3>1. blobs[fin.i] \in BlobEntry
      BY <2>1
    <3>2. blobs[fin.i].sblob \in SBlob
      BY <3>1 DEF BlobEntry
    <3>3. w \in Extent
      BY <3>2 DEF At, Extent, Chunk
    <3>. QED
      BY <1>9, <3>3, WriteType DEF FinishBlob
  <2>4. offset' \in Nat
    BY <1>9 DEF FinishBlob
  <2>. QED
    BY <1>9, <2>2, <2>3, <2>4, FinType DEF FinishBlob, pool
<1>10. CASE FinishBlobsDone
  BY <1>10, FinType DEF FinishBlobsDone, Phases, pool
<1>11. CASE FinishTable
  <2>. DEFINE bs == records[fin.i].blobs
  <2>1. PICK p \in SortedBy(Len(bs), [k \in 1..Len(bs) |-> blobs[bs[k]].name]) :
          /\ records' = [records EXCEPT ![fin.i].blobs = Reordered(bs, p),
                                        ![fin.i].blob_table_start = offset]
          /\ file' = pwrites(file, TableExtents(Reordered(bs, p)))
    BY <1>11 DEF FinishTable
  <2>2. fin.i \in 1..Len(records)
    BY <1>11, TableIndex DEF TypeOK
  <2>3. records[fin.i] \in RecordEntry
    BY <2>2
  <2>4. bs \in Seq(Nat \ {0})
    BY <2>3 DEF RecordEntry
  <2>5. Reordered(bs, p) \in Seq(Nat \ {0}) /\ Len(Reordered(bs, p)) = Len(bs)
    BY <2>4, ReorderedType
  <2>6. records' \in Seq(RecordEntry)
    BY <2>1, <2>2, <2>5, TableType
  <2>7. file' \in SUBSET Extent
    <3>1. \A k \in 1..Len(bs) : bs[k] <= Len(blobs)
      BY <2>2 DEF IdsOK
    <3>2. \A k \in 1..Len(bs) : p[k] \in 1..Len(bs)
      BY DEF SortedBy, Reorders
    <3>3. \A k \in 1..Len(Reordered(bs, p)) : Reordered(bs, p)[k] <= Len(blobs)
      BY <2>5, <3>1, <3>2 DEF Reordered
    <3>4. TableExtents(Reordered(bs, p)) \in SUBSET Extent
      BY <2>5, <3>3, TableExtentsType
    <3>. QED
      BY <2>1, <3>4, WritesType
  <2>8. offset' \in Nat
    <3>1. Len(bs) \in Nat
      BY <2>4
    <3>2. offset' = offset + 8 * Len(bs)
      BY <1>11 DEF FinishTable
    <3>. HIDE DEF bs
    <3>. QED
      BY <3>1, <3>2
  <2>. QED
    BY <1>11, <2>6, <2>7, <2>8, FinType DEF FinishTable, Phases, pool
<1>12. CASE FinishTablesDone
  <2>1. offset' \in Nat
    BY <1>12, AlignUp DEF FinishTablesDone
  <2>2. fin' \in FinState
    BY <1>12, AlignUp, FinType DEF FinishTablesDone, Phases
  <2>. QED
    BY <1>12, <2>1, <2>2 DEF FinishTablesDone, pool
<1>13. CASE FinishRecord
  <2>1. fin.i \in 1..Len(records)
    BY <1>13 DEF FinishRecord, FinState
  <2>2. records[fin.i] \in RecordEntry
    BY <2>1
  <2>3. Written(records[fin.i]) \in SRecord
    <3>1. /\ records[fin.i].raw_name \in Nat /\ records[fin.i].blobs \in Seq(Nat \ {0})
          /\ records[fin.i].blob_table_start \in Nat
      BY <2>2 DEF RecordEntry
    <3>2. Len(records[fin.i].blobs) % UINT8_MOD \in Nat
      <4>1. \A n \in Nat : n % UINT8_MOD \in Nat
        BY WidthsAssumption
      <4>2. Len(records[fin.i].blobs) \in Nat
        BY <3>1
      <4>. QED
        BY <4>1, <4>2
    <3>. QED
      BY <3>1, <3>2 DEF Written, SRecord
  <2>4. At(offset, RECORD_SIZE, [kind |-> "record", srecord |-> Written(records[fin.i])])
          \in Extent
    BY <2>3 DEF At, Extent, Chunk
  <2>5. file' \in SUBSET Extent
    BY <1>13, <2>4, WriteType DEF FinishRecord
  <2>. QED
    BY <1>13, <2>5, FinType DEF FinishRecord, Phases, pool
<1>14. CASE FinishRecordsDone
  <2>1. fin' \in FinState
    BY <1>14, AlignUp, FinType DEF FinishRecordsDone, Phases
  <2>. QED
    BY <1>14, <2>1 DEF FinishRecordsDone, pool
<1>15. CASE FinishString
  <2>. DEFINE s == cpool.strings[fin.i]
  <2>1. fin.i \in 1..Len(cpool.strings)
    BY <1>15 DEF FinishString, FinState
  <2>2. s \in Strings /\ StrLen[s] \in Nat
    <3>1. cpool.strings \in Seq(Strings)
      OBVIOUS
    <3>2. s \in Strings
      BY <2>1, <3>1
    <3>. QED
      BY <3>2, StringsAssumption
  <2>3. fin.pos \in Nat
    BY DEF FinState
  <2>4. At(fin.pos, StrLen[s] + 1, [kind |-> "string", str |-> s]) \in Extent
    BY <2>2, <2>3 DEF At, Extent, Chunk
  <2>5. file' \in SUBSET Extent
    BY <1>15, <2>4, WriteType DEF FinishString
  <2>6. fin' \in FinState
    <3>1. Advance \in FinState
      BY FinType
    <3>2. Advance.pos = fin.pos
      BY DEF Advance, FinState
    <3>3. fin.pos + StrLen[s] + 1 \in Nat
      <4>1. \A m, n \in Nat : m + n + 1 \in Nat
        OBVIOUS
      <4>. QED
        BY <2>2, <2>3, <4>1
    <3>4. fin' = [Advance EXCEPT !.pos = fin.pos + StrLen[s] + 1]
      BY <1>15, <3>2 DEF FinishString
    <3>. QED
      BY <3>1, <3>3, <3>4, FinType
  <2>. QED
    BY <1>15, <2>5, <2>6 DEF FinishString, pool
<1>16. CASE FinishHeader
  <2>. DEFINE h == [records_length |-> Len(records), records_start |-> fin.records_start,
                    string_constant_table_start |-> fin.strings_start]
  <2>1. h \in Hdr
    BY DEF Hdr, FinState
  <2>2. At(0, HDR_SIZE, [kind |-> "hdr", hdr |-> h]) \in Extent
    BY <2>1 DEF At, Extent, Chunk
  <2>3. file' \in SUBSET Extent
    BY <1>16, <2>2, WriteType DEF FinishHeader
  <2>4. fin' \in FinState
    BY <1>16 DEF FinishHeader, FinState, Phases
  <2>. QED
    BY <1>16, <2>3, <2>4 DEF FinishHeader, pool
<1>17. CASE Abort
  BY <1>17 DEF Abort, pool
<1>18. CASE UNCHANGED vars
  BY <1>18 DEF vars
<1>. QED
  BY <1>1, <1>2, <1>3, <1>4, <1>5, <1>6, <1>7, <1>8, <1>9, <1>10, <1>11, <1>12,
     <1>13, <1>14, <1>15, <1>16, <1>17, <1>18 DEF Next, AddBlob, Finish

\* References stay references: nothing removes a blob entry, and sorting a
\* record's blobs keeps them.
LEMMA NextIds == TypeOK /\ TypeOK' /\ IdsOK /\ [Next]_vars => IdsOK'
<1>. SUFFICES ASSUME TypeOK, TypeOK', IdsOK, [Next]_vars PROVE IdsOK'
  OBVIOUS
<1>. USE DEF IdsOK
<1>0. Len(blobs) \in Nat /\ Len(records) \in Nat
  BY DEF TypeOK
<1>1. ASSUME NEW t \in Threads, NEW r \in Requests, AddBlobConstants(t, r)
      PROVE  IdsOK'
  BY <1>1 DEF AddBlobConstants, TypeOK
<1>2. ASSUME NEW t \in Threads,
             blobs' = Append(blobs, NewBlob(thread[t])), records' = records,
             NEW s, s.index = Len(blobs) + 1, thread' = [thread EXCEPT ![t] = s]
      PROVE  IdsOK'
  <2>1. Len(blobs') = Len(blobs) + 1
    BY <1>2 DEF TypeOK
  <2>2. ASSUME NEW r \in 1..Len(records'), NEW k \in 1..Len(records'[r].blobs)
        PROVE  records'[r].blobs[k] <= Len(blobs')
    <3>1. records[r] \in RecordEntry
      BY <1>2, <2>2 DEF TypeOK
    <3>2. records[r].blobs[k] \in Nat
      BY <1>2, <2>2, <3>1 DEF RecordEntry
    <3>. QED
      BY <1>0, <1>2, <2>1, <2>2, <3>2
  <2>3. ASSUME NEW u \in Threads, thread'[u].pc \in {"write", "publish"}
        PROVE  thread'[u].index <= Len(blobs')
    <3>1. CASE u = t
      BY <1>0, <1>2, <2>1, <3>1 DEF TypeOK
    <3>2. CASE u # t
      <4>1. thread[u].pc \in {"write", "publish"} /\ thread'[u] = thread[u]
        BY <1>2, <2>3, <3>2 DEF TypeOK
      <4>2. thread[u].index \in Nat /\ thread[u].index <= Len(blobs)
        BY <4>1, ThreadCases DEF TypeOK
      <4>. QED
        BY <1>0, <2>1, <4>1, <4>2
    <3>. QED
      BY <3>1, <3>2
  <2>. QED
    BY <2>2, <2>3
<1>3. ASSUME NEW t \in Threads, AddBlobNew(t)
      PROVE  IdsOK'
  BY <1>2, <1>3 DEF AddBlobNew
<1>4. ASSUME NEW t \in Threads, AddBlobShared(t)
      PROVE  IdsOK'
  BY <1>2, <1>4 DEF AddBlobShared
<1>5. ASSUME NEW t \in Threads, AddBlobWrite(t)
      PROVE  IdsOK'
  <2>1. \A u \in Threads : thread'[u].pc \in {"write", "publish"} =>
          thread[u].pc \in {"write", "publish"} /\ thread'[u].index = thread[u].index
    BY <1>5 DEF AddBlobWrite, TypeOK
  <2>. QED
    BY <1>5, <2>1 DEF AddBlobWrite
<1>6. ASSUME NEW t \in Threads, AddBlobReturn(t)
      PROVE  IdsOK'
  <2>1. Len(blobs') = Len(blobs)
    BY <1>6 DEF AddBlobReturn, TypeOK
  <2>2. \A u \in Threads : thread'[u].pc \in {"write", "publish"} => thread'[u] = thread[u]
    BY <1>6 DEF AddBlobReturn, TypeOK, Idle
  <2>. QED
    BY <1>6, <2>1, <2>2 DEF AddBlobReturn
<1>7. ASSUME NEW h \in HexNames, AddRecord(h)
      PROVE  IdsOK'
  <2>. DEFINE e == [raw_name |-> HexToRaw[h], blobs |-> <<>>, blob_table_start |-> 0]
  <2>1. records' = Append(records, e) /\ blobs' = blobs /\ thread' = thread
    BY <1>7 DEF AddRecord
  <2>2. records \in Seq(RecordEntry)
    BY DEF TypeOK
  <2>3. Len(records') = Len(records) + 1
    BY <2>1, <2>2
  <2>4. \A r \in 1..Len(records) : records'[r] = records[r]
    BY <2>1, <2>2
  <2>5. records'[Len(records) + 1] = e
    BY <2>1, <2>2
  <2>6. ASSUME NEW r \in 1..Len(records'), NEW k \in 1..Len(records'[r].blobs)
        PROVE  records'[r].blobs[k] <= Len(blobs)
    <3>1. CASE r \in 1..Len(records)
      BY <2>4, <2>6, <3>1
    <3>2. CASE r = Len(records) + 1
      BY <2>5, <2>6, <3>2
    <3>. QED
      BY <1>0, <2>3, <3>1, <3>2
  <2>. QED
    BY <2>1, <2>6
<1>8. ASSUME NEW r \in 1..MaxRecords, NEW b \in 1..MaxBlobs, AddBlobToRecord(r, b)
      PROVE  IdsOK'
  <2>1. /\ r \in 1..Len(records) /\ b \in 1..Len(blobs) /\ blobs' = blobs /\ thread' = thread
        /\ records' = [records EXCEPT ![r].blobs = Append(@, b)]
    BY <1>8 DEF AddBlobToRecord
  <2>2. records[r] \in RecordEntry
    BY <2>1 DEF TypeOK
  <2>3. \A k \in 1..Len(Append(records[r].blobs, b)) :
          Append(records[r].blobs, b)[k] <= Len(blobs)
    BY <2>1, <2>2 DEF RecordEntry
  <2>4. /\ Len(records') = Len(records)
        /\ records'[r].blobs = Append(records[r].blobs, b)
        /\ \A q \in 1..Len(records) : q # r => records'[q] = records[q]
    <3>1. records \in Seq(RecordEntry)
      BY DEF TypeOK
    <3>2. records' = [records EXCEPT ![r].blobs = Append(records[r].blobs, b)]
      BY <2>1
    <3>3. r \in 1..Len(records)
      BY <2>1
    <3>. QED
      BY <3>1, <3>2, <3>3, BlobsSet
  <2>. QED
    BY <2>1, <2>3, <2>4
<1>9. CASE FinishSort
  <2>1. PICK p \in SortedBy(Len(records), [i \in 1..Len(records) |-> records[i].raw_name]) :
          records' = Reordered(records, p)
    BY <1>9 DEF FinishSort
  <2>2. p \in [1..Len(records) -> 1..Len(records)]
    BY <2>1 DEF SortedBy, Reorders
  <2>3. /\ Len(records') = Len(records)
        /\ \A r \in 1..Len(records) : records'[r] = records[p[r]]
    BY <1>0, <2>1, <2>2 DEF Reordered
  <2>. QED
    BY <1>9, <2>2, <2>3 DEF FinishSort
<1>10. CASE FinishBlob
  <2>1. Len(blobs') = Len(blobs)
    BY <1>10 DEF FinishBlob, TypeOK
  <2>. QED
    BY <1>10, <2>1 DEF FinishBlob
<1>11. CASE FinishTable
  <2>. DEFINE bs == records[fin.i].blobs
  <2>1. PICK p \in SortedBy(Len(bs), [k \in 1..Len(bs) |-> blobs[bs[k]].name]) :
          records' = [records EXCEPT ![fin.i].blobs = Reordered(bs, p),
                                     ![fin.i].blob_table_start = offset]
    BY <1>11 DEF FinishTable
  <2>2. fin.i \in 1..Len(records)
    BY <1>11, TableIndex
  <2>3. records[fin.i] \in RecordEntry
    BY <2>2 DEF TypeOK
  <2>4. /\ Len(records') = Len(records)
        /\ records'[fin.i].blobs = Reordered(bs, p)
        /\ \A q \in 1..Len(records) : q # fin.i => records'[q] = records[q]
    <3>1. records \in Seq(RecordEntry)
      BY DEF TypeOK
    <3>. DEFINE us == [records EXCEPT ![fin.i].blobs = Reordered(bs, p),
                                      ![fin.i].blob_table_start = offset]
    <3>2. /\ Len(us) = Len(records)
          /\ us[fin.i].blobs = Reordered(bs, p)
          /\ \A q \in 1..Len(records) : q # fin.i => us[q] = records[q]
      BY <2>2, <3>1, BlobsAndTableSet
    <3>3. records' = us
      BY <2>1, Zenon
    <3>. HIDE DEF us
    <3>. QED
      BY <3>2, <3>3, Zenon
  <2>5. \A k \in 1..Len(bs) : p[k] \in 1..Len(bs)
    BY <2>1 DEF SortedBy, Reorders
  <2>6. Len(Reordered(bs, p)) = Len(bs) /\ bs \in Seq(Nat \ {0})
    BY <2>3, ReorderedType DEF RecordEntry
  <2>7. \A k \in 1..Len(Reordered(bs, p)) : Reordered(bs, p)[k] <= Len(blobs)
    BY <2>2, <2>5, <2>6 DEF Reordered
  <2>8. blobs' = blobs /\ thread' = thread
    BY <1>11 DEF FinishTable
  <2>. QED
    BY <2>4, <2>7, <2>8
<1>12. CASE UNCHANGED <<blobs, records, thread>>
  BY <1>12
<1>13. CASE \/ FinishBlobsDone \/ FinishTablesDone \/ FinishRecord \/ FinishRecordsDone
            \/ FinishString \/ FinishHeader \/ Abort \/ UNCHANGED vars
  BY <1>12, <1>13 DEF FinishBlobsDone, FinishTablesDone, FinishRecord, FinishRecordsDone,
     FinishString, FinishHeader, Abort, vars
<1>. QED
  BY <1>1, <1>3, <1>4, <1>5, <1>6, <1>7, <1>8, <1>9, <1>10, <1>11, <1>13
     DEF Next, AddBlob, Finish

\* The writer's state is well typed throughout, for any number of threads,
\* any requests and any strings: in particular no thread and no record ever
\* refers to a blob entry that is not in the array.
THEOREM TypeCorrect == Spec => [](TypeOK /\ IdsOK)
<1>1. Init => TypeOK /\ IdsOK
  <2>1. Init => IdsOK
    BY DEF Init, IdsOK, Idle
  <2>. QED
    BY <2>1, InitType
<1>2. TypeOK /\ IdsOK /\ [Next]_vars => TypeOK' /\ IdsOK'
  BY NextType, NextIds
<1>. QED
  BY <1>1, <1>2, PTL DEF Spec

----------------------------------------------------------------------------
Writing(t) == thread[t].pc = "write"

\* The end of what the file may hold so far; the string table lies beyond
\* ctx.offset.
Top == IF fin.pc \in {"strings", "done"} THEN fin.pos ELSE offset

\* Where the extents lie: between the header and Top, apart from the places
\* the threads still write to, which are apart from one another.
Layout ==
  /\ HDR_SIZE <= offset /\ offset <= Top
  /\ \A e \in file : /\ e.off + e.len <= Top
                     /\ fin.pc # "done" => HDR_SIZE <= e.off
  /\ \A t \in Threads : Writing(t) =>
        /\ HDR_SIZE <= thread[t].data_start
        /\ thread[t].data_start + SizeOf[Packed(thread[t].req)] <= offset
        /\ \A e \in file : Disjoint(e, DataExtent(thread[t]))
        /\ \A u \in Threads \ {t} :
             Writing(u) => Disjoint(DataExtent(thread[u]), DataExtent(thread[t]))
  /\ fin.pc # "open" => Quiet

\* Every checksum in the table has its data at the place the table says, or
\* on the way there.
Kept(c) ==
  \/ SizeOf[c] = 0
  \/ At(csum_to_data_start[c], SizeOf[c], Data(c)) \in file
  \/ \E t \in Threads : /\ Writing(t)
                        /\ Packed(thread[t].req) = c
                        /\ thread[t].data_start = csum_to_data_start[c]

\* A place has been reserved for the data with this checksum, and it is m.
PlacedAt(c, m) == csum_to_data_start[c] = m /\ m # 0

Stored ==
  /\ \A c \in Checksums : csum_to_data_start[c] <= offset
  /\ \A c \in Checksums : csum_to_data_start[c] # 0 => Kept(c)
  /\ \A t \in Threads : thread[t].pc \in {"write", "publish"} =>
        /\ blobs[thread[t].index].sblob.csum = Packed(thread[t].req)
        /\ PlacedAt(Packed(thread[t].req), thread[t].data_start)
  /\ \A i \in 1..Len(blobs) : Published(i) =>
        /\ blobs[i].sblob.size = SizeOf[blobs[i].sblob.csum]
        /\ PlacedAt(blobs[i].sblob.csum, blobs[i].sblob.data_start)

\* As long as offsets fit in a guint, lookups return what was inserted.
Fits == offset < UINT_MOD

----------------------------------------------------------------------------
\* A write apart from every extent of the file adds one and keeps the rest.
LEMMA WriteApart ==
  ASSUME NEW f, NEW w, \A e \in f : Disjoint(e, w)
  PROVE  f \subseteq pwrite(f, w) /\ pwrite(f, w) \subseteq f \cup {w}
  BY DEF pwrite

\* The extent a thread is about to write.
LEMMA DataExtentType ==
  ASSUME NEW s \in ThreadState, s.pc \in {"write", "publish"}
  PROVE  /\ DataExtent(s) \in Extent
         /\ DataExtent(s).off = s.data_start
         /\ DataExtent(s).len = SizeOf[Packed(s.req)]
         /\ s.req \in Requests /\ s.data_start \in Nat /\ s.index \in Nat \ {0}
         /\ Packed(s.req) \in Contents /\ SizeOf[Packed(s.req)] \in Nat
<1>1. s.req \in Requests /\ s.data_start \in Nat /\ s.index \in Nat \ {0}
  BY ThreadCases
<1>2. Packed(s.req) \in Contents /\ SizeOf[Packed(s.req)] \in Nat
  BY <1>1, PackedType
<1>. QED
  BY <1>1, <1>2 DEF DataExtent, At, Data, Extent, Chunk

\* Extents that lie beyond Top keep the layout, when no thread is at work.
LEMMA GrowBeyondTop ==
  ASSUME TypeOK, TypeOK', Layout, Quiet, Quiet', fin.pc # "done",
         \A e \in file' : e \in file \/ (Top <= e.off /\ e.off + e.len <= Top'),
         offset <= offset', offset' <= Top', Top <= Top'
  PROVE  Layout'
<1>1. HDR_SIZE <= offset'
  BY DEF Layout, TypeOK
<1>2. ASSUME NEW e \in file'
      PROVE  e.off + e.len <= Top' /\ (fin'.pc # "done" => HDR_SIZE <= e.off)
  <2>0. e.off \in Nat /\ e.len \in Nat /\ Top \in Nat /\ Top' \in Nat /\ offset \in Nat
    BY DEF TypeOK, Extent, Top, FinState
  <2>1. CASE e \in file
    BY <2>0, <2>1 DEF Layout
  <2>2. CASE Top <= e.off /\ e.off + e.len <= Top'
    BY <2>0, <2>2 DEF Layout
  <2>. QED
    BY <2>1, <2>2
<1>. QED
  BY <1>1, <1>2 DEF Layout, Quiet, Writing

\* And such extents are written beside those that are there.
LEMMA BeyondTop ==
  ASSUME TypeOK, Layout, NEW w \in Extent, Top <= w.off
  PROVE  \A e \in file : Disjoint(e, w)
<1>. SUFFICES ASSUME NEW e \in file PROVE e.off + e.len <= w.off
  BY DEF Disjoint
<1>1. e.off \in Nat /\ e.len \in Nat /\ w.off \in Nat /\ Top \in Nat /\ e.off + e.len <= Top
  BY DEF TypeOK, Extent, Top, FinState, Layout
<1>. QED
  BY <1>1

\* Layout holds again after every step, and the step keeps every extent.
LEMMA NextLayout ==
  TypeOK /\ TypeOK' /\ IdsOK /\ Layout /\ [Next]_vars => Layout' /\ file \subseteq file'
<1>. SUFFICES ASSUME TypeOK, TypeOK', IdsOK, Layout, [Next]_vars
              PROVE  Layout' /\ file \subseteq file'
  OBVIOUS
<1>0. /\ offset \in Nat /\ offset' \in Nat /\ Top \in Nat /\ Top' \in Nat
      /\ HDR_SIZE <= offset /\ offset <= Top
  BY DEF TypeOK, Top, FinState, Layout
<1>1. ASSUME NEW t \in Threads, NEW r \in Requests, AddBlobConstants(t, r)
      PROVE  Layout' /\ file \subseteq file'
  <2>1. \A u \in Threads : Writing(u)' => Writing(u) /\ thread'[u] = thread[u]
    BY <1>1 DEF AddBlobConstants, Writing, TypeOK
  <2>2. file' = file /\ offset' = offset /\ fin' = fin /\ fin.pc = "open"
    BY <1>1 DEF AddBlobConstants
  <2>. QED
    BY <2>1, <2>2 DEF Layout, Top
<1>2. ASSUME NEW t \in Threads, AddBlobNew(t)
      PROVE  Layout' /\ file \subseteq file'
  <2>. DEFINE c == Packed(thread[t].req)
  <2>1. thread[t] \in ThreadState /\ thread[t].pc = "read"
    BY <1>2 DEF AddBlobNew, TypeOK
  <2>2. thread[t].req \in Requests
    BY <2>1, ThreadCases
  <2>3. c \in Contents /\ SizeOf[c] \in Nat
    BY <2>2, PackedType
  <2>4. offset + SizeOf[c] \in Nat /\ offset + SizeOf[c] <= offset' /\ offset <= offset'
    <3>1. offset + SizeOf[c] \in Nat /\ offset' = ALIGN(offset + SizeOf[c])
      BY <1>0, <1>2, <2>3 DEF AddBlobNew, Reserve
    <3>2. offset' >= offset + SizeOf[c]
      BY <3>1, AlignUp
    <3>. QED
      BY <1>0, <2>3, <3>1, <3>2
  <2>5. fin.pc = "open" /\ fin' = fin /\ file' = file
    BY <1>2 DEF AddBlobNew, Layout, Quiet
  <2>6. /\ thread'[t].pc = "write" /\ thread'[t].req = thread[t].req
        /\ thread'[t].data_start = offset
        /\ \A u \in Threads \ {t} : thread'[u] = thread[u]
    BY <1>2 DEF AddBlobNew, TypeOK
  <2>7. DataExtent(thread'[t]).off = offset /\ DataExtent(thread'[t]).len = SizeOf[c]
    BY <2>6 DEF DataExtent, At
  <2>8. \A e \in file : e.off \in Nat /\ e.len \in Nat /\ e.off + e.len <= offset
                        /\ HDR_SIZE <= e.off
    BY <2>5 DEF Layout, Top, TypeOK, Extent
  <2>9. \A u \in Threads \ {t} : Writing(u) =>
          /\ DataExtent(thread[u]).off \in Nat /\ DataExtent(thread[u]).len \in Nat
          /\ DataExtent(thread[u]).off + DataExtent(thread[u]).len <= offset
    BY DataExtentType DEF Layout, Writing, TypeOK
  <2>10. \A e \in file : Disjoint(e, DataExtent(thread'[t]))
    BY <2>7, <2>8 DEF Disjoint
  <2>11. \A u \in Threads \ {t} : Writing(u) =>
          /\ Disjoint(DataExtent(thread[u]), DataExtent(thread'[t]))
          /\ Disjoint(DataExtent(thread'[t]), DataExtent(thread[u]))
    BY <2>7, <2>9 DEF Disjoint
  <2>12. ASSUME NEW v \in Threads, Writing(v)'
         PROVE  /\ HDR_SIZE <= thread'[v].data_start
                /\ thread'[v].data_start + SizeOf[Packed(thread'[v].req)] <= offset'
                /\ \A e \in file' : Disjoint(e, DataExtent(thread'[v]))
                /\ \A u \in Threads \ {v} : Writing(u)' =>
                      Disjoint(DataExtent(thread'[u]), DataExtent(thread'[v]))
    <3>1. CASE v = t
      BY <1>0, <2>4, <2>5, <2>6, <2>10, <2>11, <3>1 DEF Writing
    <3>2. CASE v # t
      <4>1. thread'[v] = thread[v] /\ Writing(v)
        BY <2>6, <2>12, <3>2 DEF Writing
      <4>2. /\ thread[v].data_start \in Nat /\ SizeOf[Packed(thread[v].req)] \in Nat
            /\ thread[v].data_start + SizeOf[Packed(thread[v].req)] <= offset
            /\ HDR_SIZE <= thread[v].data_start
            /\ \A e \in file : Disjoint(e, DataExtent(thread[v]))
        BY <4>1, DataExtentType DEF Layout, Writing, TypeOK
      <4>3. \A u \in Threads \ {v} : Writing(u)' =>
               Disjoint(DataExtent(thread'[u]), DataExtent(thread'[v]))
        <5>1. ASSUME NEW u \in Threads \ {v}, Writing(u)', u # t
              PROVE  Disjoint(DataExtent(thread'[u]), DataExtent(thread'[v]))
          BY <2>6, <4>1, <5>1 DEF Layout, Writing
        <5>2. Disjoint(DataExtent(thread'[t]), DataExtent(thread'[v]))
          BY <2>11, <3>2, <4>1
        <5>. QED
          BY <5>1, <5>2
      <4>. QED
        BY <1>0, <2>4, <2>5, <4>1, <4>2, <4>3
    <3>. QED
      BY <3>1, <3>2
  <2>13. \A e \in file' : e.off + e.len <= offset' /\ HDR_SIZE <= e.off
    BY <1>0, <2>4, <2>5, <2>8
  <2>. QED
    BY <1>0, <2>4, <2>5, <2>12, <2>13 DEF Layout, Top
<1>3. ASSUME NEW t \in Threads, thread[t].pc # "idle", file' = file,
             offset' = offset, fin' = fin,
             \A u \in Threads : Writing(u)' => Writing(u) /\ thread'[u] = thread[u]
      PROVE  Layout' /\ file \subseteq file'
  <2>1. fin.pc = "open"
    BY <1>3 DEF Layout, Quiet
  <2>. QED
    BY <1>3, <2>1 DEF Layout, Top
<1>4. ASSUME NEW t \in Threads, AddBlobShared(t)
      PROVE  Layout' /\ file \subseteq file'
  <2>1. \A u \in Threads : Writing(u)' => Writing(u) /\ thread'[u] = thread[u]
    BY <1>4 DEF AddBlobShared, Writing, TypeOK
  <2>. QED
    BY <1>3, <1>4, <2>1 DEF AddBlobShared
<1>5. ASSUME NEW t \in Threads, AddBlobReturn(t)
      PROVE  Layout' /\ file \subseteq file'
  <2>1. \A u \in Threads : Writing(u)' => Writing(u) /\ thread'[u] = thread[u]
    BY <1>5 DEF AddBlobReturn, Writing, Idle, TypeOK
  <2>. QED
    BY <1>3, <1>5, <2>1 DEF AddBlobReturn
<1>6. ASSUME NEW t \in Threads, AddBlobWrite(t)
      PROVE  Layout' /\ file \subseteq file'
  <2>. DEFINE w == DataExtent(thread[t])
  <2>1. /\ Writing(t) /\ fin' = fin /\ offset' = offset /\ file' = pwrite(file, w)
        /\ fin.pc = "open"
    BY <1>6 DEF AddBlobWrite, Writing, Layout, Quiet
  <2>2. \A u \in Threads : Writing(u)' => u # t /\ Writing(u) /\ thread'[u] = thread[u]
    BY <1>6 DEF AddBlobWrite, Writing, TypeOK
  <2>3. \A e \in file : Disjoint(e, w)
    BY <2>1 DEF Layout
  <2>4. file \subseteq file' /\ file' \subseteq file \cup {w}
    BY <2>1, <2>3, WriteApart
  <2>5. /\ w.off = thread[t].data_start /\ w.len = SizeOf[Packed(thread[t].req)]
        /\ HDR_SIZE <= w.off /\ w.off + w.len <= offset
    BY <2>1, DataExtentType DEF Layout, Writing, TypeOK
  <2>6. \A e \in file' : e.off + e.len <= offset /\ HDR_SIZE <= e.off
    BY <2>1, <2>4, <2>5 DEF Layout, Top
  <2>7. ASSUME NEW v \in Threads, Writing(v)'
        PROVE  /\ HDR_SIZE <= thread'[v].data_start
               /\ thread'[v].data_start + SizeOf[Packed(thread'[v].req)] <= offset'
               /\ \A e \in file' : Disjoint(e, DataExtent(thread'[v]))
               /\ \A u \in Threads \ {v} : Writing(u)' =>
                     Disjoint(DataExtent(thread'[u]), DataExtent(thread'[v]))
    <3>1. v # t /\ Writing(v) /\ thread'[v] = thread[v]
      BY <2>2, <2>7
    <3>2. Disjoint(w, DataExtent(thread[v]))
      BY <2>1, <3>1 DEF Layout
    <3>3. \A e \in file' : Disjoint(e, DataExtent(thread'[v]))
      BY <2>4, <3>1, <3>2 DEF Layout
    <3>. QED
      BY <2>1, <2>2, <3>1, <3>3 DEF Layout
  <2>. QED
    BY <1>0, <2>1, <2>4, <2>6, <2>7 DEF Layout, Top
<1>7. CASE UNCHANGED <<file, offset, fin, thread>>
  BY <1>7 DEF Layout, Top, Quiet, Writing
<1>8. CASE \/ \E h \in HexNames : AddRecord(h)
           \/ \E r \in 1..MaxRecords, b \in 1..MaxBlobs : AddBlobToRecord(r, b)
           \/ Abort \/ UNCHANGED vars
  BY <1>7, <1>8 DEF AddRecord, AddBlobToRecord, Abort, vars
<1>9. ASSUME Quiet, Quiet', file' = file, fin.pc # "done", fin'.pc # "done",
             offset <= offset', offset' <= Top', Top <= Top'
      PROVE  Layout' /\ file \subseteq file'
  BY <1>9, GrowBeyondTop
<1>10. CASE FinishSort
  <2>1. fin.pc = "open" /\ fin'.pc = "blobs"
    BY <1>10 DEF FinishSort, InPhase, Goto, FinState, TypeOK
  <2>2. Quiet /\ Quiet'
    BY <1>10 DEF FinishSort, Quiet
  <2>. QED
    BY <1>0, <1>9, <1>10, <2>1, <2>2 DEF FinishSort, Top
<1>11. ASSUME fin.pc # "open", thread' = thread
       PROVE  Quiet /\ Quiet'
  BY <1>11 DEF Layout, Quiet
<1>12. CASE FinishBlobsDone
  <2>1. fin.pc = "blobs" /\ fin'.pc = "tables"
    BY <1>12 DEF FinishBlobsDone, InPhase, Goto, FinState, TypeOK
  <2>. QED
    BY <1>0, <1>9, <1>11, <1>12, <2>1 DEF FinishBlobsDone, Top
<1>13. CASE FinishTablesDone
  <2>1. fin.pc = "tables" /\ fin'.pc = "records" /\ offset' = ALIGN(offset)
    BY <1>13 DEF FinishTablesDone, InPhase, Goto, FinState, TypeOK
  <2>2. offset <= offset'
    BY <1>0, <2>1, AlignUp
  <2>. QED
    BY <1>0, <1>9, <1>11, <1>13, <2>1, <2>2 DEF FinishTablesDone, Top
<1>14. CASE FinishRecordsDone
  <2>1. fin.pc = "records" /\ fin'.pc = "strings" /\ fin'.pos = ALIGN(offset)
    BY <1>14 DEF FinishRecordsDone, InPhase, Goto, FinState, TypeOK
  <2>2. offset <= fin'.pos
    BY <1>0, <2>1, AlignUp
  <2>. QED
    BY <1>0, <1>9, <1>11, <1>14, <2>1, <2>2 DEF FinishRecordsDone, Top
<1>15. ASSUME NEW w \in Extent, file' = pwrite(file, w), fin.pc # "open", fin.pc # "done",
              fin'.pc # "done", thread' = thread, w.off = Top, w.off + w.len <= Top',
              offset <= offset', offset' <= Top'
       PROVE  Layout' /\ file \subseteq file'
  <2>1. w.off \in Nat /\ w.len \in Nat
    BY DEF Extent
  <2>2. \A e \in file : Disjoint(e, w)
    BY <1>0, <1>15, BeyondTop
  <2>3. file \subseteq file' /\ file' \subseteq file \cup {w}
    BY <1>15, <2>2, WriteApart
  <2>4. Top <= Top'
    BY <1>0, <1>15, <2>1
  <2>5. \A e \in file' : e \in file \/ (Top <= e.off /\ e.off + e.len <= Top')
    BY <1>0, <1>15, <2>3
  <2>. QED
    BY <1>11, <1>15, <2>3, <2>4, <2>5, GrowBeyondTop
<1>16. CASE FinishBlob
  <2>. DEFINE w == At(offset, BLOB_SIZE, [kind |-> "blob", sblob |-> blobs[fin.i].sblob])
  <2>1. /\ fin.pc = "blobs" /\ fin'.pc = "blobs" /\ offset' = offset + 76
        /\ file' = pwrite(file, w) /\ thread' = thread
    BY <1>16 DEF FinishBlob, InPhase, Advance, FinState, TypeOK
  <2>2. w \in Extent
    <3>1. blobs[fin.i] \in BlobEntry
      <4>1. blobs \in Seq(BlobEntry) /\ fin.i \in Nat \ {0} /\ fin.i <= Len(blobs)
        BY <1>16, FinFields DEF FinishBlob, TypeOK
      <4>. QED
        BY <4>1
    <3>2. blobs[fin.i].sblob \in SBlob
      BY <3>1 DEF BlobEntry
    <3>. QED
      BY <1>0, <3>2 DEF At, Extent, Chunk
  <2>3. w.off = offset /\ w.len = 76
    BY DEF At
  <2>. HIDE DEF w
  <2>. QED
    BY <1>0, <1>15, <2>1, <2>2, <2>3 DEF Top
<1>17. CASE FinishRecord
  <2>. DEFINE w == At(offset, RECORD_SIZE,
                      [kind |-> "record", srecord |-> Written(records[fin.i])])
  <2>1. /\ fin.pc = "records" /\ fin'.pc = "records" /\ offset' = offset + 36
        /\ file' = pwrite(file, w) /\ thread' = thread
    BY <1>17 DEF FinishRecord, InPhase, Advance, FinState, TypeOK
  <2>2. w \in Extent
    <3>1. w \in file'
      BY <2>1 DEF pwrite, At
    <3>. QED
      BY <3>1 DEF TypeOK
  <2>3. w.off = offset /\ w.len = 36
    BY DEF At
  <2>. HIDE DEF w
  <2>. QED
    BY <1>0, <1>15, <2>1, <2>2, <2>3 DEF Top
<1>18. CASE FinishString
  <2>. DEFINE s == cpool.strings[fin.i]
              w == At(fin.pos, StrLen[s] + 1, [kind |-> "string", str |-> s])
  <2>1. StrLen[s] \in Nat
    <3>1. fin.i \in 1..Len(cpool.strings) /\ cpool.strings \in Seq(Strings)
      BY <1>18 DEF FinishString, FinState, TypeOK
    <3>2. s \in Strings
      BY <3>1
    <3>. QED
      BY <3>2, StringsAssumption
  <2>2. /\ fin.pc = "strings" /\ offset' = offset /\ thread' = thread
        /\ file' = pwrite(file, w)
    BY <1>18 DEF FinishString, InPhase
  <2>3. fin'.pc = "strings" /\ fin'.pos = fin.pos + StrLen[s] + 1
    BY <1>18 DEF FinishString, InPhase, Advance, FinState, TypeOK
  <2>4. w.off = fin.pos /\ w.len = StrLen[s] + 1
    BY DEF At
  <2>5. w \in Extent
    <3>1. w.len # 0
      BY <2>1, <2>4
    <3>. HIDE DEF w
    <3>2. w \in file'
      BY <2>2, <3>1 DEF pwrite
    <3>. QED
      BY <3>2 DEF TypeOK
  <2>6. fin.pos \in Nat
    BY DEF FinState, TypeOK
  <2>. HIDE DEF w, s
  <2>. QED
    BY <1>0, <1>15, <2>1, <2>2, <2>3, <2>4, <2>5, <2>6 DEF Top
<1>19. CASE FinishTable
  <2>. DEFINE bs == records[fin.i].blobs
  <2>1. PICK p \in SortedBy(Len(bs), [k \in 1..Len(bs) |-> blobs[bs[k]].name]) :
          file' = pwrites(file, TableExtents(Reordered(bs, p)))
    BY <1>19 DEF FinishTable
  <2>2. fin.i \in 1..Len(records)
    BY <1>19, TableIndex
  <2>3. records[fin.i] \in RecordEntry
    BY <2>2 DEF TypeOK
  <2>4. bs \in Seq(Nat \ {0})
    BY <2>3 DEF RecordEntry
  <2>. DEFINE W == TableExtents(Reordered(bs, p))
  <2>5. Len(Reordered(bs, p)) = Len(bs) /\ Len(bs) \in Nat
    BY <2>4, ReorderedType
  <2>6. /\ fin.pc = "tables" /\ fin'.pc = "tables" /\ offset' = offset + 8 * Len(bs)
        /\ thread' = thread
    BY <1>19 DEF FinishTable, InPhase, Advance, FinState, TypeOK
  <2>7. \A w \in W : /\ offset <= w.off /\ w.off + w.len <= offset'
                     /\ w.off \in Nat /\ w.len \in Nat
    <3>1. \A w \in W : \E k \in 1..Len(bs) : w.off = offset + 8 * (k - 1) /\ w.len = 8
      <4>. DEFINE rs == Reordered(bs, p)
      <4>. HIDE DEF rs
      <4>1. \A w \in TableExtents(rs) :
              \E k \in 1..Len(rs) : w.off = offset + 8 * (k - 1) /\ w.len = 8
        BY DEF TableExtents, At
      <4>. QED
        BY <2>5, <4>1 DEF rs
    <3>2. \A k \in 1..Len(bs) : k - 1 \in Nat /\ k <= Len(bs)
      BY <2>5
    <3>. HIDE DEF W, bs
    <3>. QED
      BY <1>0, <2>5, <2>6, <3>1, <3>2
  <2>8. file' = {e \in file : \A w \in W : Disjoint(e, w)} \cup W
    BY <2>1 DEF pwrites
  <2>. HIDE DEF W, bs
  <2>9. \A e \in file : e.off + e.len <= offset /\ e.off \in Nat /\ e.len \in Nat
    BY <2>6 DEF Layout, Top, TypeOK, Extent
  <2>10. \A e \in file, w \in W : Disjoint(e, w)
    BY <1>0, <2>7, <2>9 DEF Disjoint
  <2>11. file' = file \cup W
    BY <2>8, <2>10
  <2>12. \A e \in file' : e \in file \/ (Top <= e.off /\ e.off + e.len <= Top')
    BY <2>6, <2>7, <2>11 DEF Top
  <2>13. offset <= offset'
    BY <1>0, <2>5, <2>6
  <2>. QED
    BY <1>0, <1>11, <2>6, <2>11, <2>12, <2>13, GrowBeyondTop DEF Top
<1>20. CASE FinishHeader
  <2>. DEFINE h == [records_length |-> Len(records), records_start |-> fin.records_start,
                    string_constant_table_start |-> fin.strings_start]
              w == At(0, HDR_SIZE, [kind |-> "hdr", hdr |-> h])
  <2>1. /\ fin.pc = "strings" /\ offset' = offset /\ thread' = thread
        /\ file' = pwrite(file, w)
    BY <1>20 DEF FinishHeader, InPhase
  <2>2. fin'.pc = "done" /\ fin'.pos = fin.pos
    BY <1>20 DEF FinishHeader, FinState, TypeOK
  <2>3. w.off = 0 /\ w.len = 36
    BY DEF At
  <2>. HIDE DEF w
  <2>4. \A e \in file : HDR_SIZE <= e.off /\ e.off \in Nat /\ e.len \in Nat
    BY <2>1 DEF Layout, TypeOK, Extent
  <2>5. \A e \in file : Disjoint(e, w)
    BY <2>3, <2>4 DEF Disjoint
  <2>6. file \subseteq file' /\ file' \subseteq file \cup {w}
    BY <2>1, <2>5, WriteApart
  <2>7. \A e \in file' : e.off + e.len <= Top'
    BY <1>0, <2>1, <2>2, <2>3, <2>6 DEF Layout, Top
  <2>8. Quiet /\ Quiet'
    BY <1>11, <2>1
  <2>. QED
    BY <1>0, <2>1, <2>2, <2>6, <2>7, <2>8 DEF Layout, Top, Quiet, Writing
<1>. QED
  BY <1>1, <1>2, <1>4, <1>5, <1>6, <1>8, <1>10, <1>12, <1>13, <1>14, <1>16, <1>17,
     <1>18, <1>19, <1>20 DEF Next, AddBlob, Finish

\* In every behaviour each write leaves what earlier writes put in the file:
\* the copies of the threads, which hold no lock, and everything finish
\* lays out afterwards.
THEOREM WritesApart == Spec => WriteOnce
<1>. DEFINE Inv == TypeOK /\ IdsOK /\ Layout
<1>1. Init => Inv
  <2>1. Init => IdsOK
    BY DEF Init, IdsOK, Idle
  <2>2. Init => Layout
    BY DEF Init, Layout, Top, Writing, Idle
  <2>. QED
    BY <2>1, <2>2, InitType
<1>2. Inv /\ [Next]_vars => Inv'
  BY NextType, NextIds, NextLayout
<1>3. Inv /\ Inv' /\ [Next]_vars => [file \subseteq file']_vars
  BY NextLayout
<1>. QED
  BY <1>1, <1>2, <1>3, PTL DEF Spec, WriteOnce

----------------------------------------------------------------------------
\* ctx.offset only moves forward.
LEMMA OffsetGrows == TypeOK /\ [Next]_vars => offset <= offset'
<1>. SUFFICES ASSUME TypeOK, [Next]_vars PROVE offset <= offset'
  OBVIOUS
<1>0. offset \in Nat
  BY DEF TypeOK
<1>1. ASSUME NEW t \in Threads, AddBlobNew(t)
      PROVE  offset <= offset'
  <2>1. thread[t].req \in Requests
    BY <1>1, ThreadCases DEF AddBlobNew, TypeOK
  <2>2. SizeOf[Packed(thread[t].req)] \in Nat
    BY <2>1, PackedType
  <2>3. offset' = ALIGN(offset + SizeOf[Packed(thread[t].req)])
    BY <1>1 DEF AddBlobNew, Reserve
  <2>. QED
    BY <1>0, <2>2, <2>3, AlignUp
<1>2. CASE FinishBlob
  BY <1>0, <1>2 DEF FinishBlob
<1>3. CASE FinishTable
  <2>1. records[fin.i] \in RecordEntry
    BY <1>3, TableIndex DEF TypeOK
  <2>2. Len(records[fin.i].blobs) \in Nat
    BY <2>1 DEF RecordEntry
  <2>3. offset' = offset + 8 * Len(records[fin.i].blobs)
    BY <1>3 DEF FinishTable
  <2>. QED
    BY <1>0, <2>2, <2>3
<1>4. CASE FinishTablesDone
  BY <1>0, <1>4, AlignUp DEF FinishTablesDone
<1>5. CASE FinishRecord
  BY <1>0, <1>5 DEF FinishRecord
<1>6. CASE offset' = offset
  BY <1>0, <1>6
<1>. QED
  BY <1>1, <1>2, <1>3, <1>4, <1>5, <1>6
     DEF Next, AddBlob, Finish, AddBlobConstants, AddBlobShared, AddBlobWrite,
         AddBlobReturn, AddRecord, AddBlobToRecord, FinishSort, FinishBlobsDone,
         FinishRecordsDone, FinishString, FinishHeader, Abort, vars

\* A step that keeps the extents and lets no thread drop its copy keeps the
\* data of a checksum whose place it does not change.
LEMMA KeptStays ==
  ASSUME NEW c, Kept(c), csum_to_data_start'[c] = csum_to_data_start[c],
         file \subseteq file',
         \A t \in Threads : Writing(t) =>
            \/ thread'[t] = thread[t]
            \/ SizeOf[Packed(thread[t].req)] = 0
            \/ DataExtent(thread[t]) \in file'
  PROVE  Kept(c)'
  BY DEF Kept, Writing, DataExtent

\* What add_blob knows of a blob is kept from where it enters the array to
\* where its entry is published.
LEMMA NextStored ==
  TypeOK /\ TypeOK' /\ IdsOK /\ Layout /\ (Fits => Stored) /\ [Next]_vars
    => (Fits => Stored)'
<1>. SUFFICES ASSUME TypeOK, TypeOK', IdsOK, Layout, Fits => Stored, [Next]_vars, Fits'
              PROVE  Stored'
  OBVIOUS
<1>0. /\ file \subseteq file' /\ offset <= offset'
      /\ offset \in Nat /\ offset' \in Nat /\ UINT_MOD \in Nat
      /\ csum_to_data_start \in [Checksums -> Nat]
  BY NextLayout, OffsetGrows, WidthsAssumption DEF TypeOK
<1>1. Fits /\ Stored
  BY <1>0 DEF Fits
<1>2. \A c \in Checksums : Found(c) = csum_to_data_start[c]
  <2>1. \A m, n \in Nat : m < n => m % n = m
    OBVIOUS
  <2>. QED
    BY <1>0, <1>1, <2>1 DEF Found, Fits, Stored
<1>3. ASSUME UNCHANGED <<blobs, csum_to_data_start, thread>>
      PROVE  Stored'
  <2>1. \A c \in Checksums : csum_to_data_start'[c] # 0 => Kept(c)'
    BY <1>0, <1>1, <1>3, KeptStays DEF Stored
  <2>2. \A c \in Checksums : csum_to_data_start'[c] <= offset'
    BY <1>0, <1>1, <1>3 DEF Stored
  <2>. QED
    BY <1>1, <1>3, <2>1, <2>2 DEF Stored, PlacedAt, Published
<1>4. ASSUME NEW t \in Threads, NEW r \in Requests, AddBlobConstants(t, r)
      PROVE  Stored'
  <2>1. /\ UNCHANGED <<blobs, csum_to_data_start>>
        /\ thread[t].pc = "idle" /\ thread'[t].pc = "read"
        /\ \A u \in Threads \ {t} : thread'[u] = thread[u]
    BY <1>4 DEF AddBlobConstants, TypeOK
  <2>2. \A c \in Checksums : csum_to_data_start'[c] # 0 => Kept(c)'
    BY <1>0, <1>1, <2>1, KeptStays DEF Stored, Writing
  <2>3. \A c \in Checksums : csum_to_data_start'[c] <= offset'
    BY <1>0, <1>1, <2>1 DEF Stored
  <2>4. \A u \in Threads : thread'[u].pc \in {"write", "publish"} => thread'[u] = thread[u]
    BY <2>1
  <2>5. \A i \in 1..Len(blobs) : Published(i)' => Published(i)
    BY <2>1 DEF Published
  <2>. QED
    BY <1>1, <2>1, <2>2, <2>3, <2>4, <2>5 DEF Stored, PlacedAt
<1>5. ASSUME NEW t \in Threads, NEW b \in BlobEntry, blobs' = Append(blobs, b),
             thread[t].pc = "read", thread'[t].pc \in {"write", "publish"},
             thread'[t].index = Len(blobs) + 1,
             b.sblob.csum = Packed(thread'[t].req),
             csum_to_data_start'[Packed(thread'[t].req)] = thread'[t].data_start,
             thread'[t].data_start # 0,
             \A u \in Threads \ {t} : thread'[u] = thread[u],
             \A c \in Checksums : csum_to_data_start[c] # 0 =>
                csum_to_data_start'[c] = csum_to_data_start[c],
             \A c \in Checksums : csum_to_data_start'[c] <= offset',
             \A c \in Checksums : csum_to_data_start'[c] # 0 => Kept(c)'
      PROVE  Stored'
  <2>1. /\ Len(blobs') = Len(blobs) + 1 /\ blobs'[Len(blobs) + 1] = b
        /\ \A i \in 1..Len(blobs) : blobs'[i] = blobs[i]
        /\ Len(blobs) \in Nat
    BY <1>5 DEF TypeOK
  <2>2. ASSUME NEW u \in Threads, thread'[u].pc \in {"write", "publish"}
        PROVE  /\ blobs'[thread'[u].index].sblob.csum = Packed(thread'[u].req)
               /\ csum_to_data_start'[Packed(thread'[u].req)] = thread'[u].data_start
               /\ thread'[u].data_start # 0
    <3>1. CASE u = t
      BY <1>5, <2>1, <3>1
    <3>2. CASE u # t
      <4>1. thread'[u] = thread[u] /\ thread[u].pc \in {"write", "publish"}
        BY <1>5, <2>2, <3>2
      <4>2. /\ thread[u].index \in 1..Len(blobs)
            /\ Packed(thread[u].req) \in Checksums
        BY <2>1, <4>1, DataExtentType DEF IdsOK, TypeOK
      <4>3. /\ blobs[thread[u].index].sblob.csum = Packed(thread[u].req)
            /\ PlacedAt(Packed(thread[u].req), thread[u].data_start)
        BY <1>1, <4>1 DEF Stored
      <4>. QED
        BY <1>5, <2>1, <4>1, <4>2, <4>3 DEF PlacedAt
    <3>. QED
      BY <3>1, <3>2
  <2>3. ASSUME NEW i \in 1..Len(blobs'), Published(i)'
        PROVE  /\ blobs'[i].sblob.size = SizeOf[blobs'[i].sblob.csum]
               /\ csum_to_data_start'[blobs'[i].sblob.csum] = blobs'[i].sblob.data_start
               /\ blobs'[i].sblob.data_start # 0
    <3>1. i # Len(blobs) + 1
      BY <1>5, <2>3 DEF Published
    <3>2. i \in 1..Len(blobs) /\ blobs'[i] = blobs[i]
      BY <2>1, <3>1
    <3>3. Published(i)
      BY <1>5, <2>3 DEF Published
    <3>4. blobs[i].sblob.csum \in Checksums
      <4>1. blobs[i] \in BlobEntry
        BY <3>2 DEF TypeOK
      <4>. QED
        BY <4>1 DEF BlobEntry, SBlob
    <3>. QED
      BY <1>1, <1>5, <3>2, <3>3, <3>4 DEF Stored, PlacedAt
  <2>. QED
    BY <1>5, <2>2, <2>3 DEF Stored, PlacedAt
<1>6. ASSUME NEW t \in Threads, AddBlobNew(t)
      PROVE  Stored'
  <2>. DEFINE c == Packed(thread[t].req)
  <2>1. /\ thread[t] \in [pc: {"read"}, req: Requests, name_offs: Nat, content_type_offs: Nat]
        /\ thread[t].pc = "read"
    BY <1>6, ThreadCases DEF AddBlobNew, TypeOK
  <2>2. c \in Checksums
    BY <2>1, PackedType
  <2>3. /\ csum_to_data_start[c] = 0
        /\ csum_to_data_start' = [csum_to_data_start EXCEPT ![c] = offset]
        /\ blobs' = Append(blobs, NewBlob(thread[t]))
    BY <1>2, <1>6, <2>2 DEF AddBlobNew, Remember
  <2>4. /\ thread'[t].pc = "write" /\ thread'[t].req = thread[t].req
        /\ thread'[t].index = Len(blobs) + 1 /\ thread'[t].data_start = offset
        /\ \A u \in Threads \ {t} : thread'[u] = thread[u]
    BY <1>6 DEF AddBlobNew, TypeOK
  <2>5. NewBlob(thread[t]) \in BlobEntry /\ NewBlob(thread[t]).sblob.csum = c
    BY <2>1, NewBlobType DEF NewBlob
  <2>6. \A d \in Checksums : d # c => csum_to_data_start'[d] = csum_to_data_start[d]
    BY <1>0, <2>2, <2>3
  <2>7. csum_to_data_start'[c] = offset /\ offset # 0
    BY <1>0, <2>2, <2>3 DEF Layout
  <2>8. \A d \in Checksums : csum_to_data_start'[d] <= offset'
    <3>1. \A d \in Checksums : csum_to_data_start[d] \in Nat /\ csum_to_data_start[d] <= offset
      BY <1>0, <1>1 DEF Stored
    <3>. QED
      BY <1>0, <2>6, <2>7, <3>1
  <2>9. ASSUME NEW d \in Checksums, csum_to_data_start'[d] # 0
        PROVE  Kept(d)'
    <3>1. CASE d = c
      BY <2>4, <2>7, <3>1 DEF Kept, Writing
    <3>2. CASE d # c
      <4>1. Kept(d)
        BY <1>1, <2>6, <2>9, <3>2 DEF Stored
      <4>. QED
        BY <1>0, <2>1, <2>4, <2>6, <3>2, <4>1, KeptStays DEF Writing
    <3>. QED
      BY <3>1, <3>2
  <2>10. \A d \in Checksums : csum_to_data_start[d] # 0 =>
            csum_to_data_start'[d] = csum_to_data_start[d]
    BY <2>3, <2>6
  <2>. HIDE DEF c
  <2>. QED
    BY <1>5, <2>1, <2>3, <2>4, <2>5, <2>7, <2>8, <2>9, <2>10 DEF c
<1>7. ASSUME NEW t \in Threads, AddBlobShared(t)
      PROVE  Stored'
  <2>. DEFINE c == Packed(thread[t].req)
  <2>1. /\ thread[t] \in [pc: {"read"}, req: Requests, name_offs: Nat, content_type_offs: Nat]
        /\ thread[t].pc = "read"
    BY <1>7, ThreadCases DEF AddBlobShared, TypeOK
  <2>2. c \in Checksums
    BY <2>1, PackedType
  <2>3. /\ csum_to_data_start[c] = Found(c) /\ Found(c) # 0
        /\ csum_to_data_start' = csum_to_data_start
        /\ blobs' = Append(blobs, NewBlob(thread[t]))
    BY <1>2, <1>7, <2>2 DEF AddBlobShared, pool
  <2>4. /\ thread'[t].pc = "publish" /\ thread'[t].req = thread[t].req
        /\ thread'[t].index = Len(blobs) + 1 /\ thread'[t].data_start = Found(c)
        /\ \A u \in Threads \ {t} : thread'[u] = thread[u]
    BY <1>7 DEF AddBlobShared, TypeOK
  <2>5. NewBlob(thread[t]) \in BlobEntry /\ NewBlob(thread[t]).sblob.csum = c
    BY <2>1, NewBlobType DEF NewBlob
  <2>6. \A d \in Checksums : csum_to_data_start'[d] <= offset'
    BY <1>0, <1>1, <2>3 DEF Stored
  <2>7. \A d \in Checksums : csum_to_data_start'[d] # 0 => Kept(d)'
    BY <1>0, <1>1, <2>1, <2>3, <2>4, KeptStays DEF Stored, Writing
  <2>. HIDE DEF c
  <2>. QED
    BY <1>5, <2>1, <2>3, <2>4, <2>5, <2>6, <2>7 DEF c
<1>8. ASSUME NEW t \in Threads, AddBlobWrite(t)
      PROVE  Stored'
  <2>1. /\ UNCHANGED <<blobs, csum_to_data_start>> /\ Writing(t)
        /\ file' = pwrite(file, DataExtent(thread[t]))
        /\ \A u \in Threads : /\ u # t => thread'[u] = thread[u]
                              /\ thread'[u].pc \in {"write", "publish"} =>
                                   /\ thread[u].pc \in {"write", "publish"}
                                   /\ thread'[u].req = thread[u].req
                                   /\ thread'[u].index = thread[u].index
                                   /\ thread'[u].data_start = thread[u].data_start
    BY <1>8 DEF AddBlobWrite, pool, Writing, TypeOK
  <2>2. \/ SizeOf[Packed(thread[t].req)] = 0
        \/ DataExtent(thread[t]) \in file'
    BY <2>1 DEF pwrite, DataExtent, At
  <2>3. \A c \in Checksums : csum_to_data_start'[c] # 0 => Kept(c)'
    BY <1>0, <1>1, <2>1, <2>2, KeptStays DEF Stored
  <2>4. \A c \in Checksums : csum_to_data_start'[c] <= offset'
    BY <1>0, <1>1, <2>1 DEF Stored
  <2>5. \A i \in 1..Len(blobs) : Published(i)' => Published(i)
    BY <1>8 DEF Published, AddBlobWrite, TypeOK
  <2>. QED
    BY <1>1, <2>1, <2>3, <2>4, <2>5 DEF Stored, PlacedAt
<1>9. ASSUME NEW t \in Threads, AddBlobReturn(t)
      PROVE  Stored'
  <2>. DEFINE n == thread[t].index
              c == Packed(thread[t].req)
  <2>1. /\ thread[t].pc = "publish" /\ thread'[t].pc = "idle"
        /\ \A u \in Threads \ {t} : thread'[u] = thread[u]
        /\ UNCHANGED csum_to_data_start
    BY <1>9 DEF AddBlobReturn, Idle, pool, TypeOK
  <2>2. n \in 1..Len(blobs)
    BY <2>1, DataExtentType DEF IdsOK, TypeOK
  <2>3. blobs[n].sblob.csum = c /\ PlacedAt(c, thread[t].data_start)
    BY <1>1, <2>1 DEF Stored
  <2>4. \A i \in 1..Len(blobs) : blobs[i] \in BlobEntry
    BY DEF TypeOK
  <2>5. /\ Len(blobs') = Len(blobs)
        /\ \A i \in 1..Len(blobs) : i # n => blobs'[i] = blobs[i]
        /\ blobs'[n].sblob.csum = blobs[n].sblob.csum
        /\ blobs'[n].sblob.data_start = thread[t].data_start
        /\ blobs'[n].sblob.size = SizeOf[c]
    <3>1. blobs' = [blobs EXCEPT ![n].sblob.data_start = thread[t].data_start,
                                 ![n].sblob.size = SizeOf[c]]
      BY <1>9 DEF AddBlobReturn
    <3>2. blobs \in Seq(BlobEntry) /\ blobs[n] \in BlobEntry
      BY <2>2, <2>4 DEF TypeOK
    <3>. HIDE DEF n, c
    <3>3. Len(blobs') = Len(blobs) /\ \A i \in 1..Len(blobs) : i # n => blobs'[i] = blobs[i]
      <4>1. \A x, y : LET bs == [blobs EXCEPT ![n].sblob.data_start = x, ![n].sblob.size = y]
                      IN  /\ Len(bs) = Len(blobs)
                          /\ \A i \in 1..Len(blobs) : i # n => bs[i] = blobs[i]
        BY <3>2
      <4>. QED
        BY <3>1, <4>1
    <3>4. blobs'[n].sblob.csum = blobs[n].sblob.csum
      BY <2>2, <3>1, <3>2 DEF BlobEntry, SBlob
    <3>5. blobs'[n].sblob.data_start = thread[t].data_start
      BY <2>2, <3>1, <3>2 DEF BlobEntry, SBlob
    <3>6. blobs'[n].sblob.size = SizeOf[c]
      BY <2>2, <3>1, <3>2 DEF BlobEntry, SBlob
    <3>. QED
      BY <3>3, <3>4, <3>5, <3>6
  <2>6. \A d \in Checksums : csum_to_data_start'[d] # 0 => Kept(d)'
    BY <1>0, <1>1, <2>1, KeptStays DEF Stored, Writing
  <2>7. \A d \in Checksums : csum_to_data_start'[d] <= offset'
    BY <1>0, <1>1, <2>1 DEF Stored
  <2>8. \A i \in 1..Len(blobs) : i # n /\ Published(i)' => Published(i)
    BY <2>1 DEF Published
  <2>9. ASSUME NEW u \in Threads, thread'[u].pc \in {"write", "publish"}
        PROVE  /\ blobs'[thread'[u].index].sblob.csum = Packed(thread'[u].req)
               /\ csum_to_data_start'[Packed(thread'[u].req)] = thread'[u].data_start
               /\ thread'[u].data_start # 0
    <3>1. thread'[u] = thread[u] /\ thread[u].pc \in {"write", "publish"}
      BY <2>1, <2>9
    <3>2. thread[u].index \in 1..Len(blobs)
      BY <3>1, DataExtentType DEF IdsOK, TypeOK
    <3>3. blobs'[thread[u].index].sblob.csum = blobs[thread[u].index].sblob.csum
      BY <2>5, <3>2
    <3>. QED
      BY <1>1, <2>1, <3>1, <3>3 DEF Stored, PlacedAt
  <2>10. ASSUME NEW i \in 1..Len(blobs'), Published(i)'
         PROVE  /\ blobs'[i].sblob.size = SizeOf[blobs'[i].sblob.csum]
                /\ csum_to_data_start'[blobs'[i].sblob.csum] = blobs'[i].sblob.data_start
                /\ blobs'[i].sblob.data_start # 0
    <3>1. CASE i = n
      BY <2>1, <2>3, <2>5, <3>1 DEF PlacedAt
    <3>2. CASE i # n
      <4>1. i \in 1..Len(blobs) /\ Published(i) /\ blobs'[i] = blobs[i]
        BY <2>5, <2>8, <2>10, <3>2
      <4>2. csum_to_data_start' = csum_to_data_start
        BY <2>1
      <4>. HIDE DEF n, c
      <4>. QED
        BY <1>1, <4>1, <4>2 DEF Stored, PlacedAt
    <3>. QED
      BY <3>1, <3>2
  <2>. QED
    BY <2>6, <2>7, <2>9, <2>10 DEF Stored, PlacedAt
<1>10. CASE FinishBlob
  <2>1. /\ UNCHANGED <<csum_to_data_start, thread>> /\ fin.i \in 1..Len(blobs)
        /\ blobs' = [blobs EXCEPT ![fin.i].offs = offset]
    BY <1>10 DEF FinishBlob, pool, FinState, TypeOK
  <2>2. \A i \in 1..Len(blobs) : blobs[i] \in BlobEntry
    BY DEF TypeOK
  <2>3. Len(blobs') = Len(blobs) /\ \A i \in 1..Len(blobs) : blobs'[i].sblob = blobs[i].sblob
    <3>1. Len(blobs') = Len(blobs) /\ \A i \in 1..Len(blobs) : i # fin.i => blobs'[i] = blobs[i]
      BY <2>1 DEF TypeOK
    <3>2. blobs'[fin.i].sblob = blobs[fin.i].sblob
      BY <2>1, <2>2 DEF BlobEntry, TypeOK
    <3>. QED
      BY <3>1, <3>2
  <2>4. \A c \in Checksums : csum_to_data_start'[c] # 0 => Kept(c)'
    BY <1>0, <1>1, <2>1, KeptStays DEF Stored
  <2>5. \A c \in Checksums : csum_to_data_start'[c] <= offset'
    BY <1>0, <1>1, <2>1 DEF Stored
  <2>6. \A t \in Threads : thread[t].pc \in {"write", "publish"} =>
          thread[t].index \in 1..Len(blobs)
    BY DataExtentType DEF IdsOK, TypeOK
  <2>. QED
    BY <1>1, <2>1, <2>3, <2>4, <2>5, <2>6 DEF Stored, PlacedAt, Published
<1>. QED
  BY <1>3, <1>4, <1>6, <1>7, <1>8, <1>9, <1>10
     DEF Next, AddBlob, Finish, AddRecord, AddBlobToRecord, FinishSort, FinishBlobsDone,
         FinishTable, FinishTablesDone, FinishRecord, FinishRecordsDone, FinishString,
         FinishHeader, Abort, vars, pool

\* What is stored is what the properties ask for.
LEMMA StoredIntact == TypeOK /\ Stored => DataIntact /\ SharedOffset
<1>. SUFFICES ASSUME TypeOK, Stored PROVE DataIntact /\ SharedOffset
  OBVIOUS
<1>1. \A i \in 1..Len(blobs) : blobs[i].sblob.csum \in Checksums
  <2>1. \A i \in 1..Len(blobs) : blobs[i] \in BlobEntry
    BY DEF TypeOK
  <2>. QED
    BY <2>1 DEF BlobEntry, SBlob
<1>2. ASSUME NEW i \in 1..Len(blobs), Published(i)
      PROVE  BlobIntact(blobs[i].sblob) /\ blobs[i].sblob.size = SizeOf[blobs[i].sblob.csum]
  <2>. DEFINE b == blobs[i].sblob
  <2>1. /\ b.size = SizeOf[b.csum] /\ csum_to_data_start[b.csum] = b.data_start
        /\ b.data_start # 0
    BY <1>2 DEF Stored, PlacedAt
  <2>2. Kept(b.csum)
    BY <1>1, <2>1 DEF Stored
  <2>. HIDE DEF b
  <2>. QED
    BY <2>1, <2>2 DEF Kept, BlobIntact, DataExtent, Writing, b
<1>. QED
  BY <1>2 DEF DataIntact, SharedOffset, Stored, PlacedAt

\* As long as the file stays below the range of a guint, the data of every
\* blob whose identifier has been handed out is in the file, unless the
\* thread that claimed its place is still copying it, and blobs with the
\* same packed bytes share one place.
THEOREM DataSafe == Spec => [](Fits => DataIntact /\ SharedOffset)
<1>. DEFINE Inv == TypeOK /\ IdsOK /\ Layout /\ (Fits => Stored)
<1>1. Init => Inv
  <2>1. Init => IdsOK
    BY DEF Init, IdsOK, Idle
  <2>2. Init => Layout
    BY DEF Init, Layout, Top, Writing, Idle
  <2>3. Init => Stored
    BY DEF Init, Stored, Idle
  <2>. QED
    BY <2>1, <2>2, <2>3, InitType
<1>2. Inv /\ [Next]_vars => Inv'
  BY NextType, NextIds, NextLayout, NextStored
<1>3. Inv => (Fits => DataIntact /\ SharedOffset)
  BY StoredIntact
<1>. QED
  BY <1>1, <1>2, <1>3, PTL DEF Spec

\* In particular, within that range, blobs with the same packed bytes share one
\* place in the file, whichever thread came first.
THEOREM PlacesShared == Spec => [](Fits => SharedOffset)
<1>1. (Fits => DataIntact /\ SharedOffset) => (Fits => SharedOffset)
  OBVIOUS
<1>. QED
  BY <1>1, DataSafe, PTL

HIDE DEF HDR_SIZE, RECORD_SIZE, ENTRY_SIZE, BLOB_SIZE, Checksums

----------------------------------------------------------------------------
\* The steps of the shard are steps of its writer.
LEMMA ShardCases == [ShardNext]_allVars => [Next]_vars
<1> SUFFICES ASSUME [ShardNext]_allVars
             PROVE  [Next]_vars
  OBVIOUS
<1>1. CASE UNCHANGED allVars
  BY <1>1 DEF allVars
<1>2. ASSUME NEW t \in Threads, ReturnBlob(t)
      PROVE  Next
  BY <1>2 DEF ReturnBlob, Next, AddBlob
<1>3. ASSUME NEW t \in Threads, Silent(t)
      PROVE  Next
  BY <1>3 DEF Silent, Next, AddBlob
<1>4. ASSUME NEW h \in HexNames, ReturnRecord(h)
      PROVE  Next
  BY <1>4 DEF ReturnRecord, Next
<1>5. ASSUME NEW r \in 1..MaxRecords, NEW b \in 1..MaxBlobs, Attach(r, b)
      PROVE  Next
  BY <1>5 DEF Attach, Next
<1>6. CASE Finish
  BY <1>6 DEF Next
<1>7. CASE Abort
  BY <1>7 DEF Next
<1> QED
  BY <1>1, <1>2, <1>3, <1>4, <1>5, <1>6, <1>7 DEF ShardNext

\* What the writer alone guarantees.
WriterInvariant == TypeOK /\ IdsOK /\ Layout /\ (Fits => Stored)

\* It holds at first, and every step of the writer keeps it and what is in the
\* file.
LEMMA WriterStart == Init => WriterInvariant
<1> SUFFICES ASSUME Init
             PROVE  WriterInvariant
  OBVIOUS
<1>1. TypeOK
  BY InitType
<1>2. IdsOK
  BY DEF Init, IdsOK, Idle
<1>3. Layout
  BY DEF Init, Layout, Top, Writing, Idle, HDR_SIZE
<1>4. Stored
  BY DEF Init, Stored, Idle, HDR_SIZE
<1> QED
  BY <1>1, <1>2, <1>3, <1>4 DEF WriterInvariant

\* Every step of the writer keeps it, and keeps what is in the file.
LEMMA WriterStep == WriterInvariant /\ [Next]_vars => WriterInvariant' /\ file \subseteq file'
<1> SUFFICES ASSUME WriterInvariant, [Next]_vars
             PROVE  WriterInvariant' /\ file \subseteq file'
  OBVIOUS
<1>1. TypeOK /\ IdsOK /\ Layout /\ (Fits => Stored)
  BY DEF WriterInvariant
<1>2. TypeOK'
  BY <1>1, NextType
<1>3. IdsOK'
  BY <1>1, <1>2, NextIds
<1>4. Layout' /\ file \subseteq file'
  BY <1>1, <1>2, NextLayout
<1>5. (Fits => Stored)'
  BY <1>1, <1>2, NextStored
<1> QED
  BY <1>2, <1>3, <1>4, <1>5 DEF WriterInvariant

----------------------------------------------------------------------------
\* No two extents of the file begin at one place: a read has one answer.
ApartIn(f) == \A e \in f : e.len # 0 /\ \A d \in f : d.off = e.off => d = e

Apart == ApartIn(file)

\* A write that keeps the file keeps its extents apart.
LEMMA ApartWrite ==
  ASSUME NEW f, ApartIn(f), NEW w, f \subseteq pwrite(f, w), pwrite(f, w) \in SUBSET Extent
  PROVE  ApartIn(pwrite(f, w))
<1>1. CASE w.len = 0
  BY <1>1 DEF pwrite
<1>2. CASE w.len # 0
  <2>1. \A e \in f : Disjoint(e, w) \/ e = w
    BY <1>2 DEF pwrite
  <2>2. ASSUME NEW e \in f, e.off = w.off
        PROVE  e = w
    <3>0. e \in Extent /\ w \in Extent
      BY <1>2 DEF pwrite
    <3>1. e.off \in Nat /\ e.len \in Nat /\ w.off \in Nat /\ w.len \in Nat /\ e.len # 0
      BY <3>0 DEF Extent, ApartIn
    <3>2. ~Disjoint(e, w)
      BY <1>2, <2>2, <3>1 DEF Disjoint
    <3> QED
      BY <2>1, <3>2
  <2>3. \A e \in pwrite(f, w) : e \in f \/ e = w
    BY <1>2 DEF pwrite
  <2> QED
    BY <1>2, <2>2, <2>3 DEF ApartIn
<1> QED
  BY <1>1, <1>2

\* So does a run of writes apart from one another.
LEMMA ApartWrites ==
  ASSUME NEW f, ApartIn(f), NEW W, ApartIn(W), f \subseteq pwrites(f, W),
         pwrites(f, W) \in SUBSET Extent
  PROVE  ApartIn(pwrites(f, W))
<1>1. \A e \in f : e \in W \/ \A w \in W : Disjoint(e, w)
  BY DEF pwrites
<1>2. ASSUME NEW e \in f, NEW w \in W, e.off = w.off
      PROVE  e = w
  <2>0. e \in Extent /\ w \in Extent
    BY DEF pwrites
  <2>1. e.off \in Nat /\ e.len \in Nat /\ w.off \in Nat /\ w.len \in Nat /\ e.len # 0 /\ w.len # 0
    BY <2>0 DEF Extent, ApartIn
  <2>2. ~Disjoint(e, w)
    BY <1>2, <2>1 DEF Disjoint
  <2>3. e \in W
    BY <1>1, <2>2
  <2> QED
    BY <1>2, <2>3 DEF ApartIn
<1>3. \A e \in pwrites(f, W) : e \in f \/ e \in W
  BY DEF pwrites
<1> QED
  BY <1>2, <1>3 DEF ApartIn

\* What a write puts in the file, and that it takes nothing away.
LEMMA Landed ==
  ASSUME NEW f, NEW w
  PROVE  /\ w.len # 0 => w \in pwrite(f, w)
         /\ \A e \in pwrite(f, w) : e \in f \/ e = w
  BY DEF pwrite

\* A read of what lies at its place.
LEMMA ReadsOne ==
  ASSUME NEW f, ApartIn(f), NEW e \in f
  PROVE  preads(f, e.off, e.val.kind) = {e.val}
<1>1. \A x \in f : x.off = e.off => x = e
  BY DEF ApartIn
<1>2. {x \in f : x.off = e.off /\ x.val.kind = e.val.kind} = {e}
  BY <1>1
<1> QED
  BY <1>2 DEF preads

\* The table of a record: its entries lie behind one another.
LEMMA TableApart ==
  ASSUME NEW bs \in Seq(Nat), offset \in Nat
  PROVE  ApartIn(TableExtents(bs))
<1> DEFINE e(k) == At(offset + ENTRY_SIZE * (k - 1), ENTRY_SIZE,
                      [kind |-> "entry", blob_start |-> blobs[bs[k]].offs])
<1>1. TableExtents(bs) = {e(k) : k \in 1..Len(bs)}
  BY DEF TableExtents
<1>2. \A k : e(k).off = offset + ENTRY_SIZE * (k - 1) /\ e(k).len = ENTRY_SIZE
  BY DEF At
<1>3. ASSUME NEW j \in 1..Len(bs), NEW k \in 1..Len(bs), e(j).off = e(k).off
      PROVE  j = k
  <2>1. offset + 8 * (j - 1) = offset + 8 * (k - 1)
    BY <1>2, <1>3 DEF ENTRY_SIZE
  <2> QED
    BY <2>1
<1> HIDE DEF e
<1>4. ASSUME NEW k \in 1..Len(bs)
      PROVE  e(k).len # 0 /\ \A d \in TableExtents(bs) : d.off = e(k).off => d = e(k)
  <2>1. e(k).len # 0
    BY <1>2 DEF ENTRY_SIZE
  <2>2. ASSUME NEW j \in 1..Len(bs), e(j).off = e(k).off
        PROVE  e(j) = e(k)
    BY <1>3, <2>2
  <2> QED
    BY <1>1, <2>1, <2>2
<1> QED
  BY <1>1, <1>4 DEF ApartIn

\* What a step does to the file.
LEMMA FileCases ==
  ASSUME TypeOK, IdsOK, [Next]_vars
  PROVE  \/ file' = file
         \/ \E w : file' = pwrite(file, w)
         \/ \E bs \in Seq(Nat) : file' = pwrites(file, TableExtents(bs))
<1>1. ASSUME NEW t \in Threads, AddBlob(t), file' # file
      PROVE  \E w : file' = pwrite(file, w)
  BY <1>1 DEF AddBlob, AddBlobConstants, AddBlobNew, AddBlobShared, AddBlobWrite, AddBlobReturn
<1>2. ASSUME NEW h \in HexNames, AddRecord(h)
      PROVE  file' = file
  BY <1>2 DEF AddRecord
<1>3. ASSUME NEW r \in 1..MaxRecords, NEW b \in 1..MaxBlobs, AddBlobToRecord(r, b)
      PROVE  file' = file
  BY <1>3 DEF AddBlobToRecord
<1>4. CASE FinishTable
  <2>1. fin.i \in 1..Len(records)
    BY <1>4, TableIndex
  <2>2. records[fin.i].blobs \in Seq(Nat \ {0})
    <3>1. records[fin.i] \in RecordEntry
      BY <2>1 DEF TypeOK
    <3> QED
      BY <3>1 DEF RecordEntry
  <2>3. PICK p \in SortedBy(Len(records[fin.i].blobs),
                            [k \in 1..Len(records[fin.i].blobs) |-> blobs[records[fin.i].blobs[k]].name]) :
          file' = pwrites(file, TableExtents(Reordered(records[fin.i].blobs, p)))
    BY <1>4 DEF FinishTable
  <2>4. Reordered(records[fin.i].blobs, p) \in Seq(Nat \ {0})
    BY <2>2, <2>3, ReorderedType
  <2>5. Reordered(records[fin.i].blobs, p) \in Seq(Nat)
    BY <2>4
  <2> QED
    BY <2>3, <2>5
<1>5. CASE FinishBlob \/ FinishRecord \/ FinishString \/ FinishHeader
  BY <1>5 DEF FinishBlob, FinishRecord, FinishString, FinishHeader
<1>6. CASE FinishSort \/ FinishBlobsDone \/ FinishTablesDone \/ FinishRecordsDone \/ Abort \/ UNCHANGED vars
  BY <1>6 DEF FinishSort, FinishBlobsDone, FinishTablesDone, FinishRecordsDone, Abort, vars
<1> QED
  BY <1>1, <1>2, <1>3, <1>4, <1>5, <1>6 DEF Next, Finish

\* Every step of the writer keeps the extents apart.
LEMMA NextApart ==
  TypeOK /\ TypeOK' /\ IdsOK /\ file \subseteq file' /\ Apart /\ [Next]_vars => Apart'
<1> SUFFICES ASSUME TypeOK, TypeOK', IdsOK, file \subseteq file', Apart, [Next]_vars
             PROVE  Apart'
  OBVIOUS
<1>0. ApartIn(file) /\ file' \in SUBSET Extent /\ offset \in Nat
  BY DEF Apart, TypeOK
<1>1. CASE file' = file
  BY <1>1 DEF Apart
<1>2. ASSUME NEW w, file' = pwrite(file, w)
      PROVE  Apart'
  <2>1. ApartIn(pwrite(file, w))
    BY <1>0, <1>2, ApartWrite
  <2> QED
    BY <1>2, <2>1 DEF Apart
<1>3. ASSUME NEW bs \in Seq(Nat), file' = pwrites(file, TableExtents(bs))
      PROVE  Apart'
  <2>1. ApartIn(TableExtents(bs))
    BY <1>0, TableApart
  <2>2. ApartIn(pwrites(file, TableExtents(bs)))
    BY <1>0, <1>3, <2>1, ApartWrites
  <2> QED
    BY <1>3, <2>2 DEF Apart
<1> QED
  BY <1>1, <1>2, <1>3, FileCases

----------------------------------------------------------------------------
\* The string pool: every string once, behind the one before it.
InPool(cp, s) == \E i \in 1..Len(cp.strings) : cp.strings[i] = s

PoolPos(cp, i) == IF i \in 1..Len(cp.strings) THEN cp.offsets[cp.strings[i]] ELSE cp.total_size

Pool == [total_size: Nat, strings: Seq(Strings), offsets: [Strings -> Nat]]

PoolOK(cp) ==
  /\ \A i, j \in 1..Len(cp.strings) : cp.strings[i] = cp.strings[j] => i = j
  /\ PoolPos(cp, 1) = 0
  /\ \A i \in 1..Len(cp.strings) : /\ PoolPos(cp, i + 1) = PoolPos(cp, i) + StrLen[cp.strings[i]] + 1
                                   /\ PoolPos(cp, i) <= cp.total_size

\* A string that is there keeps its place.
Extends(cp, cq) ==
  /\ cp.total_size <= cq.total_size
  /\ \A s \in Strings : InPool(cp, s) => InPool(cq, s) /\ cq.offsets[s] = cp.offsets[s]

\* constant_pool_add keeps the pool packed, adds the string and returns the
\* offset it is at, as long as the pool is within the range of a guint.
LEMMA PoolAdd ==
  ASSUME NEW cp \in Pool, PoolOK(cp), NEW s \in Strings
  PROVE  /\ constant_pool_add(cp, s) \in Pool
         /\ PoolOK(constant_pool_add(cp, s))
         /\ Extends(cp, constant_pool_add(cp, s))
         /\ InPool(constant_pool_add(cp, s), s)
         /\ constant_pool_add(cp, s).total_size < UINT_MOD =>
              constant_pool_offset(cp, s) = constant_pool_add(cp, s).offsets[s]
<1> DEFINE cq == constant_pool_add(cp, s)
           n == Len(cp.strings)
<1>0. /\ n \in Nat /\ cp.strings \in Seq(Strings) /\ cp.total_size \in Nat /\ cp.offsets \in [Strings -> Nat]
      /\ StrLen[s] \in Nat
  BY StringsAssumption DEF Pool
<1>1. CASE InPool(cp, s)
  <2>1. cq = cp
    BY <1>1 DEF InPool, constant_pool_add
  <2>2. Extends(cp, cp)
    BY <1>0 DEF Extends
  <2>3. constant_pool_offset(cp, s) = cp.offsets[s] % UINT_MOD
    BY <1>1 DEF InPool, constant_pool_offset
  <2>4. cp.offsets[s] \in Nat /\ cp.offsets[s] <= cp.total_size
    <3>1. PICK i \in 1..n : cp.strings[i] = s
      BY <1>1 DEF InPool
    <3>2. PoolPos(cp, i) = cp.offsets[s]
      BY <3>1 DEF PoolPos
    <3> QED
      BY <1>0, <3>1, <3>2 DEF PoolOK
  <2>5. ASSUME cp.total_size < UINT_MOD
        PROVE  constant_pool_offset(cp, s) = cp.offsets[s]
    <3>1. UINT_MOD \in Nat \ {0}
      BY WidthsAssumption
    <3>2. \A x, m \in Nat : x < m => x % m = x
      OBVIOUS
    <3>3. cp.offsets[s] < UINT_MOD
      BY <1>0, <2>4, <2>5, <3>1
    <3> QED
      BY <2>3, <2>4, <3>1, <3>2, <3>3
  <2> QED
    BY <1>1, <2>1, <2>2, <2>5
<1>2. CASE ~InPool(cp, s)
  <2>1. cq = [total_size |-> cp.total_size + StrLen[s] + 1, strings |-> Append(cp.strings, s),
              offsets |-> [cp.offsets EXCEPT ![s] = cp.total_size]]
    BY <1>2 DEF InPool, constant_pool_add
  <2>2. /\ cq.total_size = cp.total_size + StrLen[s] + 1 /\ cq.strings = Append(cp.strings, s)
        /\ cq.offsets = [cp.offsets EXCEPT ![s] = cp.total_size]
    BY <2>1
  <2>3. cq \in Pool
    BY <1>0, <2>1 DEF Pool
  <2> HIDE DEF cq
  <2>4. /\ Len(cq.strings) = n + 1 /\ cq.strings[n + 1] = s
        /\ \A i \in 1..n : cq.strings[i] = cp.strings[i] /\ cp.strings[i] \in Strings
    BY <1>0, <2>2
  <2>5. \A i \in 1..n : cp.strings[i] # s
    BY <1>2 DEF InPool
  <2>6. cq.offsets[s] = cp.total_size /\ \A u \in Strings : u # s => cq.offsets[u] = cp.offsets[u]
    BY <1>0, <2>2
  <2>7. \A i \in 1..n : PoolPos(cq, i) = PoolPos(cp, i)
    <3> TAKE i \in 1..n
    <3>1. i \in 1..Len(cq.strings)
      BY <1>0, <2>4
    <3>2. PoolPos(cq, i) = cq.offsets[cp.strings[i]]
      BY <2>4, <3>1 DEF PoolPos
    <3> QED
      BY <2>4, <2>5, <2>6, <3>2 DEF PoolPos
  <2>8. PoolPos(cq, n + 1) = cp.total_size
    <3>1. n + 1 \in 1..Len(cq.strings)
      BY <1>0, <2>4
    <3> QED
      BY <2>4, <2>6, <3>1 DEF PoolPos
  <2>9. PoolPos(cq, n + 2) = cq.total_size /\ PoolPos(cp, n + 1) = cp.total_size
    <3>1. n + 2 \notin 1..Len(cq.strings) /\ n + 1 \notin 1..Len(cp.strings)
      BY <1>0, <2>4
    <3> QED
      BY <3>1 DEF PoolPos
  <2>10. PoolPos(cq, 1) = 0
    <3>1. CASE n = 0
      BY <2>8, <2>9, <3>1 DEF PoolOK
    <3>2. CASE n # 0
      <4>1. 1 \in 1..n
        BY <1>0, <3>2
      <4> QED
        BY <2>7, <4>1 DEF PoolOK
    <3> QED
      BY <3>1, <3>2
  <2>11. ASSUME NEW i \in 1..n + 1
         PROVE  /\ PoolPos(cq, i + 1) = PoolPos(cq, i) + StrLen[cq.strings[i]] + 1
                /\ PoolPos(cq, i) <= cq.total_size
    <3>1. CASE i = n + 1
      <4>1. PoolPos(cq, i) = cp.total_size /\ PoolPos(cq, i + 1) = cq.total_size /\ cq.strings[i] = s
        BY <1>0, <2>4, <2>8, <2>9, <3>1
      <4> QED
        BY <1>0, <2>2, <4>1
    <3>2. CASE i \in 1..n
      <4>1. /\ PoolPos(cp, i + 1) = PoolPos(cp, i) + StrLen[cp.strings[i]] + 1
            /\ PoolPos(cp, i) <= cp.total_size
        BY <3>2 DEF PoolOK
      <4>2. PoolPos(cq, i) = PoolPos(cp, i) /\ cq.strings[i] = cp.strings[i]
        BY <2>4, <2>7, <3>2
      <4>3. PoolPos(cq, i + 1) = PoolPos(cp, i + 1)
        <5>1. i + 1 \in 1..n \/ i = n
          BY <1>0, <3>2
        <5> QED
          BY <2>7, <2>8, <2>9, <5>1
      <4>4. PoolPos(cp, i) \in Nat
        BY <1>0, <2>4, <3>2 DEF PoolPos
      <4>5. PoolPos(cq, i) <= cq.total_size
        BY <1>0, <2>2, <4>1, <4>2, <4>4
      <4> QED
        BY <4>1, <4>2, <4>3, <4>5
    <3> QED
      BY <1>0, <3>1, <3>2
  <2>12. ASSUME NEW i \in 1..n + 1, NEW j \in 1..n + 1, cq.strings[i] = cq.strings[j]
         PROVE  i = j
    <3>1. (i \in 1..n \/ i = n + 1) /\ (j \in 1..n \/ j = n + 1)
      BY <1>0
    <3> QED
      BY <2>4, <2>5, <2>12, <3>1 DEF PoolOK
  <2>13. PoolOK(cq)
    BY <2>4, <2>10, <2>11, <2>12 DEF PoolOK
  <2>14. Extends(cp, cq)
    <3>1. cp.total_size <= cq.total_size
      BY <1>0, <2>2
    <3>2. ASSUME NEW u \in Strings, InPool(cp, u)
          PROVE  InPool(cq, u) /\ cq.offsets[u] = cp.offsets[u]
      <4>1. PICK i \in 1..n : cp.strings[i] = u
        BY <3>2 DEF InPool
      <4>2. i \in 1..Len(cq.strings) /\ cq.strings[i] = u /\ u # s
        BY <1>0, <2>4, <2>5, <4>1
      <4> QED
        BY <2>6, <4>2 DEF InPool
    <3> QED
      BY <3>1, <3>2 DEF Extends
  <2>15. InPool(cq, s)
    <3>1. n + 1 \in 1..Len(cq.strings)
      BY <1>0, <2>4
    <3> QED
      BY <2>4, <3>1 DEF InPool
  <2>16. constant_pool_offset(cp, s) = cq.offsets[s]
    BY <1>2, <2>6 DEF InPool, constant_pool_offset
  <2> QED
    BY <2>3, <2>13, <2>14, <2>15, <2>16 DEF cq
<1> QED
  BY <1>1, <1>2

\* A pool that grows twice has grown.
LEMMA ExtendsTrans ==
  ASSUME NEW a \in Pool, NEW b \in Pool, NEW c \in Pool, Extends(a, b), Extends(b, c)
  PROVE  Extends(a, c)
<1>1. a.total_size \in Nat /\ b.total_size \in Nat /\ c.total_size \in Nat
  BY DEF Pool
<1> QED
  BY <1>1 DEF Extends

\* The steps of add_blob, add_record and add_blob_to_record, which all come
\* before finish; those of finish; and those that leave everything it reads.
OpenStep == fin.pc = "open" /\ fin' = fin
Idling == UNCHANGED <<offset, blobs, records, cpool, file, fin>>

\* There are no other steps.
LEMMA StepKinds ==
  ASSUME TypeOK, Layout, [Next]_vars
  PROVE  OpenStep \/ Finish \/ Idling
<1>0. \A t \in Threads : thread[t].pc # "idle" => fin.pc = "open"
  BY DEF Layout, Quiet
<1>1. ASSUME NEW t \in Threads, AddBlob(t)
      PROVE  OpenStep
  BY <1>0, <1>1 DEF AddBlob, AddBlobConstants, AddBlobNew, AddBlobShared, AddBlobWrite, AddBlobReturn, OpenStep
<1>2. ASSUME NEW h \in HexNames, AddRecord(h)
      PROVE  OpenStep
  BY <1>2 DEF AddRecord, OpenStep
<1>3. ASSUME NEW r \in 1..MaxRecords, NEW b \in 1..MaxBlobs, AddBlobToRecord(r, b)
      PROVE  OpenStep
  BY <1>3 DEF AddBlobToRecord, OpenStep
<1>4. CASE Abort \/ UNCHANGED vars
  BY <1>4 DEF Abort, vars, pool, Idling
<1> QED
  BY <1>1, <1>2, <1>3, <1>4 DEF Next

----------------------------------------------------------------------------
\* What finish has passed.
After(phases, phase, k) == fin.pc \in phases \/ (fin.pc = phase /\ k < fin.i)

BlobExtent(b) == At(b.offs, BLOB_SIZE, [kind |-> "blob", sblob |-> b.sblob])

BlobOut(i) == After({"tables", "records", "strings", "done"}, "blobs", i)

BlobsOut == \A i \in 1..Len(blobs) : BlobOut(i) => BlobExtent(blobs[i]) \in file

\* Leaving a loop behind: what it has passed is all there was.
LEMMA AfterLoop ==
  ASSUME TypeOK, NEW n \in Nat, fin.i > n
  PROVE  \A k \in 1..n : k < fin.i
<1>1. fin.i \in Nat
  BY FinFields
<1> QED
  BY <1>1

\* The record of finish when it goes to another loop, and in the next turn.
LEMMA FinGoto == TypeOK => \A phase : Goto(phase).pc = phase /\ Goto(phase).i = 1
  BY DEF TypeOK, FinState, Goto

\* The next turn of a loop changes the index alone.
LEMMA FinAdvance ==
  TypeOK => /\ Advance.pc = fin.pc /\ Advance.i = fin.i + 1 /\ Advance.pos = fin.pos
            /\ Advance.records_start = fin.records_start
            /\ Advance.strings_start = fin.strings_start
            /\ \A n : /\ [Advance EXCEPT !.pos = n].pc = fin.pc
                      /\ [Advance EXCEPT !.pos = n].i = fin.i + 1
                      /\ [Advance EXCEPT !.pos = n].pos = n
                      /\ [Advance EXCEPT !.pos = n].records_start = fin.records_start
                      /\ [Advance EXCEPT !.pos = n].strings_start = fin.strings_start
  BY DEF TypeOK, FinState, Advance

\* Every step keeps the headers of the blobs finish has passed in the file.
LEMMA NextBlobsOut ==
  TypeOK /\ TypeOK' /\ Layout /\ file \subseteq file' /\ BlobsOut /\ [Next]_vars => BlobsOut'
<1> SUFFICES ASSUME TypeOK, TypeOK', Layout, file \subseteq file', BlobsOut, [Next]_vars
             PROVE  BlobsOut'
  OBVIOUS
<1>0. fin.i \in Nat \ {0} /\ Len(blobs) \in Nat /\ blobs \in Seq(BlobEntry)
  BY FinFields DEF TypeOK
<1>1. CASE OpenStep
  BY <1>1 DEF OpenStep, BlobsOut, BlobOut, After
<1>2. CASE Idling
  BY <1>2 DEF Idling, BlobsOut, BlobOut, After
<1>3. CASE FinishSort
  <2>1. fin'.pc = "blobs" /\ fin'.i = 1
    BY <1>3, FinGoto DEF FinishSort
  <2>2. \A i \in 1..Len(blobs') : ~(i < 1)
    OBVIOUS
  <2> QED
    BY <2>1, <2>2 DEF BlobsOut, BlobOut, After
<1>4. CASE FinishBlob
  <2> DEFINE e == blobs[fin.i]
  <2>1. fin.i \in 1..Len(blobs) /\ fin.pc = "blobs"
    BY <1>0, <1>4 DEF FinishBlob, InPhase
  <2>2. fin'.pc = "blobs" /\ fin'.i = fin.i + 1
    BY <1>4, <2>1, FinAdvance DEF FinishBlob
  <2>3. /\ Len(blobs') = Len(blobs)
        /\ \A i \in 1..Len(blobs) : i # fin.i => blobs'[i] = blobs[i]
        /\ blobs'[fin.i].offs = offset /\ blobs'[fin.i].sblob = blobs[fin.i].sblob
    <3>1. blobs' = [blobs EXCEPT ![fin.i].offs = offset] /\ blobs[fin.i] \in BlobEntry
      BY <1>4, <2>1 DEF FinishBlob, TypeOK
    <3>2. blobs'[fin.i] = [blobs[fin.i] EXCEPT !.offs = offset]
      BY <1>0, <2>1, <3>1
    <3>3. blobs'[fin.i].offs = offset /\ blobs'[fin.i].sblob = blobs[fin.i].sblob
      BY <3>1, <3>2 DEF BlobEntry
    <3> QED
      BY <1>0, <2>1, <3>1, <3>3
  <2>4. BlobExtent(blobs'[fin.i]) \in file'
    <3>1. file' = pwrite(file, BlobExtent(blobs'[fin.i]))
      BY <1>4, <2>3 DEF FinishBlob, BlobExtent
    <3>2. BlobExtent(blobs'[fin.i]).len # 0
      BY DEF BlobExtent, At, BLOB_SIZE
    <3> QED
      BY <3>1, <3>2, Landed
  <2>5. ASSUME NEW i \in 1..Len(blobs'), BlobOut(i)'
        PROVE  BlobExtent(blobs'[i]) \in file'
    <3>1. i < fin.i + 1
      BY <2>2, <2>5 DEF BlobOut, After
    <3>2. CASE i = fin.i
      BY <2>4, <3>2
    <3>3. CASE i # fin.i
      <4>1. i < fin.i
        BY <1>0, <3>1, <3>3
      <4>2. BlobOut(i)
        BY <2>1, <4>1 DEF BlobOut, After
      <4> QED
        BY <2>3, <3>3, <4>2 DEF BlobsOut
    <3> QED
      BY <3>2, <3>3
  <2>6. \A i \in 1..Len(blobs') : BlobOut(i)' => BlobExtent(blobs[i])' \in file'
    BY <2>5 DEF BlobExtent
  <2> QED
    BY <2>6 DEF BlobsOut
<1>5. CASE FinishBlobsDone
  <2>1. \A i \in 1..Len(blobs) : BlobOut(i)
    BY <1>0, <1>5, AfterLoop DEF FinishBlobsDone, InPhase, BlobOut, After
  <2> QED
    BY <1>5, <2>1 DEF FinishBlobsDone, BlobsOut
<1>6. CASE FinishTable \/ FinishTablesDone \/ FinishRecord \/ FinishRecordsDone \/ FinishString \/ FinishHeader
  <2>1. blobs' = blobs
    BY <1>6 DEF FinishTable, FinishTablesDone, FinishRecord, FinishRecordsDone, FinishString, FinishHeader
  <2>2. fin.pc \in {"tables", "records", "strings"}
    BY <1>6 DEF FinishTable, FinishTablesDone, FinishRecord, FinishRecordsDone, FinishString, FinishHeader, InPhase
  <2>3. \A i \in 1..Len(blobs) : BlobOut(i)
    BY <2>2 DEF BlobOut, After
  <2> QED
    BY <2>1, <2>3 DEF BlobsOut
<1> QED
  BY <1>1, <1>2, <1>3, <1>4, <1>5, <1>6, StepKinds DEF Finish

----------------------------------------------------------------------------
EntryExtent(bl, r, j) == At(r.blob_table_start + ENTRY_SIZE * (j - 1), ENTRY_SIZE,
                            [kind |-> "entry", blob_start |-> bl[r.blobs[j]].offs])

TableOut(k) == After({"records", "strings", "done"}, "tables", k)

TableIn(f, bl, r) == \A j \in 1..Len(r.blobs) : EntryExtent(bl, r, j) \in f

TablesOut == \A k \in 1..Len(records) : TableOut(k) => TableIn(file, blobs, records[k])

\* What sorting a record's blobs and placing its table changes in it.
LEMMA TableSet ==
  ASSUME NEW rs \in Seq(RecordEntry), NEW n \in 1..Len(rs), NEW bs, NEW o, NEW us,
         us = [rs EXCEPT ![n].blobs = bs, ![n].blob_table_start = o]
  PROVE  /\ Len(us) = Len(rs)
         /\ us[n].blobs = bs /\ us[n].blob_table_start = o /\ us[n].raw_name = rs[n].raw_name
         /\ \A q \in 1..Len(rs) : q # n => us[q] = rs[q]
<1> DEFINE a == [rs[n] EXCEPT !.blobs = bs]
           b == [a EXCEPT !.blob_table_start = o]
<1>1. rs[n] \in RecordEntry
  OBVIOUS
<1>2. b.blobs = bs /\ b.blob_table_start = o /\ b.raw_name = rs[n].raw_name
  BY <1>1 DEF RecordEntry
<1> DEFINE vs == [rs EXCEPT ![n] = a]
<1>3. us = [vs EXCEPT ![n] = b]
  OBVIOUS
<1> HIDE DEF a, b
<1>4. us[n] = b
  <2>1. DOMAIN rs = 1..Len(rs) /\ n \in DOMAIN vs
    OBVIOUS
  <2> QED
    BY <1>3, <2>1
<1>5. Len(us) = Len(rs) /\ \A q \in 1..Len(rs) : q # n => us[q] = rs[q]
  BY BlobsAndTableSet
<1> QED
  BY <1>2, <1>4, <1>5

\* Every step keeps the tables finish has passed in the file.
LEMMA NextTablesOut ==
  TypeOK /\ TypeOK' /\ Layout /\ file \subseteq file' /\ TablesOut /\ [Next]_vars => TablesOut'
<1> SUFFICES ASSUME TypeOK, TypeOK', Layout, file \subseteq file', TablesOut, [Next]_vars
             PROVE  TablesOut'
  OBVIOUS
<1>0. fin.i \in Nat \ {0} /\ Len(records) \in Nat /\ records \in Seq(RecordEntry)
  BY FinFields DEF TypeOK
<1>k. ASSUME blobs' = blobs, NEW r, TableIn(file, blobs, r)
      PROVE  TableIn(file', blobs', r)
  BY <1>k DEF TableIn, EntryExtent
<1>1. CASE OpenStep
  BY <1>1 DEF OpenStep, TablesOut, TableOut, After
<1>2. CASE Idling
  BY <1>2, <1>k DEF Idling, TablesOut, TableOut, After
<1>3. CASE FinishSort \/ FinishBlob \/ FinishBlobsDone
  <2>1. fin'.pc = "blobs" \/ (fin'.pc = "tables" /\ fin'.i = 1)
    <3>1. CASE FinishSort
      BY <3>1, FinGoto DEF FinishSort
    <3>2. CASE FinishBlob
      BY <3>2, FinAdvance DEF FinishBlob, InPhase
    <3>3. CASE FinishBlobsDone
      BY <3>3, FinGoto DEF FinishBlobsDone
    <3> QED
      BY <1>3, <3>1, <3>2, <3>3
  <2>2. \A k \in 1..Len(records') : ~(k < 1)
    OBVIOUS
  <2> QED
    BY <2>1, <2>2 DEF TablesOut, TableOut, After
<1>4. CASE FinishTable
  <2>1. fin.i \in 1..Len(records) /\ fin.pc = "tables" /\ blobs' = blobs
    BY <1>0, <1>4 DEF FinishTable, InPhase
  <2>2. fin'.pc = "tables" /\ fin'.i = fin.i + 1
    BY <1>4, <2>1, FinAdvance DEF FinishTable
  <2> DEFINE bs == records[fin.i].blobs
  <2>3. PICK p \in SortedBy(Len(bs), [k \in 1..Len(bs) |-> blobs[bs[k]].name]) :
          /\ records' = [records EXCEPT ![fin.i].blobs = Reordered(bs, p), ![fin.i].blob_table_start = offset]
          /\ file' = pwrites(file, TableExtents(Reordered(bs, p)))
    BY <1>4 DEF FinishTable
  <2> DEFINE us == Reordered(bs, p)
  <2>4. /\ Len(records') = Len(records)
        /\ \A k \in 1..Len(records) : k # fin.i => records'[k] = records[k]
        /\ records'[fin.i].blobs = us /\ records'[fin.i].blob_table_start = offset
    <3>1. records' = [records EXCEPT ![fin.i].blobs = us, ![fin.i].blob_table_start = offset]
      BY <2>3
    <3> HIDE DEF us
    <3> QED
      BY <1>0, <2>1, <3>1, TableSet
  <2>5. TableIn(file', blobs', records'[fin.i])
    <3> SUFFICES ASSUME NEW j \in 1..Len(us)
                 PROVE  At(offset + ENTRY_SIZE * (j - 1), ENTRY_SIZE,
                           [kind |-> "entry", blob_start |-> blobs[us[j]].offs]) \in file'
      BY <2>1, <2>4 DEF TableIn, EntryExtent
    <3> QED
      BY <2>3 DEF TableExtents, pwrites
  <2> HIDE DEF us
  <2>6. ASSUME NEW k \in 1..Len(records'), TableOut(k)'
        PROVE  TableIn(file', blobs', records'[k])
    <3>1. k < fin.i + 1
      BY <2>2, <2>6 DEF TableOut, After
    <3>2. CASE k = fin.i
      BY <2>5, <3>2
    <3>3. CASE k # fin.i
      <4>1. k < fin.i
        BY <1>0, <3>1, <3>3
      <4>2. TableOut(k)
        BY <2>1, <4>1 DEF TableOut, After
      <4>3. TableIn(file, blobs, records[k])
        BY <2>4, <4>2 DEF TablesOut
      <4> QED
        BY <1>k, <2>1, <2>4, <3>3, <4>3
    <3> QED
      BY <3>2, <3>3
  <2> QED
    BY <2>6 DEF TablesOut
<1>5. CASE FinishTablesDone
  <2>1. \A k \in 1..Len(records) : TableOut(k)
    BY <1>0, <1>5, AfterLoop DEF FinishTablesDone, InPhase, TableOut, After
  <2> QED
    BY <1>5, <1>k, <2>1 DEF FinishTablesDone, TablesOut
<1>6. CASE FinishRecord \/ FinishRecordsDone \/ FinishString \/ FinishHeader
  <2>1. blobs' = blobs /\ records' = records
    BY <1>6 DEF FinishRecord, FinishRecordsDone, FinishString, FinishHeader
  <2>2. fin.pc \in {"records", "strings"}
    BY <1>6 DEF FinishRecord, FinishRecordsDone, FinishString, FinishHeader, InPhase
  <2>3. \A k \in 1..Len(records) : TableOut(k)
    BY <2>2 DEF TableOut, After
  <2> QED
    BY <1>k, <2>1, <2>3 DEF TablesOut
<1> QED
  BY <1>1, <1>2, <1>3, <1>4, <1>5, <1>6, StepKinds DEF Finish

----------------------------------------------------------------------------
RecordExtent(k) == At(fin.records_start + RECORD_SIZE * (k - 1), RECORD_SIZE,
                      [kind |-> "record", srecord |-> Written(records[k])])

RecordOut(k) == After({"strings", "done"}, "records", k)

RecordsOut ==
  /\ fin.pc = "records" => offset = fin.records_start + RECORD_SIZE * (fin.i - 1)
  /\ \A k \in 1..Len(records) : RecordOut(k) => RecordExtent(k) \in file

\* Every step keeps the records finish has passed in the file.
LEMMA NextRecordsOut ==
  TypeOK /\ TypeOK' /\ Layout /\ file \subseteq file' /\ RecordsOut /\ [Next]_vars => RecordsOut'
<1> SUFFICES ASSUME TypeOK, TypeOK', Layout, file \subseteq file', RecordsOut, [Next]_vars
             PROVE  RecordsOut'
  OBVIOUS
<1>0. /\ fin.i \in Nat \ {0} /\ Len(records) \in Nat /\ records \in Seq(RecordEntry)
      /\ fin.records_start \in Nat /\ offset \in Nat
  BY FinFields DEF TypeOK, FinState
<1>1. CASE OpenStep
  BY <1>1 DEF OpenStep, RecordsOut, RecordOut, After
<1>2. CASE Idling
  BY <1>2 DEF Idling, RecordsOut, RecordOut, RecordExtent, After
<1>3. CASE FinishSort \/ FinishBlob \/ FinishBlobsDone \/ FinishTable
  <2>1. fin'.pc \in {"blobs", "tables"}
    <3>1. CASE FinishSort
      BY <3>1, FinGoto DEF FinishSort
    <3>2. CASE FinishBlob
      BY <3>2, FinAdvance DEF FinishBlob, InPhase
    <3>3. CASE FinishBlobsDone
      BY <3>3, FinGoto DEF FinishBlobsDone
    <3>4. CASE FinishTable
      BY <3>4, FinAdvance DEF FinishTable, InPhase
    <3> QED
      BY <1>3, <3>1, <3>2, <3>3, <3>4
  <2> QED
    BY <2>1 DEF RecordsOut, RecordOut, After
<1>4. CASE FinishTablesDone
  <2>1. fin'.pc = "records" /\ fin'.i = 1 /\ fin'.records_start = offset'
    BY <1>4 DEF FinishTablesDone, Goto, TypeOK, FinState
  <2>2. offset' \in Nat
    BY DEF TypeOK
  <2>3. offset' = offset' + RECORD_SIZE * (1 - 1)
    <3>1. RECORD_SIZE * (1 - 1) = 0
      BY DEF RECORD_SIZE
    <3> QED
      BY <2>2, <3>1
  <2>4. \A k \in 1..Len(records') : ~(k < 1)
    OBVIOUS
  <2> QED
    BY <2>1, <2>3, <2>4 DEF RecordsOut, RecordOut, After
<1>5. CASE FinishRecord
  <2>1. fin.i \in 1..Len(records) /\ fin.pc = "records" /\ records' = records
    BY <1>0, <1>5 DEF FinishRecord, InPhase
  <2>2. fin'.pc = "records" /\ fin'.i = fin.i + 1 /\ fin'.records_start = fin.records_start
    BY <1>5, <2>1, FinAdvance DEF FinishRecord
  <2>3. offset = fin.records_start + RECORD_SIZE * (fin.i - 1)
    BY <2>1 DEF RecordsOut
  <2>4. offset' = fin'.records_start + RECORD_SIZE * (fin'.i - 1)
    <3>1. offset' = offset + RECORD_SIZE
      BY <1>5 DEF FinishRecord
    <3> QED
      BY <1>0, <2>2, <2>3, <3>1 DEF RECORD_SIZE
  <2>5. \A k : RecordExtent(k)' = RecordExtent(k)
    BY <2>1, <2>2 DEF RecordExtent
  <2>6. RecordExtent(fin.i) \in file'
    <3>1. file' = pwrite(file, RecordExtent(fin.i))
      BY <1>5, <2>3 DEF FinishRecord, RecordExtent
    <3>2. RecordExtent(fin.i).len # 0
      BY DEF RecordExtent, At, RECORD_SIZE
    <3> QED
      BY <3>1, <3>2, Landed
  <2>7. ASSUME NEW k \in 1..Len(records'), RecordOut(k)'
        PROVE  RecordExtent(k)' \in file'
    <3>1. k < fin.i + 1
      BY <2>2, <2>7 DEF RecordOut, After
    <3>2. CASE k = fin.i
      BY <2>5, <2>6, <3>2
    <3>3. CASE k # fin.i
      <4>1. k < fin.i
        BY <1>0, <3>1, <3>3
      <4>2. RecordOut(k)
        BY <2>1, <4>1 DEF RecordOut, After
      <4> QED
        BY <2>1, <2>5, <4>2 DEF RecordsOut
    <3> QED
      BY <3>2, <3>3
  <2>8. fin'.pc = "records" => offset' = fin'.records_start + RECORD_SIZE * (fin'.i - 1)
    BY <2>4
  <2> QED
    BY <2>7, <2>8 DEF RecordsOut
<1>6. CASE FinishRecordsDone
  <2>1. \A k \in 1..Len(records) : RecordOut(k)
    BY <1>0, <1>6, AfterLoop DEF FinishRecordsDone, InPhase, RecordOut, After
  <2>2. fin'.records_start = fin.records_start /\ records' = records /\ fin'.pc = "strings"
    BY <1>6 DEF FinishRecordsDone, Goto, TypeOK, FinState
  <2>3. \A k : RecordExtent(k)' = RecordExtent(k)
    BY <2>2 DEF RecordExtent
  <2> QED
    BY <2>1, <2>2, <2>3 DEF RecordsOut
<1>7. CASE FinishString \/ FinishHeader
  <2>1. records' = records /\ fin.pc = "strings"
    BY <1>7 DEF FinishString, FinishHeader, InPhase
  <2>2. fin'.records_start = fin.records_start /\ fin'.pc \in {"strings", "done"}
    <3>1. CASE FinishString
      BY <2>1, <3>1, FinAdvance DEF FinishString
    <3>2. CASE FinishHeader
      BY <3>2 DEF FinishHeader, TypeOK, FinState
    <3> QED
      BY <1>7, <3>1, <3>2
  <2>3. \A k \in 1..Len(records) : RecordOut(k)
    BY <2>1 DEF RecordOut, After
  <2>4. \A k : RecordExtent(k)' = RecordExtent(k)
    BY <2>1, <2>2 DEF RecordExtent
  <2> QED
    BY <2>1, <2>2, <2>3, <2>4 DEF RecordsOut
<1> QED
  BY <1>1, <1>2, <1>3, <1>4, <1>5, <1>6, <1>7, StepKinds DEF Finish

----------------------------------------------------------------------------
\* The pool only grows, and no string changes its place.
LEMMA PoolStep ==
  TypeOK /\ PoolOK(cpool) /\ [Next]_vars =>
     cpool \in Pool /\ cpool' \in Pool /\ PoolOK(cpool') /\ Extends(cpool, cpool')
<1> SUFFICES ASSUME TypeOK, PoolOK(cpool), [Next]_vars
             PROVE  cpool \in Pool /\ cpool' \in Pool /\ PoolOK(cpool') /\ Extends(cpool, cpool')
  OBVIOUS
<1>0. cpool \in Pool
  BY DEF TypeOK, Pool
<1>1. CASE cpool' = cpool
  <2>1. Extends(cpool, cpool)
    BY <1>0 DEF Extends, Pool
  <2> QED
    BY <1>0, <1>1, <2>1
<1>2. ASSUME NEW t \in Threads, NEW r \in Requests, AddBlobConstants(t, r)
      PROVE  cpool' \in Pool /\ PoolOK(cpool') /\ Extends(cpool, cpool')
  <2>0. r.name \in Strings /\ r.content_type \in Strings
    BY RequestsAssumption
  <2> DEFINE cp == constant_pool_add(cpool, r.name)
             cq == constant_pool_add(cp, r.content_type)
  <2>1. cp \in Pool /\ PoolOK(cp) /\ Extends(cpool, cp)
    BY <1>0, <2>0, PoolAdd
  <2> HIDE DEF cp
  <2>2. cq \in Pool /\ PoolOK(cq) /\ Extends(cp, cq)
    BY <2>0, <2>1, PoolAdd
  <2>3. cpool' = cq
    BY <1>2 DEF AddBlobConstants, cp
  <2> HIDE DEF cq
  <2> QED
    BY <1>0, <2>1, <2>2, <2>3, ExtendsTrans
<1>3. ASSUME NEW t \in Threads, AddBlobNew(t) \/ AddBlobShared(t) \/ AddBlobWrite(t) \/ AddBlobReturn(t)
      PROVE  cpool' = cpool
  BY <1>3 DEF AddBlobNew, AddBlobShared, AddBlobWrite, AddBlobReturn, pool
<1>4. ASSUME NEW h \in HexNames, AddRecord(h)
      PROVE  cpool' = cpool
  BY <1>4 DEF AddRecord, pool
<1>5. ASSUME NEW r \in 1..MaxRecords, NEW b \in 1..MaxBlobs, AddBlobToRecord(r, b)
      PROVE  cpool' = cpool
  BY <1>5 DEF AddBlobToRecord, pool
<1>6. ASSUME Finish \/ Abort \/ UNCHANGED vars
      PROVE  cpool' = cpool
  <2>1. CASE FinishSort \/ FinishBlob \/ FinishBlobsDone
    BY <2>1 DEF FinishSort, FinishBlob, FinishBlobsDone, pool
  <2>2. CASE FinishTable \/ FinishTablesDone
    BY <2>2 DEF FinishTable, FinishTablesDone, pool
  <2>3. CASE FinishRecord \/ FinishRecordsDone
    BY <2>3 DEF FinishRecord, FinishRecordsDone, pool
  <2>4. CASE FinishString \/ FinishHeader
    BY <2>4 DEF FinishString, FinishHeader, pool
  <2>5. CASE Abort \/ UNCHANGED vars
    BY <2>5 DEF Abort, vars, pool
  <2> QED
    BY <1>6, <2>1, <2>2, <2>3, <2>4, <2>5 DEF Finish
<1> QED
  BY <1>0, <1>1, <1>2, <1>3, <1>4, <1>5, <1>6 DEF Next, AddBlob

----------------------------------------------------------------------------
StringExtent(i) == At(fin.strings_start + PoolPos(cpool, i), StrLen[cpool.strings[i]] + 1,
                      [kind |-> "string", str |-> cpool.strings[i]])

StringOut(i) == After({"done"}, "strings", i)

StringsOut ==
  /\ PoolOK(cpool)
  /\ fin.pc = "strings" => fin.pos = fin.strings_start + PoolPos(cpool, fin.i)
  /\ \A i \in 1..Len(cpool.strings) : StringOut(i) => StringExtent(i) \in file

\* Every step keeps the pool packed and the strings finish has passed in the
\* file.
LEMMA NextStringsOut ==
  TypeOK /\ TypeOK' /\ Layout /\ file \subseteq file' /\ StringsOut /\ [Next]_vars => StringsOut'
<1> SUFFICES ASSUME TypeOK, TypeOK', Layout, file \subseteq file', StringsOut, [Next]_vars
             PROVE  StringsOut'
  OBVIOUS
<1>0. /\ fin.i \in Nat \ {0} /\ Len(cpool.strings) \in Nat /\ fin.strings_start \in Nat
      /\ cpool \in Pool /\ cpool' \in Pool
  BY FinFields DEF TypeOK, FinState, Pool
<1>p. PoolOK(cpool')
  BY PoolStep DEF StringsOut
<1>1. CASE OpenStep
  BY <1>1, <1>p DEF OpenStep, StringsOut, StringOut, After
<1>2. CASE Idling
  BY <1>2, <1>p DEF Idling, StringsOut, StringOut, StringExtent, After
<1>3. CASE FinishSort \/ FinishBlob \/ FinishBlobsDone \/ FinishTable \/ FinishTablesDone \/ FinishRecord
  <2>1. fin'.pc \in {"blobs", "tables", "records"}
    <3>1. CASE FinishSort
      BY <3>1, FinGoto DEF FinishSort
    <3>2. CASE FinishBlob
      BY <3>2, FinAdvance DEF FinishBlob, InPhase
    <3>3. CASE FinishBlobsDone
      BY <3>3, FinGoto DEF FinishBlobsDone
    <3>4. CASE FinishTable
      BY <3>4, FinAdvance DEF FinishTable, InPhase
    <3>5. CASE FinishTablesDone
      BY <3>5 DEF FinishTablesDone, Goto, TypeOK, FinState
    <3>6. CASE FinishRecord
      BY <3>6, FinAdvance DEF FinishRecord, InPhase
    <3> QED
      BY <1>3, <3>1, <3>2, <3>3, <3>4, <3>5, <3>6
  <2> QED
    BY <1>p, <2>1 DEF StringsOut, StringOut, After
<1>4. CASE FinishRecordsDone
  <2>1. /\ fin'.pc = "strings" /\ fin'.i = 1 /\ fin'.pos = fin'.strings_start
        /\ cpool' = cpool
    BY <1>4 DEF FinishRecordsDone, Goto, TypeOK, FinState, pool
  <2>2. PoolPos(cpool', 1) = 0 /\ fin'.strings_start \in Nat
    BY <1>p DEF PoolOK, TypeOK, FinState
  <2>3. fin'.pos = fin'.strings_start + PoolPos(cpool', fin'.i)
    BY <2>1, <2>2
  <2>4. \A k \in 1..Len(cpool'.strings) : ~(k < 1)
    OBVIOUS
  <2> QED
    BY <1>p, <2>1, <2>3, <2>4 DEF StringsOut, StringOut, After
<1>5. CASE FinishString
  <2> DEFINE s == cpool.strings[fin.i]
  <2>1. fin.i \in 1..Len(cpool.strings) /\ fin.pc = "strings" /\ cpool' = cpool
    BY <1>0, <1>5 DEF FinishString, InPhase, pool
  <2>2. /\ fin'.pc = "strings" /\ fin'.i = fin.i + 1 /\ fin'.strings_start = fin.strings_start
        /\ fin'.pos = fin.pos + StrLen[s] + 1
    BY <1>5, <2>1, FinAdvance DEF FinishString
  <2>3. fin.pos = fin.strings_start + PoolPos(cpool, fin.i)
    BY <2>1 DEF StringsOut
  <2>4. fin'.pos = fin'.strings_start + PoolPos(cpool', fin'.i)
    <3>1. PoolPos(cpool, fin.i + 1) = PoolPos(cpool, fin.i) + StrLen[s] + 1
      BY <2>1 DEF StringsOut, PoolOK
    <3>2. s \in Strings
      BY <1>0, <2>1 DEF Pool
    <3>3. StrLen[s] \in Nat /\ PoolPos(cpool, fin.i) \in Nat
      BY <1>0, <2>1, <3>2, StringsAssumption DEF PoolPos, Pool
    <3> HIDE DEF s
    <3> QED
      BY <1>0, <2>1, <2>2, <2>3, <3>1, <3>3
  <2>5. \A k : StringExtent(k)' = StringExtent(k)
    BY <2>1, <2>2 DEF StringExtent
  <2>6. StringExtent(fin.i) \in file'
    <3>1. file' = pwrite(file, StringExtent(fin.i))
      BY <1>5, <2>3 DEF FinishString, StringExtent
    <3>2. StrLen[s] \in Nat
      <4>1. s \in Strings
        BY <1>0, <2>1 DEF Pool
      <4> QED
        BY <4>1, StringsAssumption
    <3>3. StringExtent(fin.i).len # 0
      BY <3>2 DEF StringExtent, At
    <3> QED
      BY <3>1, <3>3, Landed
  <2>7. ASSUME NEW k \in 1..Len(cpool'.strings), StringOut(k)'
        PROVE  StringExtent(k)' \in file'
    <3>1. k < fin.i + 1
      BY <2>2, <2>7 DEF StringOut, After
    <3>2. CASE k = fin.i
      BY <2>5, <2>6, <3>2
    <3>3. CASE k # fin.i
      <4>1. k < fin.i
        BY <1>0, <3>1, <3>3
      <4>2. StringOut(k)
        BY <2>1, <4>1 DEF StringOut, After
      <4> QED
        BY <2>1, <2>5, <4>2 DEF StringsOut
    <3> QED
      BY <3>2, <3>3
  <2> HIDE DEF s
  <2> QED
    BY <1>p, <2>4, <2>7 DEF StringsOut
<1>6. CASE FinishHeader
  <2>1. fin.pc = "strings" /\ cpool' = cpool /\ fin'.pc = "done" /\ fin'.strings_start = fin.strings_start
    BY <1>6 DEF FinishHeader, InPhase, pool, TypeOK, FinState
  <2>2. \A i \in 1..Len(cpool.strings) : StringOut(i)
    BY <1>0, <1>6, <2>1, AfterLoop DEF FinishHeader, StringOut, After
  <2>3. \A k : StringExtent(k)' = StringExtent(k)
    BY <2>1 DEF StringExtent
  <2> QED
    BY <1>p, <2>1, <2>2, <2>3 DEF StringsOut
<1> QED
  BY <1>1, <1>2, <1>3, <1>4, <1>5, <1>6, StepKinds DEF Finish

----------------------------------------------------------------------------
HdrOf == [records_length |-> Len(records), records_start |-> fin.records_start,
          string_constant_table_start |-> fin.strings_start]

HeaderExtent == At(0, HDR_SIZE, [kind |-> "hdr", hdr |-> HdrOf])

NoHeader(f) == \A e \in f : e.val.kind # "hdr"

\* The header is the last thing written.
HeaderLast == IF fin.pc = "done" THEN HeaderExtent \in file ELSE NoHeader(file)

\* Nothing but FinishHeader writes a header.
LEMMA OtherKinds ==
  ASSUME NEW f, NEW w, w.val.kind # "hdr", NoHeader(f)
  PROVE  NoHeader(pwrite(f, w))
  BY DEF pwrite, NoHeader

\* The header is written last, by one step, and stays.
LEMMA NextHeaderLast ==
  TypeOK /\ TypeOK' /\ Layout /\ HeaderLast /\ [Next]_vars => HeaderLast'
<1> SUFFICES ASSUME TypeOK, TypeOK', Layout, HeaderLast, [Next]_vars
             PROVE  HeaderLast'
  OBVIOUS
<1>1. CASE OpenStep
  <2>0. NoHeader(file) /\ fin'.pc # "done" /\ fin.pc = "open"
    BY <1>1 DEF HeaderLast, OpenStep
  <2>1. ASSUME NEW t \in Threads, AddBlob(t)
        PROVE  NoHeader(file')
    <3>1. CASE AddBlobWrite(t)
      <4>1. DataExtent(thread[t]).val.kind # "hdr" /\ file' = pwrite(file, DataExtent(thread[t]))
        BY <3>1 DEF AddBlobWrite, DataExtent, At, Data
      <4> QED
        BY <2>0, <4>1, OtherKinds
    <3>2. CASE file' = file
      BY <2>0, <3>2
    <3> QED
      BY <2>1, <3>1, <3>2 DEF AddBlob, AddBlobConstants, AddBlobNew, AddBlobShared, AddBlobReturn
  <2>2. ASSUME ~\E t \in Threads : AddBlob(t)
        PROVE  NoHeader(file')
    <3>1. file' = file
      <4>1. CASE Finish
        <5>1. FinishSort
          BY <2>0, <4>1 DEF Finish, FinishBlob, FinishBlobsDone, FinishTable, FinishTablesDone,
                            FinishRecord, FinishRecordsDone, FinishString, FinishHeader, InPhase
        <5> QED
          BY <5>1 DEF FinishSort
      <4> QED
        BY <2>2, <4>1 DEF Next, AddRecord, AddBlobToRecord, Abort, vars
    <3> QED
      BY <2>0, <3>1
  <2> QED
    BY <2>0, <2>1, <2>2 DEF HeaderLast
<1>2. CASE Idling
  BY <1>2 DEF Idling, HeaderLast, HeaderExtent, HdrOf
<1>3. CASE FinishSort \/ FinishBlobsDone \/ FinishTablesDone \/ FinishRecordsDone
  <2>1. file' = file /\ fin.pc # "done" /\ fin'.pc # "done"
    <3>1. CASE FinishSort
      BY <3>1, FinGoto DEF FinishSort, InPhase
    <3>2. CASE FinishBlobsDone
      BY <3>2, FinGoto DEF FinishBlobsDone, InPhase
    <3>3. CASE FinishTablesDone
      BY <3>3 DEF FinishTablesDone, InPhase, Goto, TypeOK, FinState
    <3>4. CASE FinishRecordsDone
      BY <3>4 DEF FinishRecordsDone, InPhase, Goto, TypeOK, FinState
    <3> QED
      BY <1>3, <3>1, <3>2, <3>3, <3>4
  <2> QED
    BY <2>1 DEF HeaderLast
<1>4. CASE FinishBlob \/ FinishRecord \/ FinishString
  <2>1. fin.pc # "done" /\ fin'.pc # "done"
    <3>1. CASE FinishBlob \/ FinishRecord
      BY <3>1, FinAdvance DEF FinishBlob, FinishRecord, InPhase
    <3>2. CASE FinishString
      BY <3>2, FinAdvance DEF FinishString, InPhase
    <3> QED
      BY <1>4, <3>1, <3>2
  <2>2. \E w : file' = pwrite(file, w) /\ w.val.kind # "hdr"
    <3>1. CASE FinishBlob
      <4> DEFINE w == At(offset, BLOB_SIZE, [kind |-> "blob", sblob |-> blobs[fin.i].sblob])
      <4>1. file' = pwrite(file, w) /\ w.val.kind # "hdr"
        BY <3>1 DEF FinishBlob, At
      <4> QED
        BY <4>1
    <3>2. CASE FinishRecord
      <4> DEFINE w == At(offset, RECORD_SIZE, [kind |-> "record", srecord |-> Written(records[fin.i])])
      <4>1. file' = pwrite(file, w) /\ w.val.kind # "hdr"
        BY <3>2 DEF FinishRecord, At
      <4> QED
        BY <4>1
    <3>3. CASE FinishString
      <4> DEFINE w == At(fin.pos, StrLen[cpool.strings[fin.i]] + 1,
                         [kind |-> "string", str |-> cpool.strings[fin.i]])
      <4>1. file' = pwrite(file, w) /\ w.val.kind # "hdr"
        BY <3>3 DEF FinishString, At
      <4> QED
        BY <4>1
    <3> QED
      BY <1>4, <3>1, <3>2, <3>3
  <2> QED
    BY <2>1, <2>2, OtherKinds DEF HeaderLast
<1>5. CASE FinishTable
  <2>1. fin.pc # "done" /\ fin'.pc # "done"
    BY <1>5, FinAdvance DEF FinishTable, InPhase
  <2>2. PICK bs : file' = pwrites(file, TableExtents(bs))
    BY <1>5 DEF FinishTable
  <2>3. \A e \in TableExtents(bs) : e.val.kind # "hdr"
    BY DEF TableExtents, At
  <2> QED
    BY <2>1, <2>2, <2>3 DEF HeaderLast, NoHeader, pwrites
<1>6. CASE FinishHeader
  <2>1. fin' = [fin EXCEPT !.pc = "done"] /\ records' = records
    BY <1>6 DEF FinishHeader
  <2>2. fin'.pc = "done" /\ HeaderExtent' = HeaderExtent
    BY <2>1 DEF HeaderExtent, HdrOf, TypeOK, FinState
  <2>3. file' = pwrite(file, HeaderExtent)
    BY <1>6 DEF FinishHeader, HeaderExtent, HdrOf
  <2>4. HeaderExtent.len # 0
    BY DEF HeaderExtent, At, HDR_SIZE
  <2> QED
    BY <2>2, <2>3, <2>4, Landed DEF HeaderLast
<1> QED
  BY <1>1, <1>2, <1>3, <1>4, <1>5, <1>6, StepKinds DEF Finish

----------------------------------------------------------------------------
\* The records in the file are the shelves, sorted by name, each with its
\* blobs in the order they were attached until its table is written, and from
\* then on sorted by their names.
ShelfEntry == [raw_name: Nat, blobs: Seq(Nat \ {0})]

Names(bl, bs) == [k \in 1..Len(bs) |-> bl[bs[k]].name]

SortedOf(bl, us, bs) == \E q \in SortedBy(Len(bs), Names(bl, bs)) : us = Reordered(bs, q)

Row(k, s) ==
  /\ records[k].raw_name = s.raw_name
  /\ IF TableOut(k) THEN SortedOf(blobs, records[k].blobs, s.blobs)
                    ELSE records[k].blobs = s.blobs

FiledBy(p) == p \in Reorders(Len(records)) /\ \A k \in 1..Len(records) : Row(k, shelves[p[k]])

RawSorted(rs) == \A i, j \in 1..Len(rs) : i < j => rs[i].raw_name <= rs[j].raw_name

Few(rs) == \A k \in 1..Len(rs) : Len(rs[k].blobs) <= MaxAttach

Filed ==
  /\ shelves \in Seq(ShelfEntry) /\ Len(shelves) = Len(records) /\ Few(records)
  /\ IF fin.pc = "open" THEN \A k \in 1..Len(records) : Row(k, shelves[k])
                        ELSE RawSorted(records) /\ \E p : FiledBy(p)

\* One more shelf, and one more blob on a shelf.
LEMMA Appended ==
  ASSUME NEW S, NEW s \in Seq(S), NEW x \in S
  PROVE  /\ Append(s, x) \in Seq(S) /\ Len(Append(s, x)) = Len(s) + 1
         /\ Append(s, x)[Len(s) + 1] = x
         /\ \A i \in 1..Len(s) : Append(s, x)[i] = s[i]
  OBVIOUS

OneMore(us, sh, r, b) == us = [sh EXCEPT ![r].blobs = Append(@, b)]

\* One more blob on a shelf leaves the others alone.
LEMMA Attached ==
  ASSUME NEW sh \in Seq(ShelfEntry), NEW r \in 1..Len(sh), NEW b \in Nat \ {0}, NEW us,
         OneMore(us, sh, r, b)
  PROVE  /\ us \in Seq(ShelfEntry) /\ Len(us) = Len(sh)
         /\ us[r].raw_name = sh[r].raw_name /\ us[r].blobs = Append(sh[r].blobs, b)
         /\ \A k \in 1..Len(sh) : k # r => us[k] = sh[k]
<1> DEFINE bs == Append(sh[r].blobs, b)
           e == [sh[r] EXCEPT !.blobs = bs]
<1>1. sh[r] \in ShelfEntry
  OBVIOUS
<1>2. bs \in Seq(Nat \ {0})
  BY <1>1 DEF ShelfEntry
<1>3. us = [sh EXCEPT ![r] = e]
  BY DEF OneMore
<1> HIDE DEF bs
<1>4. e \in ShelfEntry /\ e.raw_name = sh[r].raw_name /\ e.blobs = bs
  BY <1>1, <1>2 DEF ShelfEntry
<1> HIDE DEF e
<1>5. /\ us \in Seq(ShelfEntry) /\ Len(us) = Len(sh) /\ us[r] = e
      /\ \A k \in 1..Len(sh) : k # r => us[k] = sh[k]
  BY <1>3, <1>4
<1> QED
  BY <1>4, <1>5 DEF bs

\* So does one more blob in a record.
LEMMA AttachedRecord ==
  ASSUME NEW rs \in Seq(RecordEntry), NEW r \in 1..Len(rs), NEW b \in Nat \ {0}, NEW us,
         us = [rs EXCEPT ![r].blobs = Append(@, b)]
  PROVE  /\ Len(us) = Len(rs)
         /\ us[r].raw_name = rs[r].raw_name /\ us[r].blobs = Append(rs[r].blobs, b)
         /\ \A k \in 1..Len(rs) : k # r => us[k] = rs[k]
<1> DEFINE bs == Append(rs[r].blobs, b)
           e == [rs[r] EXCEPT !.blobs = bs]
<1>1. rs[r] \in RecordEntry
  OBVIOUS
<1>2. bs \in Seq(Nat \ {0})
  BY <1>1 DEF RecordEntry
<1>3. us = [rs EXCEPT ![r] = e]
  OBVIOUS
<1> HIDE DEF bs
<1>4. e \in RecordEntry /\ e.raw_name = rs[r].raw_name /\ e.blobs = bs
  BY <1>1, <1>2 DEF RecordEntry
<1> HIDE DEF e
<1>5. us[r] = e /\ Len(us) = Len(rs) /\ \A k \in 1..Len(rs) : k # r => us[k] = rs[k]
  BY <1>3
<1> QED
  BY <1>4, <1>5 DEF bs

\* Before finish no table is out.
LEMMA RowOpen ==
  ASSUME fin.pc \in {"open", "blobs"}, NEW k, NEW s
  PROVE  Row(k, s) <=> records[k].raw_name = s.raw_name /\ records[k].blobs = s.blobs
  BY DEF Row, TableOut, After

\* Before finish, shelves and records grow together.
LEMMA NextFiledOpen ==
  ASSUME TypeOK, TypeOK', Filed, OpenStep,
         \/ \E h \in HexNames : ReturnRecord(h)
         \/ \E r \in 1..MaxRecords, b \in 1..MaxBlobs : Attach(r, b)
         \/ UNCHANGED <<records, shelves>>
  PROVE  Filed'
<1>0. /\ fin.pc = "open" /\ fin' = fin /\ records \in Seq(RecordEntry) /\ shelves \in Seq(ShelfEntry)
      /\ Len(shelves) = Len(records) /\ Len(records) \in Nat /\ Few(records)
      /\ MaxAttach \in Nat
  BY BoundsAssumption DEF OpenStep, Filed, TypeOK
<1>1. \A k \in 1..Len(records) : /\ records[k].raw_name = shelves[k].raw_name
                                 /\ records[k].blobs = shelves[k].blobs
  BY <1>0, RowOpen DEF Filed
<1>2. ASSUME shelves' \in Seq(ShelfEntry), Len(shelves') = Len(records'), Few(records'),
             \A k \in 1..Len(records') : /\ records'[k].raw_name = shelves'[k].raw_name
                                         /\ records'[k].blobs = shelves'[k].blobs
      PROVE  Filed'
  BY <1>0, <1>2 DEF Filed, Row, TableOut, After
<1>3. CASE UNCHANGED <<records, shelves>>
  BY <1>0, <1>1, <1>2, <1>3
<1>4. ASSUME NEW h \in HexNames, ReturnRecord(h)
      PROVE  Filed'
  <2> DEFINE e == [raw_name |-> HexToRaw[h], blobs |-> <<>>, blob_table_start |-> 0]
             s == [raw_name |-> HexToRaw[h], blobs |-> <<>>]
  <2>1. records' = Append(records, e) /\ shelves' = Append(shelves, s)
    BY <1>4 DEF ReturnRecord, AddRecord
  <2>2. e \in RecordEntry /\ s \in ShelfEntry
    BY HexNamesAssumption DEF RecordEntry, ShelfEntry
  <2>3. e.raw_name = s.raw_name /\ e.blobs = s.blobs /\ Len(e.blobs) = 0
    OBVIOUS
  <2> HIDE DEF e, s
  <2>4. /\ shelves' \in Seq(ShelfEntry) /\ Len(shelves') = Len(records) + 1 /\ Len(records') = Len(records) + 1
        /\ shelves'[Len(records) + 1] = s /\ records'[Len(records) + 1] = e
        /\ \A k \in 1..Len(records) : shelves'[k] = shelves[k] /\ records'[k] = records[k]
    BY <1>0, <2>1, <2>2, Appended
  <2>5. \A k \in 1..Len(records') : k \in 1..Len(records) \/ k = Len(records) + 1
    BY <1>0, <2>4
  <2>6. Few(records')
    <3> SUFFICES ASSUME NEW k \in 1..Len(records')
                 PROVE  Len(records'[k].blobs) <= MaxAttach
      BY DEF Few
    <3>1. CASE k \in 1..Len(records)
      BY <1>0, <2>4, <3>1 DEF Few
    <3>2. CASE k = Len(records) + 1
      BY <1>0, <2>3, <2>4, <3>2
    <3> QED
      BY <2>5, <3>1, <3>2
  <2> QED
    BY <1>1, <1>2, <2>3, <2>4, <2>5, <2>6
<1>5. ASSUME NEW r \in 1..MaxRecords, NEW b \in 1..MaxBlobs, Attach(r, b)
      PROVE  Filed'
  <2>1. /\ r \in 1..Len(records) /\ b \in Nat \ {0} /\ Len(records[r].blobs) < MaxAttach
        /\ records' = [records EXCEPT ![r].blobs = Append(@, b)]
        /\ shelves' = [shelves EXCEPT ![r].blobs = Append(@, b)]
    BY <1>5 DEF Attach, AddBlobToRecord
  <2>2. /\ Len(records') = Len(records)
        /\ records'[r].raw_name = records[r].raw_name /\ records'[r].blobs = Append(records[r].blobs, b)
        /\ \A k \in 1..Len(records) : k # r => records'[k] = records[k]
    BY <1>0, <2>1, AttachedRecord
  <2>3. /\ shelves' \in Seq(ShelfEntry) /\ Len(shelves') = Len(shelves)
        /\ shelves'[r].raw_name = shelves[r].raw_name /\ shelves'[r].blobs = Append(shelves[r].blobs, b)
        /\ \A k \in 1..Len(shelves) : k # r => shelves'[k] = shelves[k]
    <3>1. r \in 1..Len(shelves) /\ shelves \in Seq(ShelfEntry) /\ b \in Nat \ {0}
      BY <1>0, <2>1
    <3>2. OneMore(shelves', shelves, r, b)
      BY <2>1 DEF OneMore
    <3> QED
      BY <3>1, <3>2, Attached
  <2>4. ASSUME NEW k \in 1..Len(records')
        PROVE  records'[k].raw_name = shelves'[k].raw_name /\ records'[k].blobs = shelves'[k].blobs
    BY <1>0, <1>1, <2>1, <2>2, <2>3
  <2>5. Few(records')
    <3>1. records[r].blobs \in Seq(Nat \ {0})
      <4>1. records[r] \in RecordEntry
        BY <1>0, <2>1
      <4> QED
        BY <4>1 DEF RecordEntry
    <3>2. Len(records'[r].blobs) = Len(records[r].blobs) + 1 /\ Len(records[r].blobs) \in Nat
      BY <2>1, <2>2, <3>1
    <3>3. Len(records'[r].blobs) <= MaxAttach
      BY <1>0, <2>1, <3>2
    <3> QED
      BY <1>0, <2>2, <3>3 DEF Few
  <2> QED
    BY <1>0, <1>2, <2>2, <2>3, <2>4, <2>5
<1> QED
  BY <1>3, <1>4, <1>5

\* Sorting the records.
LEMMA SortFiled ==
  ASSUME TypeOK, Filed, FinishSort, UNCHANGED shelves
  PROVE  Filed'
<1> DEFINE key == [i \in 1..Len(records) |-> records[i].raw_name]
<1>0. /\ fin.pc = "open" /\ records \in Seq(RecordEntry) /\ shelves \in Seq(ShelfEntry)
      /\ Len(shelves) = Len(records) /\ Len(records) \in Nat /\ Few(records)
  BY DEF FinishSort, InPhase, Filed, TypeOK
<1>1. PICK p \in SortedBy(Len(records), key) : records' = Reordered(records, p)
  BY DEF FinishSort
<1>2. p \in Reorders(Len(records)) /\ p \in [1..Len(records) -> 1..Len(records)]
  BY DEF SortedBy, Reorders
<1>3. Len(records') = Len(records) /\ \A k \in 1..Len(records) : records'[k] = records[p[k]]
  BY <1>0, <1>1, <1>2, ReorderedType DEF Reordered
<1>4. fin'.pc = "blobs"
  BY FinGoto DEF FinishSort
<1>5. \A k \in 1..Len(records) : /\ records[k].raw_name = shelves[k].raw_name
                                 /\ records[k].blobs = shelves[k].blobs
  BY <1>0, RowOpen DEF Filed
<1>6. FiledBy(p)'
  <2>1. \A k \in 1..Len(records') : /\ records'[k].raw_name = shelves'[p[k]].raw_name
                                    /\ records'[k].blobs = shelves'[p[k]].blobs
    BY <1>2, <1>3, <1>5
  <2> QED
    BY <1>2, <1>3, <1>4, <2>1 DEF FiledBy, Row, TableOut, After
<1>7. RawSorted(records')
  <2> SUFFICES ASSUME NEW i \in 1..Len(records), NEW j \in 1..Len(records), i < j
               PROVE  records[p[i]].raw_name <= records[p[j]].raw_name
    BY <1>3 DEF RawSorted
  <2>1. key[p[i]] < key[p[j]] \/ key[p[i]] = key[p[j]]
    BY DEF SortedBy
  <2>2. key[p[i]] = records[p[i]].raw_name /\ key[p[j]] = records[p[j]].raw_name
    BY <1>2
  <2>3. records[p[i]] \in RecordEntry /\ records[p[j]] \in RecordEntry
    <3>1. p[i] \in 1..Len(records) /\ p[j] \in 1..Len(records)
      BY <1>2
    <3> QED
      BY <1>0, <3>1
  <2>4. records[p[i]].raw_name \in Nat /\ records[p[j]].raw_name \in Nat
    BY <2>3 DEF RecordEntry
  <2> HIDE DEF key
  <2> QED
    BY <2>1, <2>2, <2>4
<1>8. Few(records')
  BY <1>0, <1>2, <1>3 DEF Few
<1> QED
  BY <1>0, <1>3, <1>4, <1>6, <1>7, <1>8 DEF Filed

\* Sorting one record's blobs.
LEMMA TableFiled ==
  ASSUME TypeOK, Filed, FinishTable, UNCHANGED shelves
  PROVE  Filed'
<1>0. /\ fin.pc = "tables" /\ records \in Seq(RecordEntry) /\ shelves \in Seq(ShelfEntry)
      /\ Len(shelves) = Len(records) /\ Len(records) \in Nat /\ Few(records) /\ RawSorted(records)
      /\ blobs' = blobs /\ fin.i \in Nat
  BY FinFields DEF FinishTable, InPhase, Filed, TypeOK
<1>1. fin.i \in 1..Len(records)
  BY TableIndex
<1>2. PICK p : FiledBy(p)
  BY <1>0 DEF Filed
<1> DEFINE n == fin.i
           bs == records[n].blobs
<1>3. PICK q \in SortedBy(Len(bs), Names(blobs, bs)) :
        records' = [records EXCEPT ![n].blobs = Reordered(bs, q), ![n].blob_table_start = offset]
  BY DEF FinishTable, Names
<1>4. bs \in Seq(Nat \ {0})
  <2>1. records[n] \in RecordEntry
    BY <1>0, <1>1
  <2> QED
    BY <2>1 DEF RecordEntry
<1> DEFINE us == Reordered(bs, q)
<1>5. Len(us) = Len(bs)
  BY <1>4, ReorderedType
<1>6. SortedOf(blobs, us, bs)
  BY DEF SortedOf
<1> HIDE DEF us
<1>7. /\ Len(records') = Len(records)
      /\ records'[n].blobs = us /\ records'[n].raw_name = records[n].raw_name
      /\ \A k \in 1..Len(records) : k # n => records'[k] = records[k]
  BY <1>0, <1>1, <1>3, TableSet DEF us
<1>8. fin'.pc = "tables" /\ fin'.i = n + 1
  BY <1>0, FinAdvance DEF FinishTable
<1> HIDE DEF n, bs
<1>9. ASSUME NEW k \in 1..Len(records)
      PROVE  Row(k, shelves[p[k]])'
  <2>1. Row(k, shelves[p[k]])
    BY <1>2 DEF FiledBy
  <2>2. CASE k = n
    <3>1. bs = shelves[p[k]].blobs /\ records[k].raw_name = shelves[p[k]].raw_name
      BY <1>0, <2>1, <2>2 DEF Row, TableOut, After, n, bs
    <3>2. SortedOf(blobs', records'[k].blobs, shelves'[p[k]].blobs)
      BY <1>0, <1>6, <1>7, <2>2, <3>1
    <3> QED
      BY <1>1, <1>7, <1>8, <2>2, <3>1, <3>2 DEF Row, TableOut, After, n
  <2>3. CASE k # n
    <3>1. TableOut(k)' <=> TableOut(k)
      <4>1. k < n + 1 <=> k < n
        BY <1>1, <2>3 DEF n
      <4> QED
        BY <1>0, <1>8, <4>1 DEF TableOut, After, n
    <3> QED
      BY <1>0, <1>7, <2>1, <2>3, <3>1 DEF Row
  <2> QED
    BY <2>2, <2>3
<1>10. FiledBy(p)'
  BY <1>2, <1>7, <1>9 DEF FiledBy
<1>11. RawSorted(records')
  BY <1>0, <1>1, <1>7 DEF RawSorted, n
<1>12. Few(records')
  <2>1. Len(records'[n].blobs) <= MaxAttach
    BY <1>0, <1>1, <1>5, <1>7 DEF Few, bs, n
  <2> QED
    BY <1>0, <1>7, <2>1 DEF Few
<1> QED
  BY <1>0, <1>7, <1>8, <1>10, <1>11, <1>12 DEF Filed

\* The other steps of finish, and what is no step of it.
LEMMA RestFiled ==
  ASSUME TypeOK, Filed, UNCHANGED <<records, shelves>>,
         \/ Idling \/ FinishBlob \/ FinishBlobsDone \/ FinishTablesDone
         \/ FinishRecord \/ FinishRecordsDone \/ FinishString \/ FinishHeader
  PROVE  Filed'
<1>0. fin.i \in Nat /\ Len(records) \in Nat
  BY FinFields DEF TypeOK
<1>1. ASSUME (fin.pc = "open") = (fin'.pc = "open"),
             \A k \in 1..Len(records) : TableOut(k)' <=> TableOut(k),
             blobs' = blobs \/ \A k \in 1..Len(records) : ~TableOut(k)
      PROVE  Filed'
  <2>1. \A k \in 1..Len(records) : \A s : Row(k, s)' <=> Row(k, s)
    BY <1>1 DEF Row
  <2>2. CASE fin.pc = "open"
    BY <1>1, <2>1, <2>2 DEF Filed
  <2>3. CASE fin.pc # "open"
    <3>1. PICK p : FiledBy(p)
      BY <2>3 DEF Filed
    <3>2. FiledBy(p)'
      BY <2>1, <3>1 DEF FiledBy
    <3> QED
      BY <1>1, <2>3, <3>2 DEF Filed
  <2> QED
    BY <2>2, <2>3
<1>2. CASE Idling
  BY <1>1, <1>2 DEF Idling, TableOut, After
<1>3. CASE FinishBlob
  <2>1. fin.pc = "blobs" /\ fin'.pc = "blobs"
    BY <1>3, FinAdvance DEF FinishBlob, InPhase
  <2> QED
    BY <1>1, <2>1 DEF TableOut, After
<1>4. CASE FinishBlobsDone
  <2>1. fin.pc = "blobs" /\ fin'.pc = "tables" /\ fin'.i = 1
    BY <1>4, FinGoto DEF FinishBlobsDone, InPhase
  <2>2. \A k \in 1..Len(records) : ~(k < 1)
    OBVIOUS
  <2> QED
    BY <1>1, <2>1, <2>2 DEF TableOut, After
<1>5. CASE FinishTablesDone
  <2>1. fin.pc = "tables" /\ fin'.pc = "records" /\ blobs' = blobs
    BY <1>5 DEF FinishTablesDone, InPhase, Goto, TypeOK, FinState
  <2>2. \A k \in 1..Len(records) : k < fin.i
    BY <1>0, <1>5, AfterLoop DEF FinishTablesDone
  <2> QED
    BY <1>1, <2>1, <2>2 DEF TableOut, After
<1>6. CASE FinishRecord \/ FinishRecordsDone \/ FinishString \/ FinishHeader
  <2>1. fin.pc \in {"records", "strings"} /\ fin'.pc \in {"records", "strings", "done"} /\ blobs' = blobs
    <3>1. CASE FinishRecord
      BY <3>1, FinAdvance DEF FinishRecord, InPhase
    <3>2. CASE FinishRecordsDone
      BY <3>2 DEF FinishRecordsDone, InPhase, Goto, TypeOK, FinState
    <3>3. CASE FinishString
      BY <3>3, FinAdvance DEF FinishString, InPhase
    <3>4. CASE FinishHeader
      BY <3>4 DEF FinishHeader, InPhase, TypeOK, FinState
    <3> QED
      BY <1>6, <3>1, <3>2, <3>3, <3>4
  <2> QED
    BY <1>1, <2>1 DEF TableOut, After
<1> QED
  BY <1>2, <1>3, <1>4, <1>5, <1>6

\* Every step keeps the records those of the shelves.
LEMMA NextFiled ==
  TypeOK /\ TypeOK' /\ Layout /\ Filed /\ [ShardNext]_allVars => Filed'
<1> SUFFICES ASSUME TypeOK, TypeOK', Layout, Filed, [ShardNext]_allVars
             PROVE  Filed'
  OBVIOUS
<1>0. \A t \in Threads : thread[t].pc # "idle" => fin.pc = "open"
  BY DEF Layout, Quiet
<1>1. ASSUME NEW t \in Threads, ReturnBlob(t) \/ (Silent(t) /\ UNCHANGED archived)
      PROVE  Filed'
  <2>1. OpenStep /\ UNCHANGED <<records, shelves>>
    <3>1. CASE ReturnBlob(t)
      BY <1>0, <3>1 DEF ReturnBlob, AddBlobReturn, OpenStep
    <3>2. CASE Silent(t) /\ UNCHANGED archived
      BY <1>0, <3>2 DEF Silent, archived, AddBlobConstants, AddBlobNew, AddBlobShared, AddBlobWrite, OpenStep
    <3> QED
      BY <1>1, <3>1, <3>2
  <2> QED
    BY <2>1, NextFiledOpen
<1>2. ASSUME NEW h \in HexNames, ReturnRecord(h)
      PROVE  Filed'
  <2>1. OpenStep
    BY <1>2 DEF ReturnRecord, AddRecord, OpenStep
  <2> QED
    BY <1>2, <2>1, NextFiledOpen
<1>3. ASSUME NEW r \in 1..MaxRecords, NEW b \in 1..MaxBlobs, Attach(r, b)
      PROVE  Filed'
  <2>1. OpenStep
    BY <1>3 DEF Attach, AddBlobToRecord, OpenStep
  <2> QED
    BY <1>3, <2>1, NextFiledOpen
<1>4. CASE Finish /\ UNCHANGED archived
  <2>0. UNCHANGED shelves
    BY <1>4 DEF archived
  <2>1. CASE FinishSort
    BY <2>0, <2>1, SortFiled
  <2>2. CASE FinishTable
    BY <2>0, <2>2, TableFiled
  <2>3. CASE FinishBlob \/ FinishBlobsDone \/ FinishTablesDone
    <3>1. UNCHANGED records
      BY <2>3 DEF FinishBlob, FinishBlobsDone, FinishTablesDone
    <3> QED
      BY <2>0, <2>3, <3>1, RestFiled
  <2>4. CASE FinishRecord \/ FinishRecordsDone \/ FinishString \/ FinishHeader
    <3>1. UNCHANGED records
      BY <2>4 DEF FinishRecord, FinishRecordsDone, FinishString, FinishHeader
    <3> QED
      BY <2>0, <2>4, <3>1, RestFiled
  <2> QED
    BY <1>4, <2>1, <2>2, <2>3, <2>4 DEF Finish
<1>5. CASE (Abort /\ UNCHANGED archived) \/ UNCHANGED allVars
  <2>1. Idling /\ UNCHANGED <<records, shelves>>
    BY <1>5 DEF Abort, archived, allVars, vars, pool, Idling
  <2> QED
    BY <2>1, RestFiled
<1> QED
  BY <1>1, <1>2, <1>3, <1>4, <1>5 DEF ShardNext

----------------------------------------------------------------------------
\* What add_blob was asked for is what its entry says: the name and the type
\* are in the pool, at the offsets recorded as long as those fit in a guint.
Texts(cp, r, name_offs, content_type_offs) ==
  /\ InPool(cp, r.name) /\ InPool(cp, r.content_type)
  /\ StrLen[r.name] <= EOS_SHARD_V2_BLOB_MAX_NAME_SIZE
  /\ cp.total_size < UINT_MOD =>
       name_offs = cp.offsets[r.name] /\ content_type_offs = cp.offsets[r.content_type]

BlobFor(cp, b, r) ==
  /\ b.name = r.name /\ b.sblob.flags = r.zlib /\ b.sblob.csum = Packed(r)
  /\ b.sblob.uncompressed_size = SizeOf[r.content]
  /\ Texts(cp, r, b.sblob.name_offs, b.sblob.content_type_offs)

\* An entry that differs in its place in the file or that of its data.
SameData(b, c) ==
  /\ c.name = b.name /\ c.sblob.flags = b.sblob.flags /\ c.sblob.csum = b.sblob.csum
  /\ c.sblob.uncompressed_size = b.sblob.uncompressed_size
  /\ c.sblob.name_offs = b.sblob.name_offs
  /\ c.sblob.content_type_offs = b.sblob.content_type_offs

\* Such an entry is still what was asked for.
LEMMA SameFor ==
  ASSUME NEW cp, NEW b, NEW c, NEW r, SameData(b, c), BlobFor(cp, b, r)
  PROVE  BlobFor(cp, c, r)
  BY DEF SameData, BlobFor

\* A pool that grows still has the name and the type.
LEMMA TextsExtend ==
  ASSUME NEW cp \in Pool, NEW cq \in Pool, Extends(cp, cq), NEW r \in Requests, NEW no, NEW co,
         Texts(cp, r, no, co)
  PROVE  Texts(cq, r, no, co)
<1>1. r.name \in Strings /\ r.content_type \in Strings
  BY RequestsAssumption
<1>2. cp.total_size \in Nat /\ cq.total_size \in Nat /\ UINT_MOD \in Nat
  BY WidthsAssumption DEF Pool
<1>3. cq.total_size < UINT_MOD => cp.total_size < UINT_MOD
  BY <1>2 DEF Extends
<1> QED
  BY <1>1, <1>3 DEF Texts, Extends

\* So an entry stays what was asked for.
LEMMA ForExtends ==
  ASSUME NEW cp \in Pool, NEW cq \in Pool, Extends(cp, cq), NEW b, NEW r \in Requests, BlobFor(cp, b, r)
  PROVE  BlobFor(cq, b, r)
  BY TextsExtend DEF BlobFor

Adding(t) == thread[t].pc \in {"write", "publish"}

ThreadOK(t) ==
  /\ thread[t].pc = "read" =>
       Texts(cpool, thread[t].req, thread[t].name_offs, thread[t].content_type_offs)
  /\ Adding(t) => BlobFor(cpool, blobs[thread[t].index], thread[t].req)

AskedIn(i) == asked[i] \in Requests /\ BlobFor(cpool, blobs[i], asked[i])

Asked ==
  /\ \A t \in Threads : ThreadOK(t)
  /\ \A t, u \in Threads : Adding(t) /\ Adding(u) /\ t # u => thread[t].index # thread[u].index
  /\ DOMAIN asked = {i \in 1..Len(blobs) : Published(i)}
  /\ \A i \in DOMAIN asked : AskedIn(i)
  /\ IsFiniteSet(InFlight) /\ Len(blobs) + Cardinality(InFlight) <= MaxBlobs

\* A step that keeps the data of every entry keeps what they stand for.
LEMMA AskedKeeps ==
  ASSUME Asked, IdsOK, TypeOK, UNCHANGED <<thread, asked, cpool>>, Len(blobs') = Len(blobs),
         \A i \in 1..Len(blobs) : SameData(blobs[i], blobs'[i])
  PROVE  Asked'
<1>1. ASSUME NEW t \in Threads
      PROVE  ThreadOK(t)'
  <2>1. Adding(t) => thread[t].index \in 1..Len(blobs)
    <3>1. thread[t] \in ThreadState
      BY DEF TypeOK
    <3>2. Adding(t) => thread[t].index \in Nat \ {0} /\ thread[t].index <= Len(blobs)
      BY <3>1, ThreadCases DEF Adding, IdsOK
    <3>3. Len(blobs) \in Nat
      BY DEF TypeOK
    <3> QED
      BY <3>2, <3>3
  <2>2. ThreadOK(t)
    BY DEF Asked
  <2> QED
    BY <2>1, <2>2, SameFor DEF ThreadOK, Adding
<1>2. ASSUME NEW i \in DOMAIN asked
      PROVE  AskedIn(i)'
  <2>1. i \in 1..Len(blobs) /\ AskedIn(i)
    BY DEF Asked
  <2> QED
    BY <2>1, SameFor DEF AskedIn
<1>3. \A i : Published(i)' <=> Published(i)
  BY DEF Published
<1>4. InFlight' = InFlight /\ \A t : Adding(t)' <=> Adding(t)
  BY DEF InFlight, Adding
<1> QED
  BY <1>1, <1>2, <1>3, <1>4 DEF Asked

\* The state of one thread changes.
LEMMA ThreadSet ==
  ASSUME TypeOK, NEW t \in Threads, NEW x, thread' = [thread EXCEPT ![t] = x]
  PROVE  thread'[t] = x /\ \A u \in Threads : u # t => thread'[u] = thread[u]
  BY DEF TypeOK

\* The threads between the two critical sections, after a step of t.
LEMMA InFlightSet ==
  ASSUME NEW t \in Threads, \A u \in Threads : u # t => thread'[u] = thread[u]
  PROVE  InFlight' = IF thread'[t].pc = "read" THEN InFlight \cup {t} ELSE InFlight \ {t}
  BY DEF InFlight

\* The first critical section of add_blob records the name and type asked for.
LEMMA ConstantsAsked ==
  ASSUME TypeOK, PoolOK(cpool), Asked, NEW t \in Threads, NEW r \in Requests,
         AddBlobConstants(t, r), UNCHANGED asked
  PROVE  Asked'
<1>0. /\ thread[t].pc = "idle" /\ blobs' = blobs /\ cpool \in Pool
      /\ r.name \in Strings /\ r.content_type \in Strings
      /\ StrLen[r.name] <= EOS_SHARD_V2_BLOB_MAX_NAME_SIZE
  BY RequestsAssumption DEF AddBlobConstants, TypeOK, Pool
<1> DEFINE cp == constant_pool_add(cpool, r.name)
           cq == constant_pool_add(cp, r.content_type)
           x == [pc |-> "read", req |-> r, name_offs |-> constant_pool_offset(cpool, r.name),
                 content_type_offs |-> constant_pool_offset(cp, r.content_type)]
<1>1. cpool' = cq /\ thread' = [thread EXCEPT ![t] = x]
  BY DEF AddBlobConstants
<1>2. /\ x.pc = "read" /\ x.req = r /\ x.name_offs = constant_pool_offset(cpool, r.name)
      /\ x.content_type_offs = constant_pool_offset(cp, r.content_type)
  OBVIOUS
<1> HIDE DEF x
<1>3. thread'[t] = x /\ \A u \in Threads : u # t => thread'[u] = thread[u]
  BY <1>1, ThreadSet
<1>4. /\ cp \in Pool /\ PoolOK(cp) /\ Extends(cpool, cp) /\ InPool(cp, r.name)
      /\ cp.total_size < UINT_MOD => x.name_offs = cp.offsets[r.name]
  BY <1>0, <1>2, PoolAdd
<1> HIDE DEF cp
<1>5. /\ cq \in Pool /\ Extends(cp, cq) /\ InPool(cq, r.content_type)
      /\ cq.total_size < UINT_MOD => x.content_type_offs = cq.offsets[r.content_type]
  BY <1>0, <1>2, <1>4, PoolAdd
<1> HIDE DEF cq
<1>6. Extends(cpool, cq)
  BY <1>0, <1>4, <1>5, ExtendsTrans
<1>7. Texts(cq, r, x.name_offs, x.content_type_offs)
  <2>1. InPool(cq, r.name) /\ cq.offsets[r.name] = cp.offsets[r.name]
    BY <1>0, <1>4, <1>5 DEF Extends
  <2>2. cq.total_size < UINT_MOD => cp.total_size < UINT_MOD
    <3>1. cp.total_size \in Nat /\ cq.total_size \in Nat /\ UINT_MOD \in Nat
      BY <1>4, <1>5, WidthsAssumption DEF Pool
    <3> QED
      BY <1>5, <3>1 DEF Extends
  <2> QED
    BY <1>0, <1>4, <1>5, <2>1, <2>2 DEF Texts
<1>8. \A u \in Threads : Adding(u)' <=> Adding(u)
  BY <1>0, <1>2, <1>3 DEF Adding
<1>9. ASSUME NEW u \in Threads
      PROVE  ThreadOK(u)'
  <2>1. CASE u = t
    BY <1>0, <1>1, <1>2, <1>3, <1>7, <2>1 DEF ThreadOK, Adding
  <2>2. CASE u # t
    <3>1. ThreadOK(u)
      BY DEF Asked
    <3>2. Adding(u) \/ thread[u].pc = "read" => thread[u].req \in Requests
      <4>1. thread[u] \in ThreadState
        BY DEF TypeOK
      <4> QED
        BY <4>1, ThreadCases DEF Adding
    <3>3. Adding(u) => BlobFor(cq, blobs[thread[u].index], thread[u].req)
      BY <1>0, <1>5, <1>6, <3>1, <3>2, ForExtends DEF ThreadOK
    <3>4. thread[u].pc = "read" => Texts(cq, thread[u].req, thread[u].name_offs, thread[u].content_type_offs)
      BY <1>0, <1>5, <1>6, <3>1, <3>2, TextsExtend DEF ThreadOK
    <3> QED
      BY <1>0, <1>1, <1>3, <1>8, <2>2, <3>3, <3>4 DEF ThreadOK
  <2> QED
    BY <2>1, <2>2
<1>10. \A i : Published(i)' <=> Published(i)
  BY <1>0, <1>2, <1>3 DEF Published
<1>11. ASSUME NEW i \in DOMAIN asked
       PROVE  AskedIn(i)'
  <2>1. AskedIn(i)
    BY DEF Asked
  <2> QED
    BY <1>0, <1>1, <1>5, <1>6, <2>1, ForExtends DEF AskedIn
<1>12. IsFiniteSet(InFlight') /\ Len(blobs') + Cardinality(InFlight') <= MaxBlobs
  <2>1. InFlight' = InFlight \cup {t} /\ t \notin InFlight
    BY <1>0, <1>2, <1>3, InFlightSet DEF InFlight
  <2>2. IsFiniteSet(InFlight) /\ Len(blobs) + Cardinality(InFlight) < MaxBlobs
    BY DEF Asked, AddBlobConstants
  <2>3. IsFiniteSet(InFlight') /\ Cardinality(InFlight') = Cardinality(InFlight) + 1
    BY <2>1, <2>2, FS_AddElement
  <2>4. Cardinality(InFlight) \in Nat /\ Len(blobs) \in Nat /\ MaxBlobs \in Nat
    BY <2>2, FS_CardinalityType, BoundsAssumption DEF TypeOK
  <2> QED
    BY <1>0, <2>2, <2>3, <2>4
<1>13. \A u, v \in Threads : Adding(u)' /\ Adding(v)' /\ u # v => thread'[u].index # thread'[v].index
  <2> SUFFICES ASSUME NEW u \in Threads, NEW v \in Threads, Adding(u)', Adding(v)', u # v
               PROVE  thread'[u].index # thread'[v].index
    OBVIOUS
  <2>1. u # t /\ v # t
    BY <1>2, <1>3 DEF Adding
  <2> QED
    BY <1>3, <1>8, <2>1 DEF Asked
<1> QED
  BY <1>0, <1>9, <1>10, <1>11, <1>12, <1>13 DEF Asked

\* The entry is appended, and the thread knows its index.
LEMMA AppendAsked ==
  ASSUME TypeOK, IdsOK, Asked, NEW t \in Threads, AddBlobNew(t) \/ AddBlobShared(t), UNCHANGED asked
  PROVE  Asked'
<1> DEFINE n == Len(blobs)
           s == thread[t]
           b == NewBlob(s)
<1>0. /\ s.pc = "read" /\ blobs' = Append(blobs, b) /\ cpool' = cpool
      /\ \E pc \in {"write", "publish"} : \E d :
           thread' = [thread EXCEPT ![t] = [pc |-> pc, req |-> s.req, index |-> n + 1, data_start |-> d]]
  <2>1. CASE AddBlobNew(t)
    BY <2>1 DEF AddBlobNew
  <2>2. CASE AddBlobShared(t)
    BY <2>2 DEF AddBlobShared, pool
  <2> QED
    BY <2>1, <2>2
<1>1. s \in ThreadState /\ s \in [pc: {"read"}, req: Requests, name_offs: Nat, content_type_offs: Nat]
  BY <1>0, ThreadCases DEF TypeOK
<1>2. n \in Nat /\ blobs \in Seq(BlobEntry) /\ b \in BlobEntry
  BY <1>1, NewBlobType DEF TypeOK
<1>2a. PICK pc \in {"write", "publish"} : \E d :
        thread' = [thread EXCEPT ![t] = [pc |-> pc, req |-> s.req, index |-> n + 1, data_start |-> d]]
  BY <1>0
<1>3. PICK d : thread' = [thread EXCEPT ![t] = [pc |-> pc, req |-> s.req, index |-> n + 1, data_start |-> d]]
  BY <1>2a
<1> DEFINE x == [pc |-> pc, req |-> s.req, index |-> n + 1, data_start |-> d]
<1>4. x.pc \in {"write", "publish"} /\ x.req = s.req /\ x.index = n + 1
  OBVIOUS
<1> HIDE DEF x
<1>5. thread'[t] = x /\ \A u \in Threads : u # t => thread'[u] = thread[u]
  BY <1>3, ThreadSet DEF x
<1>6. BlobFor(cpool, b, s.req)
  <2>1. Texts(cpool, s.req, s.name_offs, s.content_type_offs)
    BY <1>0 DEF Asked, ThreadOK
  <2>2. /\ b.name = s.req.name /\ b.sblob.flags = s.req.zlib /\ b.sblob.csum = Packed(s.req)
        /\ b.sblob.uncompressed_size = SizeOf[s.req.content]
        /\ b.sblob.name_offs = s.name_offs /\ b.sblob.content_type_offs = s.content_type_offs
    BY DEF NewBlob
  <2> HIDE DEF b, s
  <2> QED
    BY <2>1, <2>2 DEF BlobFor
<1> HIDE DEF b
<1>7. /\ Len(blobs') = n + 1 /\ blobs'[n + 1] = b
      /\ \A i \in 1..n : blobs'[i] = blobs[i]
  BY <1>0, <1>2
<1>8. \A u \in Threads : Adding(u) => thread[u].index \in 1..n
  <2> SUFFICES ASSUME NEW u \in Threads, Adding(u)
               PROVE  thread[u].index \in 1..n
    OBVIOUS
  <2>1. thread[u] \in ThreadState
    BY DEF TypeOK
  <2>2. thread[u].index \in Nat \ {0} /\ thread[u].index <= n
    BY <2>1, ThreadCases DEF Adding, IdsOK
  <2> QED
    BY <1>2, <2>2
<1>9. \A u \in Threads : u # t => (Adding(u)' <=> Adding(u))
  BY <1>5 DEF Adding
<1>10. ~Adding(t) /\ Adding(t)' /\ thread'[t].index = n + 1 /\ thread'[t].req = s.req
  BY <1>0, <1>4, <1>5 DEF Adding
<1> HIDE DEF n
<1>11. ASSUME NEW u \in Threads
       PROVE  ThreadOK(u)'
  <2>1. CASE u = t
    <3>1. thread'[u].pc # "read"
      BY <1>4, <1>5, <2>1
    <3> QED
      BY <1>0, <1>6, <1>7, <1>10, <2>1, <3>1 DEF ThreadOK
  <2>2. CASE u # t
    <3>1. ThreadOK(u) /\ thread'[u] = thread[u] /\ (Adding(u)' <=> Adding(u))
      BY <1>5, <1>9, <2>2 DEF Asked
    <3>2. Adding(u) => blobs'[thread[u].index] = blobs[thread[u].index]
      BY <1>7, <1>8
    <3> QED
      BY <1>0, <3>1, <3>2 DEF ThreadOK
  <2> QED
    BY <2>1, <2>2
<1>12. \A i \in 1..n : Published(i)' <=> Published(i)
  <2> SUFFICES ASSUME NEW i \in 1..n
               PROVE  Published(i)' <=> Published(i)
    OBVIOUS
  <2>1. i # n + 1
    BY <1>2 DEF n
  <2>2. \A u \in Threads : (Adding(u)' => thread'[u].index # i) <=> (Adding(u) => thread[u].index # i)
    BY <1>5, <1>9, <1>10, <2>1
  <2> QED
    BY <2>2 DEF Published, Adding
<1>13. \A i : i = n + 1 => ~Published(i)'
  BY <1>10 DEF Published, Adding
<1>14. {i \in 1..Len(blobs') : Published(i)'} = DOMAIN asked
  <2>1. \A i : i \in 1..n + 1 <=> i \in 1..n \/ i = n + 1
    BY <1>2 DEF n
  <2>2. DOMAIN asked = {i \in 1..n : Published(i)}
    BY DEF Asked, n
  <2> QED
    BY <1>7, <1>12, <1>13, <2>1, <2>2
<1>15. ASSUME NEW i \in DOMAIN asked
       PROVE  AskedIn(i)'
  <2>1. i \in 1..n /\ AskedIn(i)
    BY DEF Asked, n
  <2> QED
    BY <1>0, <1>7, <2>1 DEF AskedIn
<1>16. IsFiniteSet(InFlight') /\ Len(blobs') + Cardinality(InFlight') <= MaxBlobs
  <2>1. InFlight' = InFlight \ {t} /\ t \in InFlight
    <3>1. thread'[t].pc # "read"
      BY <1>4, <1>5
    <3> QED
      BY <1>0, <1>5, <3>1, InFlightSet DEF InFlight
  <2>2. IsFiniteSet(InFlight) /\ n + Cardinality(InFlight) <= MaxBlobs
    BY DEF Asked, n
  <2>3. IsFiniteSet(InFlight') /\ Cardinality(InFlight') = Cardinality(InFlight) - 1
    BY <2>1, <2>2, FS_RemoveElement
  <2>4. Cardinality(InFlight) \in Nat /\ MaxBlobs \in Nat
    BY <2>2, FS_CardinalityType, BoundsAssumption
  <2>5. n \in Nat
    BY <1>2 DEF n
  <2> QED
    BY <1>7, <2>2, <2>3, <2>4, <2>5
<1>17. ASSUME NEW u \in Threads, NEW v \in Threads, Adding(u)', Adding(v)', u # v
       PROVE  thread'[u].index # thread'[v].index
  <2>1. n \in Nat
    BY <1>2 DEF n
  <2>2. CASE u = t
    BY <1>5, <1>8, <1>9, <1>10, <1>17, <2>1, <2>2
  <2>3. CASE v = t
    BY <1>5, <1>8, <1>9, <1>10, <1>17, <2>1, <2>3
  <2>4. CASE u # t /\ v # t
    BY <1>5, <1>9, <1>17, <2>4 DEF Asked
  <2> QED
    BY <2>2, <2>3, <2>4
<1> QED
  BY <1>11, <1>14, <1>15, <1>16, <1>17 DEF Asked

\* The copy loop changes what the thread is at, nothing else.
LEMMA WriteAsked ==
  ASSUME TypeOK, Asked, NEW t \in Threads, AddBlobWrite(t), UNCHANGED asked
  PROVE  Asked'
<1>0. thread[t].pc = "write" /\ thread[t] \in ThreadState /\ blobs' = blobs /\ cpool' = cpool
  BY DEF AddBlobWrite, TypeOK, pool
<1>1. thread[t] \in [pc: {"write", "publish"}, req: Requests, index: Nat \ {0}, data_start: Nat]
  BY <1>0, ThreadCases
<1> DEFINE x == [thread[t] EXCEPT !.pc = "publish"]
<1>2. x.pc = "publish" /\ x.req = thread[t].req /\ x.index = thread[t].index
  BY <1>1
<1>3. thread' = [thread EXCEPT ![t] = x]
  BY DEF AddBlobWrite
<1> HIDE DEF x
<1>4. thread'[t] = x /\ \A u \in Threads : u # t => thread'[u] = thread[u]
  BY <1>3, ThreadSet
<1>5. \A u \in Threads : /\ Adding(u)' <=> Adding(u)
                         /\ Adding(u) => thread'[u].index = thread[u].index /\ thread'[u].req = thread[u].req
                         /\ thread'[u].pc = "read" => thread'[u] = thread[u]
  BY <1>0, <1>2, <1>4 DEF Adding
<1>6. ASSUME NEW u \in Threads
      PROVE  ThreadOK(u)'
  <2>1. ThreadOK(u)
    BY DEF Asked
  <2> QED
    BY <1>0, <1>5, <2>1 DEF ThreadOK
<1>7. \A i : Published(i)' <=> Published(i)
  BY <1>5 DEF Published, Adding
<1>8. \A i \in DOMAIN asked : AskedIn(i)'
  BY <1>0 DEF Asked, AskedIn
<1>9. InFlight' = InFlight
  BY <1>0, <1>2, <1>4 DEF InFlight
<1>10. \A u, v \in Threads : Adding(u)' /\ Adding(v)' /\ u # v => thread'[u].index # thread'[v].index
  BY <1>5 DEF Asked
<1> QED
  BY <1>0, <1>6, <1>7, <1>8, <1>9, <1>10 DEF Asked

\* The identifier add_blob returns stands for the request from now on.
LEMMA ReturnAsked ==
  ASSUME TypeOK, TypeOK', IdsOK, Asked, NEW t \in Threads, ReturnBlob(t)
  PROVE  Asked'
<1> DEFINE s == thread[t]
<1>0. s.pc = "publish" /\ s \in ThreadState /\ cpool' = cpool /\ thread' = [thread EXCEPT ![t] = Idle]
  BY DEF ReturnBlob, AddBlobReturn, TypeOK, pool
<1>1. s \in [pc: {"write", "publish"}, req: Requests, index: Nat \ {0}, data_start: Nat]
  BY <1>0, ThreadCases
<1>2. blobs \in Seq(BlobEntry) /\ Len(blobs) \in Nat /\ blobs' \in Seq(BlobEntry)
  BY DEF TypeOK
<1>3. s.index \in 1..Len(blobs) /\ s.req \in Requests
  <2>1. s.index \in Nat \ {0} /\ s.index <= Len(blobs) /\ s.req \in Requests
    BY <1>0, <1>1 DEF IdsOK
  <2> QED
    BY <1>2, <2>1
<1>4. thread'[t] = Idle /\ \A u \in Threads : u # t => thread'[u] = thread[u]
  BY <1>0, ThreadSet
<1>5. Len(blobs') = Len(blobs) /\ \A i \in 1..Len(blobs) : SameData(blobs[i], blobs'[i])
  <2> DEFINE n == s.index
             d == s.data_start
             z == SizeOf[Packed(s.req)]
             c == [blobs[n] EXCEPT !.sblob.data_start = d]
             e == [c EXCEPT !.sblob.size = z]
             q == [blobs EXCEPT ![n] = c]
  <2>1. blobs' = [blobs EXCEPT ![n].sblob.data_start = d, ![n].sblob.size = z]
    BY DEF ReturnBlob, AddBlobReturn
  <2>2. blobs[n] \in BlobEntry
    BY <1>2, <1>3
  <2> HIDE DEF d, z, n
  <2>3. SameData(blobs[n], e)
    BY <2>2 DEF BlobEntry, SBlob, SameData
  <2>4. blobs' = [q EXCEPT ![n] = e]
    <3>1. q[n] = c
      BY <1>2, <1>3 DEF n
    <3> QED
      BY <2>1, <3>1
  <2> HIDE DEF c, e
  <2>5. DOMAIN blobs' = 1..Len(blobs) /\ blobs'[n] = e /\ \A i \in 1..Len(blobs) : i # n => blobs'[i] = blobs[i]
    BY <1>2, <1>3, <2>4 DEF n
  <2>6. Len(blobs') = Len(blobs)
    BY <1>2, <2>5
  <2>7. \A i \in 1..Len(blobs) : SameData(blobs[i], blobs[i])
    BY DEF SameData
  <2> QED
    BY <2>3, <2>5, <2>6, <2>7
<1>6. asked' = [i \in DOMAIN asked \cup {s.index} |-> IF i = s.index THEN s.req ELSE asked[i]]
  BY DEF ReturnBlob
<1>7. /\ DOMAIN asked' = DOMAIN asked \cup {s.index} /\ asked'[s.index] = s.req
      /\ \A i \in DOMAIN asked : i # s.index => asked'[i] = asked[i]
  BY <1>6
<1>8. Adding(t) /\ ~Adding(t)' /\ \A u \in Threads : u # t => (Adding(u)' <=> Adding(u))
  BY <1>0, <1>4 DEF Adding, Idle
<1>9. BlobFor(cpool, blobs[s.index], s.req)
  BY <1>8 DEF Asked, ThreadOK
<1> HIDE DEF s
<1>10. ASSUME NEW u \in Threads
       PROVE  ThreadOK(u)'
  <2>1. CASE u = t
    BY <1>4, <1>8, <2>1 DEF ThreadOK, Idle
  <2>2. CASE u # t
    <3>1. ThreadOK(u)
      BY DEF Asked
    <3>2. Adding(u) => thread[u].index \in 1..Len(blobs)
      <4>1. thread[u] \in ThreadState
        BY DEF TypeOK
      <4>2. Adding(u) => thread[u].index \in Nat \ {0} /\ thread[u].index <= Len(blobs)
        BY <4>1, ThreadCases DEF Adding, IdsOK
      <4> QED
        BY <1>2, <4>2
    <3>3. Adding(u) => BlobFor(cpool, blobs'[thread[u].index], thread[u].req)
      BY <1>5, <3>1, <3>2, SameFor DEF ThreadOK
    <3> QED
      BY <1>0, <1>4, <1>8, <2>2, <3>1, <3>3 DEF ThreadOK
  <2> QED
    BY <2>1, <2>2
<1>11. ASSUME NEW i \in 1..Len(blobs)
       PROVE  Published(i)' <=> Published(i) \/ i = s.index
  <2>1. Published(i) <=> \A u \in Threads : Adding(u) => thread[u].index # i
    BY DEF Published, Adding
  <2>2. Published(i)' <=> \A u \in Threads : Adding(u)' => thread'[u].index # i
    BY DEF Published, Adding
  <2>3. CASE i = s.index
    <3>1. \A u \in Threads : Adding(u) /\ u # t => thread[u].index # i
      BY <1>8, <2>3 DEF Asked, s
    <3> QED
      BY <1>4, <1>8, <2>2, <2>3, <3>1
  <2>4. CASE i # s.index
    BY <1>4, <1>8, <2>1, <2>2, <2>4 DEF s
  <2> QED
    BY <2>3, <2>4
<1>12. DOMAIN asked' = {i \in 1..Len(blobs') : Published(i)'}
  BY <1>3, <1>5, <1>7, <1>11 DEF Asked
<1>13. ASSUME NEW i \in DOMAIN asked'
       PROVE  AskedIn(i)'
  <2>1. CASE i = s.index
    <3>1. BlobFor(cpool, blobs'[i], s.req)
      BY <1>3, <1>5, <1>9, <2>1, SameFor
    <3> QED
      BY <1>0, <1>3, <1>7, <2>1, <3>1 DEF AskedIn
  <2>2. CASE i # s.index
    <3>1. i \in DOMAIN asked
      BY <1>7, <2>2
    <3>2. i \in 1..Len(blobs) /\ AskedIn(i)
      BY <3>1 DEF Asked
    <3> QED
      BY <1>0, <1>5, <1>7, <2>2, <3>1, <3>2, SameFor DEF AskedIn
  <2> QED
    BY <2>1, <2>2
<1>14. InFlight' = InFlight
  <2>1. thread'[t].pc # "read" /\ t \notin InFlight
    BY <1>0, <1>4 DEF Idle, InFlight, s
  <2> QED
    BY <1>4, <2>1, InFlightSet
<1>15. \A u, v \in Threads : Adding(u)' /\ Adding(v)' /\ u # v => thread'[u].index # thread'[v].index
  <2> SUFFICES ASSUME NEW u \in Threads, NEW v \in Threads, Adding(u)', Adding(v)', u # v
               PROVE  thread'[u].index # thread'[v].index
    OBVIOUS
  <2>1. u # t /\ v # t
    BY <1>8
  <2> QED
    BY <1>4, <1>8, <2>1 DEF Asked
<1> QED
  BY <1>5, <1>10, <1>12, <1>13, <1>14, <1>15 DEF Asked

\* Every step keeps the entries what was asked for.
LEMMA NextAsked ==
  TypeOK /\ TypeOK' /\ IdsOK /\ PoolOK(cpool) /\ Asked /\ [ShardNext]_allVars => Asked'
<1> SUFFICES ASSUME TypeOK, TypeOK', IdsOK, PoolOK(cpool), Asked, [ShardNext]_allVars
             PROVE  Asked'
  OBVIOUS
<1>1. ASSUME NEW t \in Threads, ReturnBlob(t)
      PROVE  Asked'
  BY <1>1, ReturnAsked
<1>2. ASSUME NEW t \in Threads, Silent(t), UNCHANGED archived
      PROVE  Asked'
  <2>0. UNCHANGED asked
    BY <1>2 DEF archived
  <2>1. ASSUME NEW r \in Requests, AddBlobConstants(t, r)
        PROVE  Asked'
    BY <2>0, <2>1, ConstantsAsked
  <2>2. CASE AddBlobNew(t) \/ AddBlobShared(t)
    BY <2>0, <2>2, AppendAsked
  <2>3. CASE AddBlobWrite(t)
    BY <2>0, <2>3, WriteAsked
  <2> QED
    BY <1>2, <2>1, <2>2, <2>3 DEF Silent
<1>s. \A i \in 1..Len(blobs) : SameData(blobs[i], blobs[i])
  BY DEF SameData
<1>3. CASE FinishBlob /\ UNCHANGED archived
  <2>0. UNCHANGED <<thread, asked, cpool>> /\ fin.i \in 1..Len(blobs) /\ blobs \in Seq(BlobEntry)
    <3>1. fin.i \in Nat \ {0} /\ Len(blobs) \in Nat /\ fin.i <= Len(blobs)
      <4>1. Len(blobs) \in Nat
        BY DEF TypeOK
      <4>2. fin.i <= Len(blobs)
        BY <1>3 DEF FinishBlob
      <4> QED
        BY <4>1, <4>2, FinFields
    <3> QED
      BY <1>3, <3>1 DEF FinishBlob, archived, pool, TypeOK
  <2>1. blobs' = [blobs EXCEPT ![fin.i].offs = offset] /\ blobs[fin.i] \in BlobEntry
    BY <1>3, <2>0 DEF FinishBlob
  <2> DEFINE c == [blobs[fin.i] EXCEPT !.offs = offset]
  <2>2. SameData(blobs[fin.i], c)
    BY <2>1 DEF BlobEntry, SameData
  <2>3. blobs' = [blobs EXCEPT ![fin.i] = c]
    BY <2>1
  <2> HIDE DEF c
  <2>4. DOMAIN blobs' = 1..Len(blobs) /\ \A i \in 1..Len(blobs) : SameData(blobs[i], blobs'[i])
    BY <1>s, <2>0, <2>2, <2>3
  <2>5. Len(blobs') = Len(blobs)
    <3>1. blobs' \in Seq(BlobEntry) /\ Len(blobs) \in Nat
      BY DEF TypeOK
    <3> QED
      BY <2>4, <3>1
  <2> QED
    BY <2>0, <2>4, <2>5, AskedKeeps
<1>4. ASSUME UNCHANGED <<thread, asked, cpool, blobs>>
      PROVE  Asked'
  BY <1>4, <1>s, AskedKeeps
<1>5. ASSUME NEW h \in HexNames, ReturnRecord(h)
      PROVE  Asked'
  BY <1>4, <1>5 DEF ReturnRecord, AddRecord, pool
<1>6. ASSUME NEW r \in 1..MaxRecords, NEW b \in 1..MaxBlobs, Attach(r, b)
      PROVE  Asked'
  BY <1>4, <1>6 DEF Attach, AddBlobToRecord, pool
<1>7. CASE (FinishSort \/ FinishBlobsDone \/ FinishTable \/ FinishTablesDone) /\ UNCHANGED archived
  <2>1. UNCHANGED <<thread, asked, cpool, blobs>>
    BY <1>7 DEF FinishSort, FinishBlobsDone, FinishTable, FinishTablesDone, pool, archived
  <2> QED
    BY <1>4, <2>1
<1>8. CASE (FinishRecord \/ FinishRecordsDone \/ FinishString \/ FinishHeader) /\ UNCHANGED archived
  <2>1. UNCHANGED <<thread, asked, cpool, blobs>>
    BY <1>8 DEF FinishRecord, FinishRecordsDone, FinishString, FinishHeader, pool, archived
  <2> QED
    BY <1>4, <2>1
<1>9. CASE (Abort /\ UNCHANGED archived) \/ UNCHANGED allVars
  <2>1. UNCHANGED <<thread, asked, cpool, blobs>>
    BY <1>9 DEF Abort, pool, archived, allVars, vars
  <2> QED
    BY <1>4, <2>1
<1> QED
  BY <1>1, <1>2, <1>3, <1>5, <1>6, <1>7, <1>8, <1>9 DEF ShardNext, Finish

----------------------------------------------------------------------------
LaidOut == BlobsOut /\ TablesOut /\ RecordsOut /\ StringsOut /\ HeaderLast

ShardInvariant == WriterInvariant /\ Apart /\ LaidOut /\ Filed /\ Asked

\* The invariant of the shard holds at first.
LEMMA ShardStart == ShardInit => ShardInvariant
<1> SUFFICES ASSUME ShardInit
             PROVE  ShardInvariant
  OBVIOUS
<1>0. Init /\ shelves = <<>> /\ asked = <<>>
  BY DEF ShardInit
<1>1. WriterInvariant
  BY <1>0, WriterStart
<1>2. /\ fin.pc = "open" /\ file = {} /\ records = <<>>
      /\ cpool = [total_size |-> 0, strings |-> <<>>, offsets |-> [s \in Strings |-> 0]]
  BY <1>0 DEF Init
<1>3. Apart
  BY <1>2 DEF Apart, ApartIn
<1>4. BlobsOut /\ TablesOut /\ RecordsOut /\ HeaderLast
  BY <1>2 DEF BlobsOut, BlobOut, TablesOut, TableOut, RecordsOut, RecordOut, After, HeaderLast, NoHeader
<1>5. StringsOut
  <2>1. cpool.strings = <<>> /\ cpool.total_size = 0 /\ Len(cpool.strings) = 0
    BY <1>2
  <2>2. \A i : i \notin 1..Len(cpool.strings)
    BY <2>1
  <2> QED
    BY <1>2, <2>1, <2>2 DEF StringsOut, StringOut, After, PoolOK, PoolPos
<1>6. Filed
  BY <1>0, <1>2 DEF Filed, Few
<1>7. Asked
  <2>1. /\ blobs = <<>> /\ Len(blobs) = 0 /\ \A t \in Threads : thread[t] = Idle
        /\ MaxBlobs \in Nat /\ DOMAIN asked = {}
    BY <1>0, BoundsAssumption DEF Init
  <2>2. \A t \in Threads : ~Adding(t) /\ thread[t].pc # "read"
    BY <2>1 DEF Idle, Adding
  <2>3. InFlight = {} /\ IsFiniteSet(InFlight) /\ Cardinality(InFlight) = 0
    BY <2>2, FS_EmptySet DEF InFlight
  <2>4. DOMAIN asked = {i \in 1..Len(blobs) : Published(i)}
    BY <2>1
  <2> QED
    BY <2>1, <2>2, <2>3, <2>4 DEF Asked, ThreadOK
<1> QED
  BY <1>1, <1>3, <1>4, <1>5, <1>6, <1>7 DEF ShardInvariant, LaidOut

\* Every step keeps the invariant.
LEMMA ShardStep == ShardInvariant /\ [ShardNext]_allVars => ShardInvariant'
<1> SUFFICES ASSUME ShardInvariant, [ShardNext]_allVars
             PROVE  ShardInvariant'
  OBVIOUS
<1>0. [Next]_vars
  BY ShardCases
<1>1. WriterInvariant' /\ file \subseteq file'
  BY <1>0, WriterStep DEF ShardInvariant
<1>2. TypeOK /\ TypeOK' /\ IdsOK /\ Layout
  BY <1>1 DEF ShardInvariant, WriterInvariant
<1>3. Apart'
  BY <1>0, <1>1, <1>2, NextApart DEF ShardInvariant
<1>4. BlobsOut'
  BY <1>0, <1>1, <1>2, NextBlobsOut DEF ShardInvariant, LaidOut
<1>5. TablesOut'
  BY <1>0, <1>1, <1>2, NextTablesOut DEF ShardInvariant, LaidOut
<1>6. RecordsOut'
  BY <1>0, <1>1, <1>2, NextRecordsOut DEF ShardInvariant, LaidOut
<1>7. StringsOut'
  BY <1>0, <1>1, <1>2, NextStringsOut DEF ShardInvariant, LaidOut
<1>8. HeaderLast'
  BY <1>0, <1>1, <1>2, NextHeaderLast DEF ShardInvariant, LaidOut
<1>9. Filed'
  BY <1>0, <1>1, <1>2, NextFiled DEF ShardInvariant
<1>10. Asked'
  <2>1. PoolOK(cpool)
    BY DEF ShardInvariant, LaidOut, StringsOut
  <2> QED
    BY <1>2, <2>1, NextAsked DEF ShardInvariant
<1> QED
  BY <1>1, <1>3, <1>4, <1>5, <1>6, <1>7, <1>8, <1>9, <1>10 DEF ShardInvariant, LaidOut

\* So it holds in every state.
LEMMA ShardAlways == ShardSpec => []ShardInvariant
<1> QED
  BY ShardStart, ShardStep, PTL DEF ShardSpec

----------------------------------------------------------------------------
\* What a reader finds.  A record's table has room for the count of its blobs.
FewAttached == MaxAttach < UINT8_MOD

\* A complete file holds every structure finish wrote.
LEMMA KeptExtents ==
  ASSUME ShardInvariant, fin.pc = "done"
  PROVE  /\ HeaderExtent \in file
         /\ \A k \in 1..Len(records) : RecordExtent(k) \in file /\ TableIn(file, blobs, records[k])
         /\ \A i \in 1..Len(blobs) : BlobExtent(blobs[i]) \in file
         /\ \A i \in 1..Len(cpool.strings) : StringExtent(i) \in file
  BY DEF ShardInvariant, LaidOut, HeaderLast, RecordsOut, RecordOut, TablesOut, TableOut,
         BlobsOut, BlobOut, StringsOut, StringOut, After

\* The file as a reader that gets past the header has it in memory.
Opened ==
  [file |-> file, hdr |-> HdrOf,
   records |-> [k \in 1..Len(records) |-> {Written(records[k])}]]

\* The k-th place of the record table reads as the k-th record.
LEMMA RecordReads ==
  ASSUME ShardInvariant, fin.pc = "done", NEW k \in 1..Len(records)
  PROVE  preads(file, fin.records_start + RECORD_SIZE * (k - 1), "record")
           = {[kind |-> "record", srecord |-> Written(records[k])]}
<1>1. RecordExtent(k) \in file /\ ApartIn(file)
  BY KeptExtents DEF ShardInvariant, Apart
<1>2. /\ RecordExtent(k).off = fin.records_start + RECORD_SIZE * (k - 1)
      /\ RecordExtent(k).val = [kind |-> "record", srecord |-> Written(records[k])]
      /\ RecordExtent(k).val.kind = "record"
  BY DEF RecordExtent, At
<1> QED
  BY <1>1, <1>2, ReadsOne

\* The only header there can be is the one finish writes last.
LEMMA HeaderReads ==
  ASSUME ShardInvariant
  PROVE  preads(file, 0, "hdr") = IF fin.pc = "done" THEN {[kind |-> "hdr", hdr |-> HdrOf]} ELSE {}
<1>1. CASE fin.pc = "done"
  <2>1. HeaderExtent \in file /\ ApartIn(file)
    BY <1>1, KeptExtents DEF ShardInvariant, Apart
  <2>2. /\ HeaderExtent.off = 0 /\ HeaderExtent.val = [kind |-> "hdr", hdr |-> HdrOf]
        /\ HeaderExtent.val.kind = "hdr"
    BY DEF HeaderExtent, At
  <2> QED
    BY <1>1, <2>1, <2>2, ReadsOne
<1>2. CASE fin.pc # "done"
  <2>1. NoHeader(file)
    BY <1>2 DEF ShardInvariant, LaidOut, HeaderLast
  <2> QED
    BY <1>2, <2>1 DEF NoHeader, preads
<1> QED
  BY <1>1, <1>2

\* A file that can be opened is complete, and this is what the reader has.
LEMMA OpenedFile ==
  ASSUME ShardInvariant, NEW sf \in impl_v2_new(file)
  PROVE  fin.pc = "done" /\ sf = Opened
<1> DEFINE OpenedWith(v) ==
      [file |-> file, hdr |-> v.hdr,
       records |-> [k \in 1..v.hdr.records_length |->
         {w.srecord : w \in preads(file, v.hdr.records_start + RECORD_SIZE * (k - 1), "record")}]]
<1>1. PICK v \in preads(file, 0, "hdr") : sf = OpenedWith(v)
  BY DEF impl_v2_new
<1>2. fin.pc = "done" /\ v = [kind |-> "hdr", hdr |-> HdrOf]
  BY <1>1, HeaderReads
<1>3. v.hdr = HdrOf /\ v.hdr.records_length = Len(records) /\ v.hdr.records_start = fin.records_start
  BY <1>2 DEF HdrOf
<1>4. ASSUME NEW k \in 1..Len(records)
      PROVE  {w.srecord : w \in preads(file, fin.records_start + RECORD_SIZE * (k - 1), "record")}
               = {Written(records[k])}
  <2> DEFINE w0 == [kind |-> "record", srecord |-> Written(records[k])]
  <2>1. preads(file, fin.records_start + RECORD_SIZE * (k - 1), "record") = {w0}
    BY <1>2, RecordReads
  <2>2. w0.srecord = Written(records[k])
    OBVIOUS
  <2> HIDE DEF w0
  <2> QED
    BY <2>1, <2>2
<1>5. OpenedWith(v) = Opened
  BY <1>3, <1>4 DEF Opened
<1> QED
  BY <1>1, <1>2, <1>5

\* The entry and the blob header an index of the table leads to.
LEMMA TableReads ==
  ASSUME ShardInvariant, fin.pc = "done", FewAttached, NEW k \in 1..Len(records), NEW sf, sf.file = file
  PROVE  /\ Written(records[k]).blob_table_length = Len(records[k].blobs)
         /\ \A i \in 0..Len(records[k].blobs) - 1 :
              TableBlob(sf, Written(records[k]), i) = {blobs[records[k].blobs[i + 1]].sblob}
<1> DEFINE r == records[k]
           n == Len(r.blobs)
<1>0. ApartIn(file) /\ TypeOK /\ IdsOK /\ Few(records)
  BY DEF ShardInvariant, WriterInvariant, Apart, Filed
<1>1. r \in RecordEntry
  BY <1>0 DEF TypeOK
<1>2. n \in Nat /\ r.blobs \in Seq(Nat \ {0}) /\ r.blob_table_start \in Nat
  BY <1>1 DEF RecordEntry
<1>3. /\ Written(r).blob_table_length = n % UINT8_MOD /\ Written(r).blob_table_start = r.blob_table_start
  BY DEF Written
<1>4. n <= MaxAttach
  BY <1>0 DEF Few
<1>5. n % UINT8_MOD = n
  <2>1. n < UINT8_MOD
    BY <1>2, <1>4, WidthsAssumption, BoundsAssumption DEF FewAttached
  <2>2. \A x, m \in Nat : x < m => x % m = x
    OBVIOUS
  <2> QED
    BY <1>2, <2>1, <2>2, WidthsAssumption
<1>6. ASSUME NEW i \in 0..n - 1
      PROVE  TableBlob(sf, Written(r), i) = {blobs[r.blobs[i + 1]].sblob}
  <2> DEFINE b == blobs[r.blobs[i + 1]]
             e == EntryExtent(blobs, r, i + 1)
             h == BlobExtent(b)
  <2>1. i + 1 \in 1..n /\ i \in Nat
    BY <1>2
  <2>2. r.blobs[i + 1] \in 1..Len(blobs)
    <3>1. r.blobs[i + 1] \in Nat \ {0} /\ r.blobs[i + 1] <= Len(blobs) /\ Len(blobs) \in Nat
      BY <1>0, <1>2, <2>1 DEF IdsOK, TypeOK
    <3> QED
      BY <3>1
  <2>3. e \in file /\ h \in file
    BY <2>1, <2>2, KeptExtents DEF TableIn
  <2>4. e.off = r.blob_table_start + i * ENTRY_SIZE
    <3>1. e.off = r.blob_table_start + ENTRY_SIZE * ((i + 1) - 1)
      BY DEF EntryExtent, At
    <3>2. ENTRY_SIZE * ((i + 1) - 1) = i * ENTRY_SIZE
      BY <2>1 DEF ENTRY_SIZE
    <3> QED
      BY <3>1, <3>2
  <2>5. e.val = [kind |-> "entry", blob_start |-> b.offs] /\ e.val.kind = "entry" /\ e.val.blob_start = b.offs
    BY DEF EntryExtent, At
  <2>6. h.off = b.offs /\ h.val = [kind |-> "blob", sblob |-> b.sblob] /\ h.val.kind = "blob"
        /\ h.val.sblob = b.sblob
    BY DEF BlobExtent, At
  <2> HIDE DEF e, h, b
  <2>7. preads(file, r.blob_table_start + i * ENTRY_SIZE, "entry") = {e.val}
    BY <1>0, <2>3, <2>4, <2>5, ReadsOne
  <2>8. preads(file, b.offs, "blob") = {h.val}
    BY <1>0, <2>3, <2>6, ReadsOne
  <2> HIDE DEF r
  <2>9. TableBlob(sf, Written(r), i) = UNION {{x.sblob : x \in preads(file, y.blob_start, "blob")} : y \in {e.val}}
    BY <1>3, <2>7 DEF TableBlob
  <2>10. TableBlob(sf, Written(r), i) = {x.sblob : x \in preads(file, e.val.blob_start, "blob")}
    BY <2>9
  <2> QED
    BY <2>5, <2>6, <2>8, <2>10 DEF b
<1> QED
  BY <1>3, <1>5, <1>6

\* How many numbers there are in a range.
LEMMA CountUpTo == \A n \in Nat : Cardinality(1..n) = n /\ Cardinality(0..n - 1) = n
<1> SUFFICES ASSUME NEW n \in Nat
             PROVE  Cardinality(1..n) = n /\ Cardinality(0..n - 1) = n
  OBVIOUS
<1>1. Cardinality(1..n) = IF 1 > n THEN 0 ELSE n - 1 + 1
  BY FS_Interval
<1>2. n - 1 \in Int
  OBVIOUS
<1>3. Cardinality(0..n - 1) = IF 0 > n - 1 THEN 0 ELSE n - 1 - 0 + 1
  BY <1>2, FS_Interval
<1> QED
  BY <1>1, <1>3

\* The n-th of the first records is the n-th record.
LEMMA NthIs ==
  ASSUME NEW n \in Nat, NEW m \in 1..n
  PROVE  (CHOOSE k \in 1..n : Cardinality({j \in 1..n : j <= k}) = m) = m
<1>1. ASSUME NEW k \in 1..n
      PROVE  Cardinality({j \in 1..n : j <= k}) = k
  <2>1. {j \in 1..n : j <= k} = 1..k
    OBVIOUS
  <2>2. k \in Nat
    OBVIOUS
  <2> QED
    BY <2>1, <2>2, CountUpTo
<1> QED
  BY <1>1

\* list_records yields the records in table order.
LEMMA ListIs ==
  ASSUME ShardInvariant, NEW sf, sf = Opened
  PROVE  /\ Len(list_records(sf)) = Len(records)
         /\ \A n \in 1..Len(records) : list_records(sf)[n] = record_new(sf, Written(records[n]))
<1> DEFINE N == Len(records)
           live == {k \in 1..Len(sf.records) : \E r \in sf.records[k] : ~r.tombstone}
           nth(n) == CHOOSE k \in live : Cardinality({j \in live : j <= k}) = n
<1>0. N \in Nat
  BY DEF ShardInvariant, WriterInvariant, TypeOK
<1>1. Len(sf.records) = N /\ \A k \in 1..N : sf.records[k] = {Written(records[k])}
  BY <1>0 DEF Opened
<1>2. \A k \in 1..N : ~Written(records[k]).tombstone
  BY DEF Written
<1>3. live = 1..N
  BY <1>1, <1>2
<1>4. Cardinality(live) = N
  BY <1>0, <1>3, CountUpTo
<1>5. ASSUME NEW n \in 1..N
      PROVE  nth(n) = n
  <2>1. nth(n) = CHOOSE k \in 1..N : Cardinality({j \in 1..N : j <= k}) = n
    BY <1>3
  <2> HIDE DEF N
  <2> QED
    BY <1>0, <2>1, NthIs
<1>6. list_records(sf) = [n \in 1..Cardinality(live) |-> record_new(sf, CHOOSE r \in sf.records[nth(n)] : TRUE)]
  BY DEF list_records
<1> HIDE DEF live, nth
<1>7. list_records(sf) = [n \in 1..N |-> record_new(sf, CHOOSE r \in sf.records[nth(n)] : TRUE)]
  BY <1>4, <1>6
<1>8. ASSUME NEW n \in 1..N
      PROVE  list_records(sf)[n] = record_new(sf, Written(records[n]))
  <2>1. (CHOOSE r \in sf.records[nth(n)] : TRUE) = Written(records[n])
    <3>1. sf.records[nth(n)] = {Written(records[n])}
      BY <1>1, <1>5
    <3> QED
      BY <3>1
  <2> QED
    BY <1>7, <2>1
<1> QED
  BY <1>0, <1>7, <1>8

\* The m-th of the last indices is n - m.
LEMMA NthLast ==
  ASSUME NEW n \in Nat, NEW m \in 1..n
  PROVE  (CHOOSE i \in 0..n - 1 : Cardinality({j \in 0..n - 1 : j >= i}) = m) = n - m
<1>1. ASSUME NEW i \in 0..n - 1
      PROVE  Cardinality({j \in 0..n - 1 : j >= i}) = n - i
  <2>1. {j \in 0..n - 1 : j >= i} = i..n - 1
    OBVIOUS
  <2>2. i \in Int /\ n - 1 \in Int /\ ~(i > n - 1) /\ n - 1 - i + 1 = n - i
    OBVIOUS
  <2>3. Cardinality(i..n - 1) = IF i > n - 1 THEN 0 ELSE n - 1 - i + 1
    BY <2>2, FS_Interval
  <2> QED
    BY <2>1, <2>2, <2>3
<1>2. n - m \in 0..n - 1 /\ n - (n - m) = m
  OBVIOUS
<1>3. \A i \in 0..n - 1 : n - i = m => i = n - m
  OBVIOUS
<1> QED
  BY <1>1, <1>2, <1>3

\* The items the k-th record's table leads to, last first.
TableItems(sf, k) ==
  LET n == Len(records[k].blobs)
  IN  [m \in 1..n |-> blob_new(sf, blobs[records[k].blobs[n + 1 - m]].sblob)]

\* list_blobs yields one item for each entry of the record's table, last first.
LEMMA ItemsAre ==
  ASSUME ShardInvariant, fin.pc = "done", FewAttached, NEW sf, sf.file = file,
         NEW k \in 1..Len(records), NEW rec, rec.srecord = Written(records[k])
  PROVE  list_blobs(sf, rec) = TableItems(sf, k)
<1> DEFINE n == rec.srecord.blob_table_length
           readable == {i \in 0..n - 1 : TableBlob(sf, rec.srecord, i) # {}}
           nth(m) == CHOOSE i \in readable : Cardinality({j \in readable : j >= i}) = m
           first(m) == CHOOSE b \in TableBlob(sf, rec.srecord, nth(m)) : TRUE
<1>1. /\ n = Len(records[k].blobs)
      /\ \A i \in 0..n - 1 : TableBlob(sf, rec.srecord, i) = {blobs[records[k].blobs[i + 1]].sblob}
  <2>1. \A i \in 0..Len(records[k].blobs) - 1 :
          TableBlob(sf, Written(records[k]), i) = {blobs[records[k].blobs[i + 1]].sblob}
    BY TableReads
  <2>2. Written(records[k]).blob_table_length = Len(records[k].blobs)
    BY TableReads
  <2> QED
    BY <2>1, <2>2
<1>2. n \in Nat
  <2>1. records[k] \in RecordEntry
    BY DEF ShardInvariant, WriterInvariant, TypeOK
  <2> QED
    BY <1>1, <2>1 DEF RecordEntry
<1>3. readable = 0..n - 1
  BY <1>1
<1>4. Cardinality(readable) = n
  BY <1>2, <1>3, CountUpTo
<1>5. list_blobs(sf, rec) = [m \in 1..Cardinality(readable) |-> blob_new(sf, first(m))]
  BY DEF list_blobs
<1>6. ASSUME NEW m \in 1..n
      PROVE  first(m) = blobs[records[k].blobs[n + 1 - m]].sblob
  <2>1. nth(m) = n - m
    <3>1. nth(m) = CHOOSE i \in 0..n - 1 : Cardinality({j \in 0..n - 1 : j >= i}) = m
      BY <1>3
    <3> HIDE DEF n
    <3> QED
      BY <1>2, <3>1, NthLast
  <2> HIDE DEF n, nth
  <2>2. n - m \in 0..n - 1 /\ (n - m) + 1 = n + 1 - m
    BY <1>2
  <2>3. TableBlob(sf, rec.srecord, nth(m)) = {blobs[records[k].blobs[n + 1 - m]].sblob}
    BY <1>1, <2>1, <2>2
  <2> QED
    BY <2>3
<1> HIDE DEF readable, first, n
<1>7. list_blobs(sf, rec) = [m \in 1..n |-> blob_new(sf, first(m))]
  BY <1>4, <1>5
<1>8. list_blobs(sf, rec) = [m \in 1..n |-> blob_new(sf, blobs[records[k].blobs[n + 1 - m]].sblob)]
  BY <1>6, <1>7
<1> QED
  BY <1>1, <1>8 DEF TableItems

----------------------------------------------------------------------------
\* What a reader gets out of a complete file: offsets fit in a guint, content
\* types are read into 255 bytes, and one read of the converter stream takes
\* in all the compressed bytes.
PlacesFit == Fits /\ cpool.total_size < UINT_MOD

ShortTypes == \A r \in Requests : StrLen[r.content_type] < EOS_SHARD_V2_BLOB_MAX_CONTENT_TYPE_SIZE

OneRead == \A r \in Requests : r.zlib => SizeOf[Packed(r)] <= GIO_BUFFER

Complete == ShardInvariant /\ PlacesFit /\ fin.pc = "done" /\ FewAttached

\* The least element, once it is known.
LEMMA MinIs ==
  ASSUME NEW S \in SUBSET Nat, NEW m \in S, \A y \in S : m <= y
  PROVE  Min(S) = m
<1>1. \A x \in S : (\A y \in S : x <= y) => x = m
  OBVIOUS
<1> QED
  BY <1>1 DEF Min

\* The smaller of two.
LEMMA MinOfTwo == \A a, b \in Nat : a <= b => Min({a, b}) = a
<1> SUFFICES ASSUME NEW a \in Nat, NEW b \in Nat, a <= b
             PROVE  Min({a, b}) = a
  OBVIOUS
<1>1. {a, b} \in SUBSET Nat /\ a \in {a, b} /\ \A y \in {a, b} : a <= y
  OBVIOUS
<1> QED
  BY <1>1, MinIs

\* A string of the pool is read whole at its offset into a buffer it fits in.
LEMMA TextReads ==
  ASSUME Complete, NEW s \in Strings, InPool(cpool, s), NEW size \in Nat, StrLen[s] < size
  PROVE  lookup_string_constant(Opened, size, cpool.offsets[s]) = {[str |-> s, len |-> StrLen[s]]}
<1>1. PICK i \in 1..Len(cpool.strings) : cpool.strings[i] = s
  BY DEF InPool
<1> DEFINE e == StringExtent(i)
           v == [kind |-> "string", str |-> s]
<1>2. e \in file /\ ApartIn(file)
  BY KeptExtents DEF Complete, ShardInvariant, Apart
<1>3. e.off = fin.strings_start + cpool.offsets[s] /\ e.val = v /\ v.kind = "string" /\ v.str = s
  BY <1>1 DEF StringExtent, At, PoolPos
<1> HIDE DEF e, v
<1>4. preads(file, fin.strings_start + cpool.offsets[s], "string") = {v}
  BY <1>2, <1>3, ReadsOne
<1>5. Opened.file = file /\ Opened.hdr.string_constant_table_start = fin.strings_start
  BY DEF Opened, HdrOf
<1>6. Min({StrLen[s], size - 1}) = StrLen[s]
  <2>1. StrLen[s] \in Nat /\ size - 1 \in Nat /\ StrLen[s] <= size - 1
    <3>1. StrLen[s] \in Nat
      BY StringsAssumption
    <3> QED
      BY <3>1
  <2> QED
    BY <2>1, MinOfTwo
<1>7. lookup_string_constant(Opened, size, cpool.offsets[s])
        = {[str |-> w.str, len |-> Min({StrLen[w.str], size - 1})] : w \in {v}}
  BY <1>4, <1>5 DEF lookup_string_constant
<1> QED
  BY <1>3, <1>6, <1>7

\* A blob whose bytes are where it says is loaded whole.
LEMMA LoadsWhole ==
  ASSUME NEW f, NEW r \in Requests, r.zlib => SizeOf[Packed(r)] <= GIO_BUFFER,
         NEW x, x.flags = r.zlib, x.checksum = Packed(r), x.size = SizeOf[Packed(r)],
         x.uncompressed_size = SizeOf[r.content],
         x.size = 0 \/ At(x.offs, x.size, Data(x.checksum)) \in f
  PROVE  load_blob(f, x) = {[content |-> r.content, whole |-> TRUE]}
<1> DEFINE bytes == {c \in Contents : \/ x.size = 0 /\ SizeOf[c] = 0
                                      \/ At(x.offs, x.size, Data(c)) \in f}
           loaded(d) ==
             IF ~x.flags THEN {[content |-> d, whole |-> TRUE]}
             ELSE {[content |-> c, whole |-> x.size <= GIO_BUFFER /\ SizeOf[c] <= x.uncompressed_size] :
                     c \in {y \in Plain : Zlib[y] = d}}
<1>1. load_blob(f, x) = UNION {loaded(d) : d \in Intact(bytes, x)}
  BY DEF load_blob
<1>2. Packed(r) \in Contents /\ SizeOf[r.content] \in Nat
  BY PackedType
<1>3. Intact(bytes, x) = {Packed(r)}
  BY <1>2 DEF Intact
<1>4. loaded(Packed(r)) = {[content |-> r.content, whole |-> TRUE]}
  <2>1. CASE ~r.zlib
    <3>1. Packed(r) = r.content
      BY <2>1 DEF Packed
    <3> QED
      BY <2>1, <3>1
  <2>2. CASE r.zlib
    <3>1. Packed(r) = Zlib[r.content] /\ r.content \in Plain
      BY <2>2, RequestsAssumption DEF Packed
    <3>2. {y \in Plain : Zlib[y] = Packed(r)} = {r.content}
      BY <3>1, ContentsAssumption
    <3>3. x.size <= GIO_BUFFER /\ SizeOf[r.content] <= x.uncompressed_size
      BY <1>2, <2>2
    <3>4. loaded(Packed(r)) = {[content |-> c, whole |-> x.size <= GIO_BUFFER /\ SizeOf[c] <= x.uncompressed_size] :
                                 c \in {r.content}}
      BY <2>2, <3>2
    <3> HIDE DEF loaded
    <3> QED
      BY <3>3, <3>4
  <2>3. r.zlib \in BOOLEAN
    BY RequestsAssumption
  <2> QED
    BY <2>1, <2>2, <2>3
<1> HIDE DEF bytes, loaded
<1>5. load_blob(f, x) = UNION {loaded(d) : d \in {Packed(r)}}
  BY <1>1, <1>3
<1> QED
  BY <1>4, <1>5

\* In a complete file every entry was asked for, and its bytes are there.
LEMMA AllAsked ==
  ASSUME Complete
  PROVE  /\ DOMAIN asked = 1..Len(blobs)
         /\ \A i \in 1..Len(blobs) :
              LET b == blobs[i].sblob
              IN  /\ AskedIn(i) /\ b.size = SizeOf[b.csum]
                  /\ b.size = 0 \/ At(b.data_start, b.size, Data(b.csum)) \in file
<1>1. \A t \in Threads : thread[t].pc = "idle"
  BY DEF Complete, ShardInvariant, WriterInvariant, Layout, Quiet
<1>2. \A i : Published(i)
  BY <1>1 DEF Published
<1>3. DOMAIN asked = 1..Len(blobs) /\ \A i \in 1..Len(blobs) : AskedIn(i)
  BY <1>2 DEF Complete, ShardInvariant, Asked
<1>4. DataIntact
  <2>1. TypeOK /\ Stored
    BY DEF Complete, PlacesFit, ShardInvariant, WriterInvariant
  <2> QED
    BY <2>1, StoredIntact
<1>5. ASSUME NEW i \in 1..Len(blobs)
      PROVE  /\ blobs[i].sblob.size = SizeOf[blobs[i].sblob.csum]
             /\ \/ blobs[i].sblob.size = 0
                \/ At(blobs[i].sblob.data_start, blobs[i].sblob.size, Data(blobs[i].sblob.csum)) \in file
  BY <1>1, <1>2, <1>4 DEF DataIntact, BlobIntact
<1> QED
  BY <1>3, <1>5

\* The item of a blob is as it was asked for.
LEMMA BlobListed ==
  ASSUME Complete, ShortTypes, NEW i \in 1..Len(blobs)
  PROVE  blob_new(Opened, blobs[i].sblob) = Listed(i)
<1> DEFINE b == blobs[i].sblob
           r == asked[i]
<1>1. r \in Requests /\ BlobFor(cpool, blobs[i], r)
  BY AllAsked DEF AskedIn
<1>2. /\ b.flags = r.zlib /\ b.csum = Packed(r) /\ b.uncompressed_size = SizeOf[r.content]
      /\ InPool(cpool, r.content_type) /\ b.content_type_offs = cpool.offsets[r.content_type]
  BY <1>1 DEF BlobFor, Texts, Complete, PlacesFit
<1>3. b.size = SizeOf[Packed(r)]
  BY <1>2, AllAsked
<1>4. CASE SizeOf[r.content] = 0
  BY <1>2, <1>4 DEF blob_new, Listed
<1>5. CASE SizeOf[r.content] # 0
  <2> DEFINE ct == [str |-> r.content_type, len |-> StrLen[r.content_type]]
  <2>1. lookup_string_constant(Opened, EOS_SHARD_V2_BLOB_MAX_CONTENT_TYPE_SIZE, b.content_type_offs) = {ct}
    <3>1. r.content_type \in Strings /\ StrLen[r.content_type] < EOS_SHARD_V2_BLOB_MAX_CONTENT_TYPE_SIZE
          /\ EOS_SHARD_V2_BLOB_MAX_CONTENT_TYPE_SIZE \in Nat
      BY <1>1, RequestsAssumption DEF ShortTypes, EOS_SHARD_V2_BLOB_MAX_CONTENT_TYPE_SIZE
    <3> HIDE DEF r, b
    <3> QED
      BY <1>2, <3>1, TextReads
  <2> HIDE DEF ct
  <2>2. blob_new(Opened, b) =
          {[flags |-> b.flags, checksum |-> b.csum, size |-> b.size,
            uncompressed_size |-> b.uncompressed_size, offs |-> b.data_start, content_type |-> c] : c \in {ct}}
    BY <1>2, <1>5, <2>1 DEF blob_new
  <2> HIDE DEF b, r
  <2>3. blob_new(Opened, b) =
          {[flags |-> b.flags, checksum |-> b.csum, size |-> b.size,
            uncompressed_size |-> b.uncompressed_size, offs |-> b.data_start, content_type |-> ct]}
    BY <2>2
  <2>4. blob_new(Opened, b) =
          {[flags |-> r.zlib, checksum |-> Packed(r), size |-> SizeOf[Packed(r)],
            uncompressed_size |-> SizeOf[r.content], offs |-> b.data_start, content_type |-> ct]}
    BY <1>2, <1>3, <2>3
  <2> QED
    BY <1>5, <2>4 DEF Listed, b, r, ct
<1> QED
  BY <1>4, <1>5

\* The reader's view of a blob is that of what was asked for.
LEMMA BlobSeen ==
  ASSUME Complete, ShortTypes, OneRead, NEW i \in 1..Len(blobs)
  PROVE  SeenBlob(file, blob_new(Opened, blobs[i].sblob)) = Archive!BlobView(asked[i])
<1> DEFINE b == blobs[i].sblob
           r == asked[i]
<1>1. r \in Requests /\ BlobFor(cpool, blobs[i], r)
  BY AllAsked DEF AskedIn
<1>2. b.csum = Packed(r)
  BY <1>1 DEF BlobFor
<1>3. /\ b.size = SizeOf[b.csum]
      /\ b.size = 0 \/ At(b.data_start, b.size, Data(b.csum)) \in file
  BY AllAsked
<1>4. CASE SizeOf[r.content] = 0
  <2>1. blob_new(Opened, b) = {}
    BY <1>4, BlobListed DEF Listed
  <2> QED
    BY <1>4, <2>1 DEF SeenBlob, Archive!BlobView
<1>5. CASE SizeOf[r.content] # 0
  <2> DEFINE ct == [str |-> r.content_type, len |-> StrLen[r.content_type]]
             x == [flags |-> r.zlib, checksum |-> Packed(r), size |-> SizeOf[Packed(r)],
                   uncompressed_size |-> SizeOf[r.content], offs |-> b.data_start,
                   content_type |-> ct]
  <2>1. blob_new(Opened, b) = {x}
    BY <1>5, BlobListed DEF Listed
  <2>2. x.flags = r.zlib /\ x.checksum = Packed(r) /\ x.size = SizeOf[Packed(r)] /\ x.offs = b.data_start
        /\ x.uncompressed_size = SizeOf[r.content] /\ x.content_type = ct
    OBVIOUS
  <2> HIDE DEF x, ct, b
  <2>4. load_blob(file, x) = {[content |-> r.content, whole |-> TRUE]}
    <3>1. r.zlib => SizeOf[Packed(r)] <= GIO_BUFFER
      BY <1>1 DEF OneRead
    <3>2. x.size = 0 \/ At(x.offs, x.size, Data(x.checksum)) \in file
      BY <1>2, <1>3, <2>2
    <3> HIDE DEF r
    <3> QED
      BY <1>1, <2>2, <3>1, <3>2, LoadsWhole
  <2>5. SeenBlob(file, {x}) = {[content_type |-> x.content_type, contents |-> load_blob(file, x)]}
    BY DEF SeenBlob
  <2> QED
    BY <1>5, <2>1, <2>2, <2>4, <2>5 DEF Archive!BlobView, ct, b
<1> QED
  BY <1>4, <1>5

----------------------------------------------------------------------------
\* A stable sort keeps the first of those with one key first.
FirstOf(L, key, q, m) == \A j \in 1..L : key[q[j]] = key[q[m]] => m <= j

\* The first place with a key holds the first element with that key.
LEMMA FirstStays ==
  ASSUME NEW L \in Nat, NEW key \in [1..L -> Nat], NEW q \in SortedBy(L, key), NEW m \in 1..L,
         FirstOf(L, key, q, m)
  PROVE  q[m] \in 1..L /\ \A k \in 1..L : key[k] = key[q[m]] => q[m] <= k
<1>1. q \in Reorders(L) /\ q \in [1..L -> 1..L]
  BY DEF SortedBy, Reorders
<1>2. q[m] \in 1..L /\ key[q[m]] \in Nat
  BY <1>1
<1>2a. \A k \in 1..L : \E j \in 1..L : q[j] = k
  BY <1>1, Onto
<1>3. ASSUME NEW k \in 1..L, key[k] = key[q[m]]
      PROVE  q[m] <= k
  <2>1. PICK j \in 1..L : q[j] = k
    BY <1>2a
  <2>2. m <= j
    BY <1>3, <2>1 DEF FirstOf
  <2>3. CASE m = j
    BY <1>2, <2>1, <2>3
  <2>4. CASE m # j
    <3>1. m < j
      BY <2>2, <2>4
    <3>2. key[q[m]] < key[q[j]] \/ (key[q[m]] = key[q[j]] /\ q[m] < q[j])
      BY <3>1 DEF SortedBy
    <3>3. ~(key[q[m]] < key[q[j]])
      BY <1>2, <1>3, <2>1
    <3> QED
      BY <1>2, <2>1, <3>2, <3>3
  <2> QED
    BY <2>3, <2>4
<1> QED
  BY <1>2, <1>3

\* The blobs find_blob takes for the i-th entry's, and the entries that have
\* one.
EntryMatches(sf, srecord, name, i) ==
  {b \in TableBlob(sf, srecord, i) :
    \E s \in lookup_string_constant(sf, EOS_SHARD_V2_BLOB_MAX_NAME_SIZE + 1, b.name_offs) :
       s = [str |-> name, len |-> StrLen[name]]}

Hits(sf, srecord, name) ==
  {i \in 0..srecord.blob_table_length - 1 : EntryMatches(sf, srecord, name, i) # {}}

\* find_blob in these terms.
LEMMA FindBlobIs ==
  ASSUME NEW sf, NEW srecord, NEW name
  PROVE  find_blob(sf, srecord, name) =
           IF Hits(sf, srecord, name) = {} THEN {}
           ELSE EntryMatches(sf, srecord, name, Min(Hits(sf, srecord, name)))
  BY DEF find_blob, Hits, EntryMatches

\* An entry is found under the name its blob was added with.
LEMMA EntryMatched ==
  ASSUME Complete, NEW k \in 1..Len(records), NEW i \in 0..Len(records[k].blobs) - 1, NEW name,
         records[k].blobs[i + 1] \in 1..Len(blobs)
  PROVE  LET b == records[k].blobs[i + 1]
         IN  EntryMatches(Opened, Written(records[k]), name, i) =
               IF asked[b].name = name THEN {blobs[b].sblob} ELSE {}
<1> DEFINE b == records[k].blobs[i + 1]
           r == asked[b]
           w == Written(records[k])
           x == blobs[b].sblob
           v == [str |-> r.name, len |-> StrLen[r.name]]
<1>1. r \in Requests /\ BlobFor(cpool, blobs[b], r)
  BY AllAsked DEF AskedIn
<1>2. /\ InPool(cpool, r.name) /\ x.name_offs = cpool.offsets[r.name]
      /\ StrLen[r.name] <= EOS_SHARD_V2_BLOB_MAX_NAME_SIZE /\ r.name \in Strings
  BY <1>1, RequestsAssumption DEF BlobFor, Texts, Complete, PlacesFit
<1>3. TableBlob(Opened, w, i) = {x}
  <2>1. ShardInvariant /\ fin.pc = "done" /\ FewAttached /\ Opened.file = file
    BY DEF Complete, Opened
  <2> QED
    BY <2>1, TableReads
<1>4. lookup_string_constant(Opened, EOS_SHARD_V2_BLOB_MAX_NAME_SIZE + 1, x.name_offs) = {v}
  <2>1. StrLen[r.name] < EOS_SHARD_V2_BLOB_MAX_NAME_SIZE + 1 /\ EOS_SHARD_V2_BLOB_MAX_NAME_SIZE + 1 \in Nat
    <3>1. StrLen[r.name] \in Nat
      BY <1>2, StringsAssumption
    <3>2. \A n \in Nat : n <= 255 => n < 255 + 1 /\ 255 + 1 \in Nat
      OBVIOUS
    <3> QED
      BY <1>2, <3>1, <3>2 DEF EOS_SHARD_V2_BLOB_MAX_NAME_SIZE
  <2> HIDE DEF r, x
  <2> QED
    BY <1>2, <2>1, TextReads
<1> HIDE DEF x, w
<1>5. v = [str |-> name, len |-> StrLen[name]] <=> r.name = name
  OBVIOUS
<1> HIDE DEF v
<1>6. EntryMatches(Opened, w, name, i) =
        {y \in {x} : \E s \in lookup_string_constant(Opened, EOS_SHARD_V2_BLOB_MAX_NAME_SIZE + 1, y.name_offs) :
                       s = [str |-> name, len |-> StrLen[name]]}
  BY <1>3 DEF EntryMatches
<1>7. (\E s \in lookup_string_constant(Opened, EOS_SHARD_V2_BLOB_MAX_NAME_SIZE + 1, x.name_offs) :
          s = [str |-> name, len |-> StrLen[name]]) <=> r.name = name
  BY <1>4, <1>5
<1>8. EntryMatches(Opened, w, name, i) = IF r.name = name THEN {x} ELSE {}
  BY <1>6, <1>7
<1> QED
  BY <1>8 DEF x, w

\* What a record's table looks like, next to the shelf it came from: q says
\* where write_blob_table put what.
TableFor(k, s, q) ==
  /\ records[k].blobs = Reordered(s.blobs, q)
  /\ s \in ShelfEntry
  /\ q \in SortedBy(Len(s.blobs), Names(blobs, s.blobs))

\* In a complete file every record has a shelf its table was made from.
LEMMA ShelfOut ==
  ASSUME Complete, NEW p, FiledBy(p), NEW k \in 1..Len(records)
  PROVE  /\ \E q : TableFor(k, shelves[p[k]], q)
         /\ records[k].raw_name = shelves[p[k]].raw_name /\ p[k] \in 1..Len(shelves)
         /\ Len(shelves) = Len(records)
<1>1. Row(k, shelves[p[k]]) /\ TableOut(k)
  BY DEF FiledBy, Complete, TableOut, After
<1>2. shelves \in Seq(ShelfEntry) /\ Len(shelves) = Len(records)
  BY DEF Complete, ShardInvariant, Filed
<1>3. p[k] \in 1..Len(records)
  BY DEF FiledBy, Reorders
<1>4. shelves[p[k]] \in ShelfEntry
  BY <1>2, <1>3
<1> QED
  BY <1>1, <1>2, <1>3, <1>4 DEF Row, SortedOf, TableFor

\* The places of a table hold blobs, and blobs have names.
LEMMA TableTypes ==
  ASSUME Complete, NEW k \in 1..Len(records), NEW s, NEW q, TableFor(k, s, q)
  PROVE  /\ Len(s.blobs) \in Nat /\ Len(records[k].blobs) = Len(s.blobs)
         /\ q \in [1..Len(s.blobs) -> 1..Len(s.blobs)] /\ q \in Reorders(Len(s.blobs))
         /\ \A m \in 1..Len(s.blobs) : /\ records[k].blobs[m] = s.blobs[q[m]]
                                       /\ records[k].blobs[m] \in 1..Len(blobs)
         /\ Names(blobs, s.blobs) \in [1..Len(s.blobs) -> Nat]
         /\ \A m \in 1..Len(s.blobs) : Names(blobs, s.blobs)[m] = asked[s.blobs[m]].name
<1> DEFINE L == Len(s.blobs)
<1>1. L \in Nat /\ s.blobs \in Seq(Nat \ {0})
  BY DEF TableFor, ShelfEntry
<1>2. q \in [1..L -> 1..L] /\ q \in Reorders(L)
  BY DEF TableFor, SortedBy, Reorders
<1>3. Len(records[k].blobs) = L /\ \A m \in 1..L : records[k].blobs[m] = s.blobs[q[m]]
  BY <1>1, <1>2, ReorderedType DEF TableFor, Reordered
<1>4. \A m \in 1..L : records[k].blobs[m] \in 1..Len(blobs)
  <2>1. IdsOK /\ TypeOK
    BY DEF Complete, ShardInvariant, WriterInvariant
  <2>2. Len(blobs) \in Nat
    BY <2>1 DEF TypeOK
  <2> SUFFICES ASSUME NEW m \in 1..L
               PROVE  records[k].blobs[m] \in 1..Len(blobs)
    OBVIOUS
  <2>3. records[k].blobs[m] \in Nat \ {0}
    <3>1. \A j \in 1..L : s.blobs[j] \in Nat \ {0}
      BY <1>1
    <3>2. q[m] \in 1..L
      BY <1>2
    <3> HIDE DEF L
    <3> QED
      BY <1>3, <3>1, <3>2
  <2>4. records[k].blobs[m] <= Len(blobs)
    BY <1>3, <2>1 DEF IdsOK
  <2> QED
    BY <2>2, <2>3, <2>4
<1>5. ASSUME NEW m \in 1..L
      PROVE  Names(blobs, s.blobs)[m] = asked[s.blobs[m]].name /\ asked[s.blobs[m]].name \in Nat
  <2>1. PICK j \in 1..L : q[j] = m
    BY <1>1, <1>2, Onto
  <2>2. s.blobs[m] \in 1..Len(blobs)
    BY <1>3, <1>4, <2>1
  <2>3. AskedIn(s.blobs[m])
    BY <2>2, AllAsked
  <2>4. asked[s.blobs[m]].name \in Nat
    BY <2>3, RequestsAssumption, StringsAssumption DEF AskedIn
  <2> QED
    BY <2>3, <2>4 DEF AskedIn, BlobFor, Names
<1>6. Names(blobs, s.blobs) \in [1..L -> Nat]
  BY <1>5 DEF Names
<1> HIDE DEF L
<1>7. \A m \in 1..L : Names(blobs, s.blobs)[m] = asked[s.blobs[m]].name
  BY <1>5
<1> QED
  BY <1>1, <1>2, <1>3, <1>4, <1>6, <1>7 DEF L

\* What find_blob finds, by the names asked for.
HitsFor(k, s, q, name) ==
  /\ Hits(Opened, Written(records[k]), name)
       = {i \in 0..Len(s.blobs) - 1 : asked[s.blobs[q[i + 1]]].name = name}
  /\ \A i \in Hits(Opened, Written(records[k]), name) :
       EntryMatches(Opened, Written(records[k]), name, i) = {blobs[s.blobs[q[i + 1]]].sblob}

\* The entries find_blob matches are those of the blobs asked for under the
\* name.
LEMMA HitsAre ==
  ASSUME Complete, NEW k \in 1..Len(records), NEW s, NEW q, TableFor(k, s, q), NEW name
  PROVE  HitsFor(k, s, q, name)
<1> DEFINE L == Len(s.blobs)
           w == Written(records[k])
<1>1. L \in Nat /\ Len(records[k].blobs) = L
      /\ \A m \in 1..L : records[k].blobs[m] = s.blobs[q[m]] /\ records[k].blobs[m] \in 1..Len(blobs)
  BY TableTypes
<1>2. w.blob_table_length = L
  <2>1. ShardInvariant /\ fin.pc = "done" /\ FewAttached /\ Opened.file = file
    BY DEF Complete, Opened
  <2>2. w.blob_table_length = Len(records[k].blobs)
    BY <2>1, TableReads
  <2> QED
    BY <1>1, <2>2
<1>3. ASSUME NEW i \in 0..L - 1
      PROVE  EntryMatches(Opened, w, name, i) =
               IF asked[s.blobs[q[i + 1]]].name = name THEN {blobs[s.blobs[q[i + 1]]].sblob} ELSE {}
  <2>1. i + 1 \in 1..L /\ i \in 0..Len(records[k].blobs) - 1
    BY <1>1
  <2>2. records[k].blobs[i + 1] = s.blobs[q[i + 1]] /\ records[k].blobs[i + 1] \in 1..Len(blobs)
    BY <1>1, <2>1
  <2> HIDE DEF L
  <2> QED
    BY <2>1, <2>2, EntryMatched
<1> HIDE DEF L, w
<1>4. Hits(Opened, w, name) = {i \in 0..L - 1 : EntryMatches(Opened, w, name, i) # {}}
  BY <1>2 DEF Hits
<1>5. Hits(Opened, w, name) = {i \in 0..L - 1 : asked[s.blobs[q[i + 1]]].name = name}
  BY <1>3, <1>4
<1>6. \A i \in Hits(Opened, w, name) :
        EntryMatches(Opened, w, name, i) = {blobs[s.blobs[q[i + 1]]].sblob}
  BY <1>3, <1>5
<1> QED
  BY <1>5, <1>6 DEF L, w, HitsFor

\* A reader finds under a name the first blob attached under it.
LEMMA NamedSeen ==
  ASSUME Complete, ShortTypes, OneRead, NEW k \in 1..Len(records), NEW s, NEW q, TableFor(k, s, q),
         NEW name
  PROVE  SeenBlob(file, read_blob(Opened, Written(records[k]), name)) = Archive!Named(s, name)
<1> DEFINE L == Len(s.blobs)
           w == Written(records[k])
           hits == Hits(Opened, w, name)
           ks == {j \in 1..L : asked[s.blobs[j]].name = name}
<1>1. /\ L \in Nat /\ q \in [1..L -> 1..L] /\ q \in Reorders(L)
      /\ \A m \in 1..L : s.blobs[q[m]] \in 1..Len(blobs)
      /\ Names(blobs, s.blobs) \in [1..L -> Nat]
      /\ \A m \in 1..L : Names(blobs, s.blobs)[m] = asked[s.blobs[m]].name
  <2> HIDE DEF L
  <2> QED
    BY TableTypes DEF L
<1>2. q \in SortedBy(L, Names(blobs, s.blobs))
  BY DEF TableFor
<1>3. /\ hits = {i \in 0..L - 1 : asked[s.blobs[q[i + 1]]].name = name}
      /\ \A i \in hits : EntryMatches(Opened, w, name, i) = {blobs[s.blobs[q[i + 1]]].sblob}
  <2>1. HitsFor(k, s, q, name)
    BY HitsAre
  <2> QED
    BY <2>1 DEF HitsFor
<1>4. Archive!Named(s, name) =
        IF ks = {} THEN {} ELSE Archive!BlobView(asked[s.blobs[Min(ks)]])
  BY DEF Archive!Named, Archive!Min, Min
<1> HIDE DEF L, w, hits
<1>5. CASE hits = {}
  <2>1. \A j \in 1..L : \E m \in 1..L : q[m] = j
    BY <1>1, Onto
  <2>2. \A m \in 1..L : m - 1 \in 0..L - 1 /\ (m - 1) + 1 = m
    BY <1>1
  <2>6. \A m \in 1..L : asked[s.blobs[q[m]]].name # name
    <3> SUFFICES ASSUME NEW m \in 1..L
                 PROVE  asked[s.blobs[q[m]]].name # name
      OBVIOUS
    <3>1. ~(m - 1 \in hits)
      BY <1>5
    <3> QED
      BY <1>3, <2>2, <3>1
  <2>3. ks = {}
    BY <2>1, <2>6
  <2>4. read_blob(Opened, w, name) = {}
    BY <1>5, FindBlobIs DEF read_blob, hits
  <2> QED
    BY <1>4, <2>3, <2>4 DEF SeenBlob, w
<1>6. CASE hits # {}
  <2>1. hits \subseteq Nat
    BY <1>1, <1>3
  <2>2. PICK i \in hits : \A j \in hits : i <= j
    BY <1>6, <2>1, LeastNatural
  <2>3. Min(hits) = i
    BY <2>1, <2>2, MinIs
  <2>4. i \in Nat /\ i + 1 \in 1..L /\ asked[s.blobs[q[i + 1]]].name = name
    BY <1>1, <1>3, <2>2
  <2> DEFINE m == i + 1
             key == Names(blobs, s.blobs)
  <2>5. q[m] \in 1..L /\ \A j \in 1..L : key[j] = key[q[m]] => q[m] <= j
    <3>1. ASSUME NEW j \in 1..L, key[q[j]] = key[q[m]]
          PROVE  m <= j
      <4>1. asked[s.blobs[q[j]]].name = name
        BY <1>1, <2>4, <3>1
      <4>2. j - 1 \in 0..L - 1 /\ (j - 1) + 1 = j /\ j \in Int
        BY <1>1
      <4>3. j - 1 \in hits
        BY <1>3, <4>1, <4>2
      <4>4. i <= j - 1
        BY <2>2, <4>3
      <4> QED
        BY <2>4, <4>2, <4>4
    <3> HIDE DEF m, key
    <3> QED
      <4>1. FirstOf(L, key, q, m)
        BY <3>1 DEF FirstOf
      <4>2. m \in 1..L /\ q \in SortedBy(L, key) /\ key \in [1..L -> Nat] /\ L \in Nat
        BY <1>1, <1>2, <2>4 DEF m, key
      <4> QED
        BY <4>1, <4>2, FirstStays
  <2>6. q[m] \in ks /\ \A j \in ks : q[m] <= j
    BY <1>1, <2>4, <2>5
  <2>7. ks \in SUBSET Nat
    OBVIOUS
  <2> HIDE DEF ks, m, key
  <2>8. Min(ks) = q[m]
    BY <2>6, <2>7, MinIs
  <2>9. ks # {}
    BY <2>6
  <2> DEFINE b == s.blobs[q[m]]
  <2>10. Archive!Named(s, name) = Archive!BlobView(asked[b])
    BY <1>4, <2>8, <2>9
  <2>11. find_blob(Opened, w, name) = {blobs[b].sblob}
    BY <1>3, <1>6, <2>2, <2>3, FindBlobIs DEF hits, m
  <2>12. read_blob(Opened, w, name) = blob_new(Opened, blobs[b].sblob)
    BY <2>11 DEF read_blob
  <2>13. b \in 1..Len(blobs)
    BY <1>1, <2>4 DEF m
  <2> HIDE DEF b
  <2>14. SeenBlob(file, blob_new(Opened, blobs[b].sblob)) = Archive!BlobView(asked[b])
    BY <2>13, BlobSeen
  <2> QED
    BY <2>10, <2>12, <2>14 DEF w
<1> QED
  BY <1>5, <1>6

----------------------------------------------------------------------------
\* What list_blobs yields is what is on the shelf.
LEMMA ItemsListed ==
  ASSUME Complete, ShortTypes, NEW k \in 1..Len(records), NEW s, NEW q, TableFor(k, s, q),
         NEW rec, rec.srecord = Written(records[k])
  PROVE  ListOf(list_blobs(Opened, rec), s.blobs)
<1> DEFINE n == Len(s.blobs)
           key == [j \in 1..n |-> asked[s.blobs[j]].name]
<1>1. /\ n \in Nat /\ Len(records[k].blobs) = n /\ q \in [1..n -> 1..n]
      /\ \A m \in 1..n : /\ records[k].blobs[m] = s.blobs[q[m]]
                          /\ records[k].blobs[m] \in 1..Len(blobs)
      /\ Names(blobs, s.blobs) \in [1..n -> Nat]
      /\ \A m \in 1..n : Names(blobs, s.blobs)[m] = asked[s.blobs[m]].name
  <2> HIDE DEF n
  <2> QED
    BY TableTypes DEF n
<1>2. q \in SortedBy(n, key)
  <2>1. Names(blobs, s.blobs) = key
    BY <1>1
  <2> QED
    BY <2>1 DEF TableFor
<1>3. list_blobs(Opened, rec) = [m \in 1..n |-> blob_new(Opened, blobs[records[k].blobs[n + 1 - m]].sblob)]
  <2>1. ShardInvariant /\ fin.pc = "done" /\ FewAttached /\ Opened.file = file
    BY DEF Complete, Opened
  <2>2. list_blobs(Opened, rec) = TableItems(Opened, k)
    BY <2>1, ItemsAre
  <2> HIDE DEF n
  <2> QED
    BY <1>1, <2>2 DEF TableItems
<1>4. ASSUME NEW m \in 1..n
      PROVE  blob_new(Opened, blobs[records[k].blobs[n + 1 - m]].sblob) = Listed(s.blobs[q[n + 1 - m]])
  <2>1. n + 1 - m \in 1..n
    BY <1>1
  <2>2. records[k].blobs[n + 1 - m] = s.blobs[q[n + 1 - m]] /\ records[k].blobs[n + 1 - m] \in 1..Len(blobs)
    BY <1>1, <2>1
  <2> HIDE DEF n
  <2> QED
    BY <2>2, BlobListed
<1>5. list_blobs(Opened, rec) = [m \in 1..n |-> Listed(s.blobs[q[n + 1 - m]])]
  BY <1>3, <1>4
<1> QED
  BY <1>2, <1>5 DEF ListOf

\* list_records yields every record added once, in the order of the raw names,
\* and list_blobs every blob attached to it once, in the reverse order of
\* their names, as it was asked for and with the place of its bytes, with any
\* number of threads and in whatever order they added what.
THEOREM ListsAreComplete ==
  ASSUME FewAttached, ShortTypes
  PROVE  ShardSpec /\ []PlacesFit => []ListsComplete
<1>1. ASSUME ShardInvariant, PlacesFit
      PROVE  ListsComplete
  <2> SUFFICES ASSUME NEW sf \in impl_v2_new(file)
               PROVE  LET listed == list_records(sf)
                          it(n) == CHOOSE r \in listed[n] : TRUE
                      IN  /\ Len(listed) = Len(shelves)
                          /\ \A n \in 1..Len(listed) : listed[n] # {}
                          /\ \A n \in 2..Len(listed) : it(n - 1).raw_name <= it(n).raw_name
                          /\ \A x \in RawNames :
                               LET mine == {n \in 1..Len(listed) : it(n).raw_name = x}
                                   theirs == {k \in 1..Len(shelves) : shelves[k].raw_name = x}
                               IN  \E m \in [mine -> theirs] :
                                     /\ \A i, j \in mine : i # j => m[i] # m[j]
                                     /\ {m[i] : i \in mine} = theirs
                                     /\ \A n \in mine : ListOf(list_blobs(sf, it(n)), shelves[m[n]].blobs)
    BY DEF ListsComplete
  <2> DEFINE listed == list_records(sf)
             it(n) == CHOOSE r \in listed[n] : TRUE
             N == Len(records)
  <2>0. fin.pc = "done" /\ sf = Opened /\ sf.file = file /\ Complete
    BY <1>1, OpenedFile DEF Opened, Complete
  <2>1. N \in Nat /\ Len(shelves) = N /\ shelves \in Seq(ShelfEntry) /\ RawSorted(records)
    BY <1>1, <2>0 DEF ShardInvariant, WriterInvariant, TypeOK, Filed
  <2>2. PICK p : FiledBy(p)
    BY <1>1, <2>0 DEF ShardInvariant, Filed
  <2>3. p \in Reorders(N) /\ p \in [1..N -> 1..N] /\ \A i, j \in 1..N : i # j => p[i] # p[j]
    BY <2>2 DEF FiledBy, Reorders
  <2>4. Len(listed) = N /\ \A n \in 1..N : listed[n] = record_new(sf, Written(records[n]))
    BY <1>1, <2>0, ListIs
  <2>5. ASSUME NEW n \in 1..N
        PROVE  listed[n] # {} /\ it(n).raw_name = records[n].raw_name /\ it(n).srecord = Written(records[n])
    <3> DEFINE w == Written(records[n])
               x == [raw_name |-> w.raw_name, srecord |-> w,
                     metadata |-> read_blob(sf, w, METADATA), data |-> read_blob(sf, w, DATA)]
    <3>1. ~w.tombstone /\ w.raw_name = records[n].raw_name
      BY DEF Written
    <3>2. listed[n] = {x}
      <4>1. listed[n] = record_new(sf, w)
        BY <2>4
      <4> HIDE DEF w, listed
      <4> QED
        BY <3>1, <4>1 DEF record_new
    <3>3. x.raw_name = w.raw_name /\ x.srecord = w
      OBVIOUS
    <3>4. it(n) = x
      BY <3>2
    <3> HIDE DEF x, it, listed
    <3> QED
      BY <3>1, <3>2, <3>3, <3>4
  <2>7. ASSUME NEW n \in 1..N
        PROVE  /\ records[n].raw_name = shelves[p[n]].raw_name
               /\ ListOf(list_blobs(sf, it(n)), shelves[p[n]].blobs)
    <3>1. PICK q : TableFor(n, shelves[p[n]], q)
      BY <2>0, <2>2, ShelfOut
    <3>2. it(n).srecord = Written(records[n])
      BY <2>5
    <3> HIDE DEF it
    <3>3. ListOf(list_blobs(sf, it(n)), shelves[p[n]].blobs)
      BY <2>0, <3>1, <3>2, ItemsListed
    <3> QED
      BY <2>0, <2>2, <3>3, ShelfOut
  <2> HIDE DEF listed, it, N
  <2>8. ASSUME NEW n \in 2..Len(listed)
        PROVE  it(n - 1).raw_name <= it(n).raw_name
    <3>1. n \in 1..N /\ n - 1 \in 1..N /\ n - 1 < n
      BY <2>1, <2>4
    <3>2. records[n - 1].raw_name <= records[n].raw_name
      BY <2>1, <3>1 DEF RawSorted, N
    <3> QED
      BY <2>5, <3>1, <3>2
  <2>9. ASSUME NEW x \in RawNames
        PROVE  \E m \in [{n \in 1..Len(listed) : it(n).raw_name = x} ->
                         {k \in 1..Len(shelves) : shelves[k].raw_name = x}] :
                 /\ \A i, j \in {n \in 1..Len(listed) : it(n).raw_name = x} : i # j => m[i] # m[j]
                 /\ {m[i] : i \in {n \in 1..Len(listed) : it(n).raw_name = x}}
                      = {k \in 1..Len(shelves) : shelves[k].raw_name = x}
                 /\ \A n \in {n \in 1..Len(listed) : it(n).raw_name = x} :
                       ListOf(list_blobs(sf, it(n)), shelves[m[n]].blobs)
    <3> DEFINE mine == {n \in 1..Len(listed) : it(n).raw_name = x}
               theirs == {k \in 1..Len(shelves) : shelves[k].raw_name = x}
               m == [n \in mine |-> p[n]]
    <3>1. \A n \in mine : n \in 1..N /\ p[n] \in theirs
      BY <2>1, <2>3, <2>4, <2>5, <2>7
    <3>2. \A k \in theirs : \E n \in mine : p[n] = k
      <4> SUFFICES ASSUME NEW k \in theirs
                   PROVE  \E n \in mine : p[n] = k
        OBVIOUS
      <4>1. k \in 1..N
        BY <2>1
      <4>2. PICK n \in 1..N : p[n] = k
        BY <2>1, <2>3, <4>1, Onto
      <4>3. n \in mine
        BY <2>4, <2>5, <2>7, <4>2
      <4> QED
        BY <4>2, <4>3
    <3> HIDE DEF mine, theirs
    <3>3. m \in [mine -> theirs] /\ \A n \in mine : m[n] = p[n]
      BY <3>1
    <3>4. {m[i] : i \in mine} = theirs
      BY <3>1, <3>2, <3>3
    <3>5. \A i, j \in mine : i # j => m[i] # m[j]
      BY <2>3, <3>1, <3>3
    <3>6. \A n \in mine : ListOf(list_blobs(sf, it(n)), shelves[m[n]].blobs)
      BY <2>7, <3>1, <3>3
    <3> HIDE DEF m
    <3> QED
      BY <3>3, <3>4, <3>5, <3>6 DEF mine, theirs
  <2> QED
    BY <2>1, <2>4, <2>5, <2>8, <2>9 DEF it, listed
<1> QED
  BY <1>1, ShardAlways, PTL

----------------------------------------------------------------------------
\* A complete file is opened: it is at least as long as its record table.
LEMMA GreatestNatural ==
  ASSUME NEW S \in SUBSET Nat, NEW a \in S, NEW u \in Nat, \A y \in S : y <= u
  PROVE  Max(S) \in S /\ \A y \in S : y <= Max(S)
<1> DEFINE T == {n \in Nat : \A y \in S : y <= n}
<1>1. T \in SUBSET Nat /\ T # {}
  OBVIOUS
<1>2. PICK n \in T : \A m \in T : n <= m
  BY <1>1, LeastNatural
<1>3. n \in S
  <2> SUFFICES ASSUME n \notin S
               PROVE  FALSE
    OBVIOUS
  <2>1. \A y \in S : y < n
    BY <1>2
  <2>2. n - 1 \in Nat
    <3>1. a < n /\ a \in Nat /\ n \in Nat
      BY <1>2, <2>1
    <3> QED
      BY <3>1
  <2>3. n - 1 \in T
    BY <1>2, <2>1, <2>2
  <2>4. n <= n - 1 /\ n \in Nat
    BY <1>2, <2>3
  <2> QED
    BY <2>4
<1>4. \A y \in S : n >= y
  BY <1>2
<1>5. \A x \in S : (\A y \in S : x >= y) => x = n
  BY <1>3, <1>4
<1>6. Max(S) = n
  BY <1>3, <1>4, <1>5 DEF Max
<1> QED
  BY <1>3, <1>4, <1>6

\* No extent reaches beyond the end of the file.
LEMMA LongEnough ==
  ASSUME Complete, NEW e \in file
  PROVE  e.off + e.len <= FileLength(file) /\ FileLength(file) \in Nat
<1> DEFINE S == {0} \cup {x.off + x.len : x \in file}
<1>0. TypeOK /\ Layout /\ fin.pc = "done"
  BY DEF Complete, ShardInvariant, WriterInvariant
<1>1. fin.pos \in Nat /\ Top = fin.pos
  BY <1>0, FinFields DEF Top
<1>2. \A x \in file : x.off + x.len \in Nat /\ x.off + x.len <= fin.pos
  <2>1. \A x \in file : x \in Extent
    BY <1>0 DEF TypeOK
  <2> QED
    BY <1>0, <1>1, <2>1 DEF Extent, Layout
<1>3. S \in SUBSET Nat /\ 0 \in S /\ \A y \in S : y <= fin.pos
  BY <1>1, <1>2
<1>4. FileLength(file) = Max(S)
  BY DEF FileLength
<1>5. e.off + e.len \in S
  OBVIOUS
<1> HIDE DEF S
<1>6. Max(S) \in S /\ \A y \in S : y <= Max(S)
  BY <1>1, <1>3, GreatestNatural
<1> QED
  BY <1>3, <1>4, <1>5, <1>6

\* A complete file can be opened, and this is what the reader has.
LEMMA CompleteOpens ==
  ASSUME Complete
  PROVE  impl_v2_new(file) = {Opened}
<1> DEFINE v == [kind |-> "hdr", hdr |-> HdrOf]
           OpenedWith(x) ==
             [file |-> file, hdr |-> x.hdr,
              records |-> [k \in 1..x.hdr.records_length |->
                {w.srecord : w \in preads(file, x.hdr.records_start + RECORD_SIZE * (k - 1), "record")}]]
           fit(w) == \/ w.hdr.records_length = 0
                     \/ FileLength(file) >= w.hdr.records_start + RECORD_SIZE * w.hdr.records_length
<1>0. ShardInvariant /\ fin.pc = "done"
  BY DEF Complete
<1>1. preads(file, 0, "hdr") = {v}
  BY <1>0, HeaderReads
<1>2. v.hdr = HdrOf /\ v.hdr.records_length = Len(records) /\ v.hdr.records_start = fin.records_start
  BY DEF HdrOf
<1>3. Len(records) \in Nat /\ fin.records_start \in Nat
  <2>1. records \in Seq(RecordEntry) /\ fin \in FinState
    BY <1>0 DEF ShardInvariant, WriterInvariant, TypeOK
  <2> QED
    BY <2>1 DEF FinState
<1>4. fit(v)
  <2>1. CASE Len(records) = 0
    BY <1>2, <2>1
  <2>2. CASE Len(records) # 0
    <3> DEFINE N == Len(records)
               e == RecordExtent(N)
    <3>1. e \in file
      BY <1>0, <1>3, <2>2, KeptExtents
    <3>2. e.off = fin.records_start + RECORD_SIZE * (N - 1) /\ e.len = RECORD_SIZE
      BY DEF RecordExtent, At
    <3> HIDE DEF e
    <3>3. e.off + e.len <= FileLength(file) /\ FileLength(file) \in Nat
      BY <3>1, LongEnough
    <3>4. e.off + e.len = fin.records_start + RECORD_SIZE * N
      BY <1>3, <3>2 DEF RECORD_SIZE
    <3>5. fin.records_start + RECORD_SIZE * N \in Nat
      BY <1>3 DEF RECORD_SIZE
    <3> HIDE DEF N, v
    <3>6. FileLength(file) >= fin.records_start + RECORD_SIZE * N
      BY <3>3, <3>4, <3>5
    <3> QED
      BY <1>2, <3>6 DEF N
  <2> QED
    BY <2>1, <2>2
<1>5. impl_v2_new(file) = {OpenedWith(w) : w \in {x \in preads(file, 0, "hdr") : fit(x)}}
  BY DEF impl_v2_new
<1> HIDE DEF v, fit
<1>6. {x \in preads(file, 0, "hdr") : fit(x)} = {v}
  BY <1>1, <1>4
<1> HIDE DEF OpenedWith
<1>7. impl_v2_new(file) = {OpenedWith(v)}
  BY <1>5, <1>6
<1>8. OpenedWith(v) = Opened
  <2>1. OpenedWith(v) \in impl_v2_new(file)
    BY <1>7
  <2> QED
    BY <1>0, <2>1, OpenedFile
<1> QED
  BY <1>7, <1>8

\* A file without its header cannot be opened.
LEMMA IncompleteOpens ==
  ASSUME ShardInvariant, fin.pc # "done"
  PROVE  impl_v2_new(file) = {}
<1>1. preads(file, 0, "hdr") = {}
  BY HeaderReads
<1> QED
  BY <1>1 DEF impl_v2_new

----------------------------------------------------------------------------
\* The search for raw finds the k-th record.
NewRecord(k) == record_new(Opened, Written(records[k]))

Finds(raw, k) ==
  /\ k \in 1..Len(records) /\ records[k].raw_name = raw
  /\ find_record_by_raw_name(Opened, raw) = NewRecord(k)

FindsNone(raw) ==
  /\ find_record_by_raw_name(Opened, raw) = {}
  /\ \A k \in 1..Len(records) : records[k].raw_name # raw

\* A record is found if there is one with the name, and only one is.
LEMMA OneOrNone ==
  ASSUME Complete, NEW raw \in Nat
  PROVE  (\E k : Finds(raw, k)) \/ FindsNone(raw)
<1> DEFINE n == Len(records)
           compar == [k \in 1..n |-> find_record_by_raw_name_compar(Opened, raw, k)]
           K == bsearch(n, compar)
<1>0. TypeOK /\ RawSorted(records)
  BY DEF Complete, ShardInvariant, WriterInvariant, Filed
<1>1. n \in Nat /\ \A k \in 1..n : records[k].raw_name \in Nat
  <2>1. records \in Seq(RecordEntry)
    BY <1>0 DEF TypeOK
  <2>2. \A k \in 1..n : records[k] \in RecordEntry
    BY <2>1
  <2> QED
    BY <2>1, <2>2 DEF RecordEntry
<1>2. Len(Opened.records) = n /\ \A k \in 1..n : Opened.records[k] = {Written(records[k])}
  BY <1>1 DEF Opened
<1>3. \A k \in 1..n : Written(records[k]).raw_name = records[k].raw_name
  BY DEF Written
<1>4. ASSUME NEW k \in 1..n
      PROVE  find_record_by_raw_name_compar(Opened, raw, k) =
               IF raw = records[k].raw_name THEN 0 ELSE IF raw < records[k].raw_name THEN -1 ELSE 1
  <2>1. Opened.records[k] # {} /\ (CHOOSE r \in Opened.records[k] : TRUE) = Written(records[k])
    BY <1>2
  <2> QED
    BY <1>3, <2>1 DEF find_record_by_raw_name_compar
<1>5. \A k \in 1..n : compar[k] = IF raw = records[k].raw_name THEN 0 ELSE IF raw < records[k].raw_name THEN -1 ELSE 1
  BY <1>4
<1>6. Ascending(n, compar)
  <2>1. compar \in [1..n -> Int]
    BY <1>4
  <2>2. ASSUME NEW i \in 1..n, NEW j \in 1..n, i < j
        PROVE  (compar[i] < 0 => compar[j] < 0) /\ (compar[j] > 0 => compar[i] > 0)
    <3> DEFINE x == records[i].raw_name
               y == records[j].raw_name
    <3>1. x <= y /\ x \in Nat /\ y \in Nat
      BY <1>0, <1>1, <2>2 DEF RawSorted
    <3>2. /\ compar[i] = IF raw = x THEN 0 ELSE IF raw < x THEN -1 ELSE 1
          /\ compar[j] = IF raw = y THEN 0 ELSE IF raw < y THEN -1 ELSE 1
      BY <1>5
    <3> HIDE DEF x, y, compar
    <3> QED
      BY <3>1, <3>2
  <2> HIDE DEF compar, n
  <2> QED
    BY <2>1, <2>2 DEF Ascending
<1>7. find_record_by_raw_name(Opened, raw)
        = UNION {UNION {record_new(Opened, r) : r \in Opened.records[k]} : k \in K}
  BY <1>2 DEF find_record_by_raw_name
<1>8. /\ K \subseteq {k \in 1..n : compar[k] = 0}
      /\ K = {} => \A k \in 1..n : compar[k] # 0
      /\ \A j, k \in K : j = k
  <2> HIDE DEF compar, n
  <2> QED
    BY <1>1, <1>6, SearchFinds
<1>9. \A k \in 1..n : compar[k] = 0 <=> records[k].raw_name = raw
  BY <1>1, <1>5
<1> HIDE DEF K, compar
<1>10. CASE K = {}
  <2>1. find_record_by_raw_name(Opened, raw) = {}
    BY <1>7, <1>10
  <2> QED
    BY <1>8, <1>9, <1>10, <2>1 DEF FindsNone
<1>11. ASSUME NEW k \in K
       PROVE  Finds(raw, k)
  <2>1. K = {k} /\ k \in 1..n /\ records[k].raw_name = raw
    BY <1>8, <1>9, <1>11
  <2>2. find_record_by_raw_name(Opened, raw) = UNION {record_new(Opened, r) : r \in Opened.records[k]}
    BY <1>7, <2>1
  <2>3. find_record_by_raw_name(Opened, raw) = record_new(Opened, Written(records[k]))
    BY <1>2, <2>1, <2>2
  <2> QED
    BY <2>1, <2>3 DEF Finds, NewRecord
<1> QED
  BY <1>10, <1>11

\* What a reader finds is what is on the shelf.
LEMMA RecordSeen ==
  ASSUME Complete, ShortTypes, OneRead, NEW k \in 1..Len(records), NEW s, NEW q, TableFor(k, s, q)
  PROVE  {SeenRecord(Opened, x) : x \in NewRecord(k)} = {Archive!RecordView(s)}
<1> DEFINE w == Written(records[k])
           x == [raw_name |-> w.raw_name, srecord |-> w,
                 metadata |-> read_blob(Opened, w, METADATA),
                 data |-> read_blob(Opened, w, DATA)]
<1>1. NewRecord(k) = {x}
  <2>1. ~w.tombstone
    BY DEF Written
  <2> HIDE DEF w
  <2>2. record_new(Opened, w) = {x}
    BY <2>1 DEF record_new
  <2> QED
    BY <2>2 DEF NewRecord, w
<1>2. /\ x.srecord = w /\ x.metadata = read_blob(Opened, w, METADATA)
      /\ x.data = read_blob(Opened, w, DATA)
  OBVIOUS
<1>3. Opened.file = file
  BY DEF Opened
<1> HIDE DEF x
<1>4. \A n : SeenBlob(file, read_blob(Opened, w, n)) = Archive!Named(s, n)
  BY NamedSeen
<1> HIDE DEF w
<1>5. \A n \in Strings \ Internal : SeenBlob(file, lookup_blob(Opened, x, n)) = Archive!Named(s, n)
  BY <1>2, <1>4 DEF lookup_blob
<1>6. SeenRecord(Opened, x) = [metadata |-> Archive!Named(s, METADATA), data |-> Archive!Named(s, DATA),
                               blobs |-> [n \in Strings \ Internal |-> Archive!Named(s, n)]]
  BY <1>2, <1>3, <1>4, <1>5 DEF SeenRecord
<1>7. SeenRecord(Opened, x) = Archive!RecordView(s)
  BY <1>6 DEF Archive!RecordView
<1>8. {SeenRecord(Opened, y) : y \in {x}} = {SeenRecord(Opened, x)}
  OBVIOUS
<1> QED
  BY <1>1, <1>7, <1>8

----------------------------------------------------------------------------
\* Sealing: what a reader finds in a complete file is a sealed archive.
NamesOf(sh) == {s.raw_name : s \in {sh[k] : k \in 1..Len(sh)}}

SealedBy(sh, pick) ==
  [raw \in RawNames |-> IF raw \in DOMAIN pick THEN {Archive!RecordView(sh[pick[raw]])} ELSE {}]

\* One shelf for each name.
Picks(sh, pick) ==
  /\ pick \in [NamesOf(sh) -> 1..Len(sh)]
  /\ \A raw \in DOMAIN pick : sh[pick[raw]].raw_name = raw

Sealed == IF fin.pc = "done" THEN \E pick : Picks(shelves, pick) /\ Seen = {SealedBy(shelves, pick)}
                             ELSE Seen = {}

SeenUnder(raw) == {SeenRecord(Opened, r) : r \in find_record_by_raw_name(Opened, raw)}

\* What can be read of a complete file.
LEMMA SeenIs ==
  ASSUME Complete
  PROVE  Seen = {[raw \in RawNames |-> SeenUnder(raw)]}
<1> DEFINE What(sf) == [raw \in RawNames |-> {SeenRecord(sf, r) : r \in find_record_by_raw_name(sf, raw)}]
<1>1. Seen = {What(sf) : sf \in impl_v2_new(file)}
  BY DEF Seen
<1>2. What(Opened) = [raw \in RawNames |-> SeenUnder(raw)]
  BY DEF SeenUnder
<1>3. impl_v2_new(file) = {Opened}
  BY CompleteOpens
<1> HIDE DEF What
<1>4. Seen = {What(Opened)}
  BY <1>1, <1>3
<1> QED
  BY <1>2, <1>4

\* The names in the file are those on the shelves.
LEMMA FiledNames ==
  ASSUME Complete, NEW p, FiledBy(p)
  PROVE  NamesOf(shelves) = {records[k].raw_name : k \in 1..Len(records)}
<1> DEFINE N == Len(records)
<1>0. N \in Nat /\ Len(shelves) = N /\ p \in Reorders(N)
  BY DEF Complete, ShardInvariant, WriterInvariant, TypeOK, Filed, FiledBy
<1>1. \A k \in 1..N : records[k].raw_name = shelves[p[k]].raw_name /\ p[k] \in 1..N
  BY <1>0, ShelfOut
<1>2. \A j \in 1..N : \E k \in 1..N : p[k] = j
  BY <1>0, Onto
<1> HIDE DEF N
<1>3. NamesOf(shelves) = {shelves[j].raw_name : j \in 1..N}
  BY <1>0 DEF NamesOf
<1>4. \A j \in 1..N : \E k \in 1..N : shelves[j].raw_name = records[k].raw_name
  BY <1>1, <1>2
<1>5. NamesOf(shelves) = {records[k].raw_name : k \in 1..N}
  BY <1>1, <1>3, <1>4
<1> QED
  BY <1>5 DEF N

\* What can be read of a complete file is what is on the shelves.
LEMMA SealExists ==
  ASSUME Complete, ShortTypes, OneRead
  PROVE  \E pick : Picks(shelves, pick) /\ Seen = {SealedBy(shelves, pick)}
<1> DEFINE hit(raw) == CHOOSE k : Finds(raw, k)
           names == NamesOf(shelves)
<1>0. fin.pc = "done" /\ Filed /\ TypeOK
  BY DEF Complete, ShardInvariant, WriterInvariant
<1>1. PICK p : FiledBy(p)
  BY <1>0 DEF Filed
<1>2. names = {records[k].raw_name : k \in 1..Len(records)}
  BY <1>1, FiledNames
<1>3. RawNames \subseteq Nat
  BY HexNamesAssumption DEF RawNames
<1>4. names \subseteq Nat
  <2>1. \A k \in 1..Len(records) : records[k] \in RecordEntry
    BY <1>0 DEF TypeOK
  <2>2. \A k \in 1..Len(records) : records[k].raw_name \in Nat
    BY <2>1 DEF RecordEntry
  <2> HIDE DEF names
  <2> QED
    BY <1>2, <2>2
<1> DEFINE pick == [raw \in names |-> p[hit(raw)]]
<1> HIDE DEF hit, names
<1>5. ASSUME NEW raw \in names
      PROVE  Finds(raw, hit(raw))
  <2>1. \E k \in 1..Len(records) : records[k].raw_name = raw
    BY <1>2
  <2>2. \E k : Finds(raw, k)
    BY <1>4, <2>1, OneOrNone DEF FindsNone
  <2> QED
    BY <2>2 DEF hit
<1>6. ASSUME NEW raw \in names
      PROVE  /\ p[hit(raw)] \in 1..Len(shelves) /\ shelves[p[hit(raw)]].raw_name = raw
             /\ SeenUnder(raw) = {Archive!RecordView(shelves[p[hit(raw)]])}
  <2> DEFINE k == hit(raw)
             s == shelves[p[k]]
  <2>1. k \in 1..Len(records) /\ records[k].raw_name = raw
        /\ find_record_by_raw_name(Opened, raw) = NewRecord(k)
    BY <1>5 DEF Finds
  <2> HIDE DEF k
  <2>2. records[k].raw_name = s.raw_name /\ p[k] \in 1..Len(shelves) /\ \E q : TableFor(k, s, q)
    BY <1>1, <2>1, ShelfOut
  <2> HIDE DEF s
  <2>3. PICK q : TableFor(k, s, q)
    BY <2>2
  <2>4. {SeenRecord(Opened, x) : x \in NewRecord(k)} = {Archive!RecordView(s)}
    BY <2>1, <2>3, RecordSeen
  <2> QED
    BY <2>1, <2>2, <2>4 DEF SeenUnder, k, s
<1>7. \A raw \in names : pick[raw] = p[hit(raw)]
  OBVIOUS
<1>8. pick \in [names -> 1..Len(shelves)] /\ DOMAIN pick = names
  BY <1>6
<1> HIDE DEF pick
<1>9. Picks(shelves, pick)
  BY <1>6, <1>7, <1>8 DEF Picks, names
<1>10. ASSUME NEW raw \in RawNames, raw \notin names
       PROVE  SeenUnder(raw) = {}
  <2>1. ~\E k : Finds(raw, k)
    BY <1>2, <1>10 DEF Finds
  <2>2. find_record_by_raw_name(Opened, raw) = {}
    BY <1>3, <2>1, OneOrNone DEF FindsNone
  <2> QED
    BY <2>2 DEF SeenUnder
<1>11. \A raw \in RawNames : SeenUnder(raw) =
         IF raw \in DOMAIN pick THEN {Archive!RecordView(shelves[pick[raw]])} ELSE {}
  BY <1>6, <1>7, <1>8, <1>10
<1>12. [raw \in RawNames |-> SeenUnder(raw)] = SealedBy(shelves, pick)
  BY <1>11 DEF SealedBy
<1> QED
  BY <1>9, <1>12, SeenIs

\* What can be read is always a sealed archive, or nothing.
LEMMA SealedIs ==
  ASSUME FewAttached, ShortTypes, OneRead, ShardInvariant, PlacesFit
  PROVE  Sealed
<1>1. CASE fin.pc = "done"
  BY <1>1, SealExists DEF Complete, Sealed
<1>2. CASE fin.pc # "done"
  <2>1. impl_v2_new(file) = {}
    BY <1>2, IncompleteOpens
  <2> QED
    BY <1>2, <2>1 DEF Seen, Sealed
<1> QED
  BY <1>1, <1>2

----------------------------------------------------------------------------
\* The refinement.
LEMMA SealStep ==
  ASSUME Sealed, Sealed', FinishHeader, UNCHANGED archived, TypeOK
  PROVE  Archive!ArchiveSeal
<1>1. fin.pc # "done" /\ fin'.pc = "done"
  <2>1. fin \in FinState /\ fin.pc = "strings" /\ fin' = [fin EXCEPT !.pc = "done"]
    BY DEF TypeOK, FinishHeader, InPhase
  <2> QED
    BY <2>1 DEF FinState
<1>2. Seen = {}
  BY <1>1 DEF Sealed
<1>3. asked' = asked /\ shelves' = shelves
  BY DEF archived
<1>4. PICK pick : Picks(shelves', pick) /\ Seen' = {SealedBy(shelves, pick)'}
  BY <1>1 DEF Sealed
<1>5. /\ pick \in [{s.raw_name : s \in {shelves[k] : k \in 1..Len(shelves)}} -> 1..Len(shelves)]
      /\ \A raw \in DOMAIN pick : shelves[pick[raw]].raw_name = raw
  BY <1>3, <1>4 DEF Picks, NamesOf
<1>6. SealedBy(shelves, pick)' = SealedBy(shelves, pick)
  BY <1>3 DEF SealedBy, Archive!RecordView, Archive!Named, Archive!BlobView
<1>7. Seen' = {[raw \in RawNames |->
                 IF raw \in DOMAIN pick THEN {Archive!RecordView(shelves[pick[raw]])} ELSE {}]}
  BY <1>4, <1>6 DEF SealedBy
<1> QED
  BY <1>2, <1>3, <1>5, <1>7 DEF Archive!ArchiveSeal

\* The return of add_blob hands out a new identifier.
LEMMA ReturnBlobStep ==
  ASSUME ShardInvariant, Sealed, NEW t \in Threads, ReturnBlob(t)
  PROVE  Archive!ArchiveNext
<1> DEFINE id == thread[t].index
           r == thread[t].req
<1>0. TypeOK /\ IdsOK /\ Layout /\ Asked
  BY DEF ShardInvariant, WriterInvariant
<1>1. thread[t].pc = "publish" /\ file' = file /\ shelves' = shelves
      /\ asked' = [i \in DOMAIN asked \cup {id} |-> IF i = id THEN r ELSE asked[i]]
  BY DEF ReturnBlob, AddBlobReturn
<1>2. fin.pc = "open"
  BY <1>0, <1>1 DEF Layout, Quiet
<1>3. Seen = {} /\ Seen' = Seen
  BY <1>1, <1>2 DEF Sealed, Seen
<1>4. r \in Requests /\ id \in Nat \ {0} /\ id <= Len(blobs)
  <2>1. thread[t] \in ThreadState
    BY <1>0 DEF TypeOK
  <2> QED
    BY <1>0, <1>1, <2>1, ThreadCases DEF IdsOK
<1>5. id \in 1..MaxBlobs
  <2>1. IsFiniteSet(InFlight) /\ Len(blobs) + Cardinality(InFlight) <= MaxBlobs
    BY <1>0 DEF Asked
  <2>2. Cardinality(InFlight) \in Nat
    BY <2>1, FS_CardinalityType
  <2>3. Len(blobs) \in Nat /\ MaxBlobs \in Nat
    BY <1>0, BoundsAssumption DEF TypeOK
  <2> HIDE DEF id
  <2> QED
    BY <1>4, <2>1, <2>2, <2>3
<1>6. id \notin DOMAIN asked
  <2>1. ~Published(id)
    BY <1>1 DEF Published
  <2>2. DOMAIN asked = {i \in 1..Len(blobs) : Published(i)}
    BY <1>0 DEF Asked
  <2> QED
    BY <2>1, <2>2
<1>7. Archive!ArchiveAddBlob(id, r)
  BY <1>1, <1>3, <1>6 DEF Archive!ArchiveAddBlob
<1> HIDE DEF id, r
<1> QED
  BY <1>4, <1>5, <1>7 DEF Archive!ArchiveNext

\* add_blob_to_record puts a blob that has an identifier on a shelf.
LEMMA AttachStep ==
  ASSUME ShardInvariant, Sealed, NEW r \in 1..MaxRecords, NEW b \in 1..MaxBlobs, Attach(r, b)
  PROVE  Archive!ArchiveNext
<1>0. TypeOK /\ Asked /\ Filed
  BY DEF ShardInvariant, WriterInvariant
<1>1. /\ fin.pc = "open" /\ Quiet /\ r \in 1..Len(records) /\ b \in 1..Len(blobs) /\ file' = file
      /\ shelves' = [shelves EXCEPT ![r].blobs = Append(@, b)] /\ asked' = asked
  BY DEF Attach, AddBlobToRecord
<1>2. Seen = {} /\ Seen' = Seen
  BY <1>1 DEF Sealed, Seen
<1>3. r \in 1..Len(shelves)
  BY <1>0, <1>1 DEF Filed
<1>4. b \in DOMAIN asked
  <2>1. Published(b)
    BY <1>1 DEF Quiet, Published
  <2> QED
    BY <1>0, <1>1, <2>1 DEF Asked
<1>5. Archive!ArchiveAttach(r, b)
  BY <1>1, <1>2, <1>3, <1>4 DEF Archive!ArchiveAttach
<1> QED
  BY <1>3, <1>4, <1>5 DEF Archive!ArchiveNext

\* Every step is a step of the archive, or none.
LEMMA ArchiveStep ==
  ASSUME ShardInvariant, Sealed, Sealed', [ShardNext]_allVars
  PROVE  [Archive!ArchiveNext]_Archive!archiveVars
<1>0. TypeOK /\ Layout
  BY DEF ShardInvariant, WriterInvariant
<1>1. file' = file => Seen' = Seen
  BY DEF Seen
<1>2. fin.pc # "done" /\ fin'.pc # "done" => Seen = {} /\ Seen' = {}
  BY DEF Sealed
<1>3. ASSUME NEW h \in HexNames, ReturnRecord(h)
      PROVE  Archive!ArchiveNext
  <2>1. /\ fin.pc = "open" /\ file' = file /\ asked' = asked
        /\ shelves' = Append(shelves, [raw_name |-> HexToRaw[h], blobs |-> <<>>])
    BY <1>3 DEF ReturnRecord, AddRecord
  <2>2. Seen = {} /\ Seen' = Seen
    BY <1>1, <2>1 DEF Sealed
  <2>3. Archive!ArchiveAddRecord(HexToRaw[h]) /\ HexToRaw[h] \in RawNames
    BY <2>1, <2>2 DEF Archive!ArchiveAddRecord, RawNames
  <2> QED
    BY <2>3 DEF Archive!ArchiveNext
<1>4. ASSUME NEW t \in Threads, Silent(t), UNCHANGED archived
      PROVE  UNCHANGED Archive!archiveVars
  <2>1. fin.pc = "open" /\ fin' = fin
    <3>1. thread[t].pc # "idle" => fin.pc = "open"
      BY <1>0 DEF Layout, Quiet
    <3> QED
      BY <1>4, <3>1 DEF Silent, AddBlobConstants, AddBlobNew, AddBlobShared, AddBlobWrite
  <2> QED
    BY <1>2, <1>4, <2>1 DEF archived, Archive!archiveVars
<1>5. ASSUME Finish, UNCHANGED archived
      PROVE  Archive!ArchiveNext \/ UNCHANGED Archive!archiveVars
  <2>1. CASE FinishHeader
    BY <1>0, <1>5, <2>1, SealStep DEF Archive!ArchiveNext
  <2>2. CASE ~FinishHeader
    <3>1. fin.pc # "done" /\ fin'.pc # "done"
      <4>1. \A phase : Goto(phase).pc = phase /\ \A n, m : /\ [Goto(phase) EXCEPT !.records_start = n].pc = phase
                                                        /\ [Goto(phase) EXCEPT !.strings_start = n, !.pos = m].pc = phase
        BY <1>0 DEF TypeOK, FinState, Goto
      <4>2. Advance.pc = fin.pc /\ \A n : [Advance EXCEPT !.pos = n].pc = fin.pc
        BY <1>0, FinAdvance
      <4>3. FinishBlob \/ FinishTable \/ FinishRecord => fin.pc # "done" /\ fin'.pc # "done"
        BY <4>2 DEF FinishBlob, FinishTable, FinishRecord, InPhase
      <4>4. FinishSort \/ FinishBlobsDone => fin.pc # "done" /\ fin'.pc # "done"
        BY <4>1 DEF FinishSort, FinishBlobsDone, InPhase
      <4>5. FinishTablesDone => fin.pc # "done" /\ fin'.pc # "done"
        BY <4>1 DEF FinishTablesDone, InPhase
      <4>6. FinishRecordsDone => fin.pc # "done" /\ fin'.pc # "done"
        BY <4>1 DEF FinishRecordsDone, InPhase
      <4>7. FinishString => fin.pc # "done" /\ fin'.pc # "done"
        <5> SUFFICES ASSUME FinishString
                     PROVE  fin.pc # "done" /\ fin'.pc # "done"
          OBVIOUS
        <5>1. fin.pc = "strings" /\ fin \in FinState
          BY <1>0 DEF FinishString, InPhase, TypeOK
        <5>2. \E n : fin' = [Advance EXCEPT !.pos = n]
          BY <5>1 DEF FinishString, FinState, Advance
        <5> QED
          BY <4>2, <5>1, <5>2
      <4> QED
        BY <1>5, <2>2, <4>3, <4>4, <4>5, <4>6, <4>7 DEF Finish
    <3> QED
      BY <1>2, <1>5, <3>1 DEF archived, Archive!archiveVars
  <2> QED
    BY <2>1, <2>2
<1>6. ASSUME (Abort /\ UNCHANGED archived) \/ UNCHANGED allVars
      PROVE  UNCHANGED Archive!archiveVars
  <2>1. file' = file /\ asked' = asked /\ shelves' = shelves
    BY <1>6 DEF Abort, archived, allVars, vars
  <2> QED
    BY <1>1, <2>1 DEF Archive!archiveVars
<1>7. ASSUME NEW t \in Threads, ReturnBlob(t)
      PROVE  Archive!ArchiveNext
  BY <1>7, ReturnBlobStep
<1>8. ASSUME NEW r \in 1..MaxRecords, NEW b \in 1..MaxBlobs, Attach(r, b)
      PROVE  Archive!ArchiveNext
  BY <1>8, AttachStep
<1> QED
  BY <1>3, <1>4, <1>5, <1>6, <1>7, <1>8 DEF ShardNext

\* The file implements the archive: no reader gets anything out of it before
\* finish has written the header, whatever the writer's threads have done and
\* wherever it stopped; from that write on every record is found under its
\* name, with the type and the whole contents of the first blob attached
\* under every name, as they were asked for.  This is as long as offsets fit
\* in a guint and the counts of blobs in a uint8_t, types are shorter than
\* the reader's buffer, and compressed data as one read of the converter.
THEOREM FileImplementsArchive ==
  ASSUME FewAttached, ShortTypes, OneRead
  PROVE  ShardSpec /\ []PlacesFit => ImplementsArchive
<1>1. ShardInit /\ Sealed => Archive!ArchiveInit
  <2> SUFFICES ASSUME ShardInit, Sealed PROVE Archive!ArchiveInit
    OBVIOUS
  <2>1. fin.pc = "open" /\ shelves = <<>> /\ asked = <<>>
    BY DEF ShardInit, Init
  <2> QED
    BY <2>1 DEF Archive!ArchiveInit, Sealed
<1>2. ShardInvariant /\ PlacesFit => Sealed
  BY SealedIs
<1>3. ShardInvariant /\ Sealed /\ Sealed' /\ [ShardNext]_allVars => [Archive!ArchiveNext]_Archive!archiveVars
  BY ArchiveStep
<1> QED
  BY <1>1, <1>2, <1>3, ShardAlways, PTL DEF ShardSpec, ImplementsArchive, Archive!ArchiveSpec

=============================================================================
