------------------------------ MODULE ShardV2 ------------------------------
(***************************************************************************)
(* The version 2 writer and reader together.  The writer's steps are       *)
(* recorded in two history variables, what the callers of add_blob asked   *)
(* for and what they put in which record; what a reader of the file sees   *)
(* is computed with the reader's operators in every state, also in the     *)
(* middle of finish and after a crash.                                     *)
(***************************************************************************)
EXTENDS WriterV2, ReaderV2

VARIABLES asked, shelves

archived == <<asked, shelves>>
allVars == <<vars, archived>>

RawNames == {HexToRaw[h] : h \in HexNames}

\* What a reader that opens the file now can learn of the record with a name.
SeenBlob(f, bs) ==
  {[content_type |-> b.content_type, contents |-> load_blob(f, b)] : b \in bs}

SeenRecord(sf, record) ==
  [metadata |-> SeenBlob(sf.file, record.metadata),
   data |-> SeenBlob(sf.file, record.data),
   blobs |-> [n \in Strings \ Internal |->
                SeenBlob(sf.file, lookup_blob(sf, record, n))]]

Seen == {[raw \in RawNames |->
            {SeenRecord(sf, r) : r \in find_record_by_raw_name(sf, raw)}] :
         sf \in impl_v2_new(file)}

Archive == INSTANCE ShardArchive WITH Ids <- 1..MaxBlobs, published <- Seen

----------------------------------------------------------------------------
ShardInit == Init /\ asked = <<>> /\ shelves = <<>>

\* The identifier add_blob returns stands for its arguments from now on.
ReturnBlob(t) ==
  /\ AddBlobReturn(t)
  /\ asked' = [i \in DOMAIN asked \cup {thread[t].index} |->
                 IF i = thread[t].index THEN thread[t].req ELSE asked[i]]
  /\ UNCHANGED shelves

ReturnRecord(h) ==
  /\ AddRecord(h)
  /\ shelves' = Append(shelves, [raw_name |-> HexToRaw[h], blobs |-> <<>>])
  /\ UNCHANGED asked

Attach(r, b) ==
  /\ AddBlobToRecord(r, b)
  /\ shelves' = [shelves EXCEPT ![r].blobs = Append(@, b)]
  /\ UNCHANGED asked

Silent(t) ==
  \/ \E r \in Requests : AddBlobConstants(t, r)
  \/ AddBlobNew(t)
  \/ AddBlobShared(t)
  \/ AddBlobWrite(t)

ShardNext ==
  \/ \E t \in Threads : ReturnBlob(t) \/ (Silent(t) /\ UNCHANGED archived)
  \/ \E h \in HexNames : ReturnRecord(h)
  \/ \E r \in 1..MaxRecords, b \in 1..MaxBlobs : Attach(r, b)
  \/ Finish /\ UNCHANGED archived
  \/ Abort /\ UNCHANGED archived

ShardSpec == ShardInit /\ [][ShardNext]_allVars

----------------------------------------------------------------------------
\* The file implements the archive: no reader gets anything out of it before
\* finish has written the header, whatever the writer's threads have done and
\* wherever it stopped; from that write on every record and blob reads back
\* as it was asked for.
ImplementsArchive == Archive!ArchiveSpec

\* The item list_blobs should have for a blob: a NULL for an empty one, and
\* else what was asked for, with the place of its bytes.
Listed(b) ==
  LET r == asked[b]
  IN  IF SizeOf[r.content] = 0 THEN {}
      ELSE {[flags |-> r.zlib, checksum |-> Packed(r), size |-> SizeOf[Packed(r)],
             uncompressed_size |-> SizeOf[r.content], offs |-> blobs[b].sblob.data_start,
             content_type |-> [str |-> r.content_type, len |-> StrLen[r.content_type]]]}

\* The items are those of the blobs bs: the last name first, and of several
\* blobs with one name the last attached first.
ListOf(items, bs) ==
  \E q \in SortedBy(Len(bs), [k \in 1..Len(bs) |-> asked[bs[k]].name]) :
     items = [k \in 1..Len(bs) |-> Listed(bs[q[Len(bs) + 1 - k]])]

\* list_records yields every record added once, in the order of the raw
\* names, and list_blobs every blob attached to the record once, in the
\* reverse order of the names: with its type, its sizes, its checksum and the
\* place of its bytes. Nothing is dropped, repeated, or another record's.
ListsComplete ==
  \A sf \in impl_v2_new(file) :
    LET listed == list_records(sf)
        it(n) == CHOOSE r \in listed[n] : TRUE
    IN  /\ Len(listed) = Len(shelves)
        /\ \A n \in 1..Len(listed) : listed[n] # {}
        /\ \A n \in 2..Len(listed) : it(n - 1).raw_name <= it(n).raw_name
        /\ \A x \in RawNames :
             LET mine == {n \in 1..Len(listed) : it(n).raw_name = x}
                 theirs == {k \in 1..Len(shelves) : shelves[k].raw_name = x}
             IN  \E m \in [mine -> theirs] :
                   /\ \A i, j \in mine : i # j => m[i] # m[j]
                   /\ {m[i] : i \in mine} = theirs
                   /\ \A n \in mine : ListOf(list_blobs(sf, it(n)), shelves[m[n]].blobs)

\* load_contents returns the contents of the blob, not a part of them.
ContentsWhole ==
  \A sf \in impl_v2_new(file), i \in DOMAIN asked :
    \A b \in blob_new(sf, blobs[i].sblob) :
      \A l \in load_blob(file, b) : l.whole
============================================================================
