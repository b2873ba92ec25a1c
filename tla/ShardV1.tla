------------------------------ MODULE ShardV1 ------------------------------
(***************************************************************************)
(* The version 1 writer and reader together, with the history that relates *)
(* them: what the callers put on which shelf, what the source files have   *)
(* held since write began, and the readers that opened the file, each with *)
(* the header it keeps in memory and what it could read then.              *)
(***************************************************************************)
EXTENDS WriterV1, ReaderV1

VARIABLES
  shelves,  \* what the callers put in which record
  had,      \* what the source files have held since write began
  opened,   \* the readers, each with its header and what it could read then
  written,  \* the shelves when write began
  latest    \* the last record of the array is the one that was added last

allVars == <<vars, shelves, had, opened, written, latest>>

RawNames == {HexToRaw[h] : h \in HexNames}

\* What a reader with a header in memory learns from a file.
SeenBlob(f, bs) ==
  {[content_type |-> b.content_type, contents |-> load_blob(f, b)] : b \in bs}

SeenIn(f, records) ==
  [raw \in RawNames |->
    {[k \in Kinds |-> SeenBlob(f, IF k = DATA THEN r.data ELSE r.metadata)] :
       r \in find_record_by_raw_name(records, raw)}]

Seen == {SeenIn(file, records) : records \in impl_v1_new(file)}

Archive == INSTANCE RecordArchive WITH published <- Seen

----------------------------------------------------------------------------
ShardInit ==
  /\ Init
  /\ shelves = <<>> /\ opened = {} /\ written = <<>> /\ latest = FALSE
  /\ had = [s \in Sources |-> {disk[s]}]

PutRecord(h) ==
  /\ AddRecord(h)
  /\ shelves' = Append(shelves, [raw_name |-> HexToRaw[h], slots |-> [k \in Kinds |-> {}]])
  /\ latest' = TRUE
  /\ UNCHANGED <<had, written>>

\* The caller means the record it added last.
PutBlob(kind, s, type, zlib) ==
  /\ AddBlob(kind, s, type, zlib)
  /\ shelves' = [shelves EXCEPT ![Len(shelves)].slots[kind] = {[source |-> s, type |-> type]}]
  /\ UNCHANGED <<had, written, latest>>

EditSource(s) ==
  /\ Edit(s)
  /\ had' = [had EXCEPT ![s] = @ \cup {disk'[s]}]
  /\ UNCHANGED <<shelves, written, latest>>

BeginWrite ==
  /\ WriteStart
  /\ had' = [s \in Sources |-> {disk[s]}]
  /\ written' = shelves
  /\ latest' = FALSE
  /\ UNCHANGED shelves

Quietly ==
  /\ WriteBlob \/ WriteSize \/ WriteHeader \/ Abort
  /\ UNCHANGED <<shelves, had, written, latest>>

\* A reader may open the file in any state.
Open == opened' = opened \cup
  {[records |-> records, seen |-> SeenIn(file', records)] : records \in impl_v1_new(file')}

Call ==
  \/ \E h \in HexNames : PutRecord(h)
  \/ \E s \in Sources : EditSource(s)
  \/ BeginWrite
  \/ Quietly

SetBlob == \E kind \in Kinds, s \in Sources, type \in Types, zlib \in BOOLEAN :
  PutBlob(kind, s, type, zlib)

\* After write, blobs are set only once another record has been added.
ShardNext == (Call \/ (latest /\ SetBlob)) /\ Open
ShardSpec == ShardInit /\ [][ShardNext]_allVars

----------------------------------------------------------------------------
\* The file implements the archive: nothing can be read while it is written,
\* nor after a crash, nor when the header could not be written; afterwards
\* every record is found by its name, and its blobs have the content types
\* they were given and the contents of their source files, whole if these were
\* left alone during the write, and else piece by piece as they were at some
\* moment of it.
ImplementsRecordArchive == Archive!ArchiveSpec

\* A reader that opened the file keeps its header while the file is written
\* again: what it then loads is what it would have loaded before, or nothing;
\* never what has since been put in that place.
OldReadersSafe ==
  \A o \in opened, raw \in RawNames :
    LET now == SeenIn(file, o.records)[raw]
    IN  \A r \in o.seen[raw], k \in Kinds :
          \A b \in r[k] : \E n \in now : \A x \in n[k] : x.contents \subseteq b.contents

\* The item is the blob on a slot: of the type that was given, and with the
\* checksum of what the source file of that slot held during the write.
OfSlot(item, slot) ==
  \E x \in slot :
    /\ item.content_type = x.type
    /\ \E c \in Blend(had[x.source]) : item.checksum = IF item.flags THEN Zlib[c] ELSE c

\* The items are the blobs of a shelf, the data first.
ListOf(items, slots) ==
  /\ Len(items) = Cardinality({k \in Kinds : slots[k] # {}})
  /\ slots[DATA] # {} => OfSlot(items[1], slots[DATA])
  /\ slots[METADATA] # {} => OfSlot(items[Len(items)], slots[METADATA])

\* list_records yields every record once, and list_blobs of each the blobs
\* that were set when write was called, once, the data first, each with the
\* type and the bytes of its own source file.
ListsComplete ==
  \A records \in impl_v1_new(file) :
    LET listed == list_records(records)
    IN  /\ Len(listed) = Len(written)
        /\ \E p \in Reorders(Len(written)) :
             \A k \in 1..Len(written) :
               /\ listed[k].raw_name = written[p[k]].raw_name
               /\ ListOf(list_blobs(listed[k]), written[p[k]].slots)

\* The blobs of every record that can be read load.
BlobsLoad ==
  \A records \in impl_v1_new(file) :
    \A k \in 1..Len(records) :
      LET r == list_records(records)[k]
      IN  \A b \in r.metadata \cup r.data : load_blob(file, b) # {}
============================================================================
