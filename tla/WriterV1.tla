------------------------------ MODULE WriterV1 ------------------------------
(***************************************************************************)
(* EosShardWriterV1 (eos-shard-writer-v1.c): records of two blobs each,    *)
(* given as files, which are read only when the shard is written.  The     *)
(* data comes behind a header, one GVariant, whose size is computed first, *)
(* from a variant without offsets, and which is written last.              *)
(*                                                                         *)
(* One thread uses the writer; the source files belong to others, who may  *)
(* edit them at any time (Edit), between two reads of the copy loop too.   *)
(* A field that may be NULL is a set.                                      *)
(***************************************************************************)
EXTENDS ShardV1Format, SortSearch

CONSTANTS
  Sources,         \* the files callers pass
  Versions,        \* what each of them may hold in the course of time
  Chunks,          \* what one read of a source file may return
  Pieces,          \* the reads each of the contents takes, in order
  HexNames,        \* the names add_record is called with
  HexToRaw,        \* the raw name each leaves, numbered in memcmp() order
  Types,           \* the content types add_blob is called with
  UNTYPED,         \* the empty content type of a blob nobody set
  INT_MOD,         \* 2^32, the values of an int
  UINT64_MOD,      \* 2^64
  Requests,        \* the arguments add_blob is called with
  MaxRecords, MaxSet, MaxEdits, MaxWrites   \* bounds on the calls explored

ASSUME SourcesAssumption == Versions \in [Sources -> SUBSET Contents]
ASSUME PiecesAssumption ==
  /\ Pieces \in [Contents -> Seq(Chunks)]
  /\ \A c, d \in Contents : Pieces[c] = Pieces[d] => c = d
ASSUME NamesAssumption == HexToRaw \in [HexNames -> Nat]
ASSUME TypesAssumption == Types \cup {UNTYPED} \subseteq Strings /\ StrLen[UNTYPED] = 0
ASSUME WidthsV1Assumption == INT_MOD \in Nat \ {0} /\ UINT64_MOD \in Nat /\ INT_MOD <= UINT64_MOD

\* Every piece of g is what one of the contents V has at that place.
PiecesOf(V, g) ==
  \A i \in 1..Len(g) : \E v \in V : i <= Len(Pieces[v]) /\ g[i] = Pieces[v][i]

\* What a file comes to that is read while it goes through the contents V:
\* the end is found no earlier than that of one of them.
Blend(V) ==
  {c \in Contents : /\ PiecesOf(V, Pieces[c])
                    /\ \E v \in V : Len(Pieces[v]) <= Len(Pieces[c])}

\* There are contents for whatever is read.
ASSUME BlendsAssumption ==
  \A s \in Sources : \A v, w \in Versions[s] : \A n \in Len(Pieces[v])..Len(Pieces[w]) :
    \A g \in [1..n -> Chunks] : PiecesOf(Versions[s], g) => \E c \in Contents : Pieces[c] = g

VARIABLES
  disk,      \* what each source file holds
  entries,   \* the records, in the order they were added; sorted by write
  file,      \* the shard file
  out,       \* how far write has come: pc, blob number, position
  got,       \* what write_blob has read so far of the file it copies
  aborted,   \* g_error, a failed g_assert or a crash
  calls      \* how many blobs were set, files edited and shards written so far

vars == <<disk, entries, file, out, got, aborted, calls>>

Boundaries == {n \in Nat : n % 64 = 0}

BlobEntry == [file: SUBSET Sources, content_type: Strings, flags: BOOLEAN,
              checksum: SUBSET Checksums, offs: Boundaries, size: Nat, uncompressed_size: Nat]
RecordEntry == [raw_name: Nat, blobs: [Kinds -> BlobEntry]]

TypeOK ==
  /\ disk \in [Sources -> Contents]
  /\ entries \in Seq(RecordEntry)
  /\ \A e \in file : e.off \in Nat /\ e.len \in Nat \ {0}
  /\ out \in [pc: {"open", "blobs", "header"}, i: Nat \ {0}, pos: Nat]
  /\ got \in Seq(Chunks)
  /\ aborted \in BOOLEAN
  /\ calls \in [set: Nat, edits: Nat, writes: Nat]

----------------------------------------------------------------------------
Init ==
  /\ disk \in {d \in [Sources -> Contents] : \A s \in Sources : d[s] \in Versions[s]}
  /\ entries = <<>>
  /\ file = {}
  /\ out = [pc |-> "open", i |-> 1, pos |-> 0]
  /\ got = <<>>
  /\ aborted = FALSE
  /\ calls = [set |-> 0, edits |-> 0, writes |-> 0]

\* blob_entry_init, in a record of zeros.
blob_entry_init ==
  [file |-> {}, content_type |-> UNTYPED, flags |-> FALSE,
   checksum |-> {}, offs |-> 0, size |-> 0, uncompressed_size |-> 0]

\* add_record
AddRecord(h) ==
  /\ ~aborted /\ out.pc = "open" /\ Len(entries) < MaxRecords
  /\ entries' = Append(entries,
       [raw_name |-> HexToRaw[h], blobs |-> [k \in Kinds |-> blob_entry_init]])
  /\ UNCHANGED <<disk, file, out, got, aborted, calls>>

\* add_blob: the blob of that kind in the last record of the array. The file's
\* size is asked for now, its contents are not read before write.
AddBlob(kind, s, type, zlib) ==
  /\ ~aborted /\ out.pc = "open" /\ calls.set < MaxSet
  /\ entries # <<>>
  /\ [source |-> s, type |-> type, zlib |-> zlib] \in Requests
  /\ zlib => Blend(Versions[s]) \subseteq Plain
  /\ entries' = [entries EXCEPT ![Len(entries)].blobs[kind] =
       [@ EXCEPT !.file = {s}, !.flags = zlib, !.content_type = type,
                 !.uncompressed_size = SizeOf[disk[s]]]]
  /\ calls' = [calls EXCEPT !.set = @ + 1]
  /\ UNCHANGED <<disk, file, out, got, aborted>>

\* Somebody edits a source file in place. (A file that another takes the
\* place of while it is open is read as if that happened after its copy.)
Edit(s) ==
  /\ calls.edits < MaxEdits
  /\ \E c \in Versions[s] \ {disk[s]} : disk' = [disk EXCEPT ![s] = c]
  /\ calls' = [calls EXCEPT !.edits = @ + 1]
  /\ UNCHANGED <<entries, file, out, got, aborted>>

----------------------------------------------------------------------------
\* What one record takes in the header, its content types with their NULs.
RecordSize(e) ==
  RECORD_SIZE + (StrLen[e.blobs[METADATA].content_type] + 1) + (StrLen[e.blobs[DATA].content_type] + 1)

\* The size of header_entry_variant (es).
HeaderSize(es) ==
  LET size[k \in 0..Len(es)] == IF k = 0 THEN MAGIC_SIZE ELSE size[k - 1] + RecordSize(es[k])
  IN  size[Len(es)]

\* The data begins where the header ends, had it nothing in front of it.
DataStart_NoSize(es) == ALIGN(HeaderSize(es))

\* Where the data begins: behind the size of the header and the header.
DataStart(es) == ALIGN(8 + HeaderSize(es))

\* The file is opened as it is.
Truncated_Not(f) == f

\* open (path, O_WRONLY | O_CREAT | O_TRUNC)
Truncated(f) == {}

\* write: the file is truncated; the records are sorted and room is left for
\* the header.
WriteStart ==
  /\ ~aborted /\ out.pc = "open" /\ calls.writes < MaxWrites
  /\ \E p \in SortedBy(Len(entries), [i \in 1..Len(entries) |-> entries[i].raw_name]) :
       entries' = Reordered(entries, p)
  /\ file' = Truncated(file)
  /\ out' = [pc |-> "blobs", i |-> 1, pos |-> DataStart(entries')]
  /\ got' = <<>>
  /\ calls' = [calls EXCEPT !.writes = @ + 1]
  /\ UNCHANGED <<disk, aborted>>

\* The i-th blob write comes to: each record's metadata, then its data.
Nth(i) == <<(i + 1) \div 2, IF i % 2 = 1 THEN METADATA ELSE DATA>>

\* total_size: an int, then a uint64_t.
total_size(n) ==
  IF n % INT_MOD < INT_MOD \div 2 THEN n % INT_MOD
  ELSE UINT64_MOD + (n % INT_MOD) - INT_MOD

\* The checksum is left from an earlier write.
Stored_StaleChecksum(b, c, pos) ==
  [b EXCEPT !.offs = ALIGN(pos), !.size = total_size(SizeOf[c]),
            !.checksum = IF @ = {} THEN {c} ELSE @]

\* The place the data of the last blob ended.
Stored_Unaligned(b, c, pos) ==
  [b EXCEPT !.offs = pos, !.size = total_size(SizeOf[c]), !.checksum = {c}]

\* The fields write_blob sets, of a blob whose packed bytes are c.
Stored(b, c, pos) ==
  [b EXCEPT !.offs = ALIGN(pos), !.size = total_size(SizeOf[c]), !.checksum = {c}]

Copying == ~aborted /\ out.pc = "blobs" /\ out.i <= 2 * Len(entries)

\* The blob write_blob is called with.
Blob == entries[Nth(out.i)[1]].blobs[Nth(out.i)[2]]

\* write_blob skips a blob without a file.
SkipBlob ==
  /\ Copying /\ Blob.file = {}
  /\ out' = [out EXCEPT !.i = @ + 1] /\ got' = <<>>
  /\ UNCHANGED <<disk, entries, file, aborted, calls>>

\* One turn of the copy loop: the next piece of the file, as it is now.
ReadPiece ==
  /\ Copying
  /\ \E s \in Blob.file :
       /\ Len(got) < Len(Pieces[disk[s]])
       /\ got' = Append(got, Pieces[disk[s]][Len(got) + 1])
  /\ UNCHANGED <<disk, entries, file, out, aborted, calls>>

\* The end of the file, and of write_blob: what was read, compressed or not,
\* is at the next boundary. The writes of the loop are taken as one: without
\* a header nobody looks for the data.
StoreBlob ==
  /\ Copying
  /\ \E s \in Blob.file, d \in Contents :
       /\ Len(got) >= Len(Pieces[disk[s]]) /\ Pieces[d] = got
       /\ LET c == IF Blob.flags THEN Zlib[d] ELSE d
          IN  /\ entries' = [entries EXCEPT ![Nth(out.i)[1]].blobs[Nth(out.i)[2]] =
                                Stored(Blob, c, out.pos)]
              /\ file' = pwrite(file, At(ALIGN(out.pos), SizeOf[c], Data(c)))
              /\ out' = [out EXCEPT !.i = @ + 1, !.pos = ALIGN(@) + SizeOf[c]]
  /\ got' = <<>>
  /\ UNCHANGED <<disk, aborted, calls>>

WriteBlob == SkipBlob \/ ReadPiece \/ StoreBlob

\* Back at the start of the file: the size of the header first.
WriteSize ==
  /\ ~aborted /\ out.pc = "blobs" /\ out.i > 2 * Len(entries)
  /\ file' = pwrite(file, At(0, 8, [kind |-> "size", size |-> HeaderSize(entries)]))
  /\ out' = [out EXCEPT !.pc = "header"]
  /\ UNCHANGED <<disk, entries, got, aborted, calls>>

\* write_variant: nobody looks at what write() returns.
WriteHeader ==
  /\ ~aborted /\ out.pc = "header"
  /\ \/ file' = pwrite(file, At(8, HeaderSize(entries), [kind |-> "header", records |-> entries]))
     \/ UNCHANGED file
  /\ out' = [out EXCEPT !.pc = "open"]
  /\ UNCHANGED <<disk, entries, got, aborted, calls>>

\* g_error when a file cannot be read, a g_assert that fails, or the end of
\* the process.
Abort ==
  /\ ~aborted
  /\ aborted' = TRUE
  /\ UNCHANGED <<disk, entries, file, out, got, calls>>

Write == WriteStart \/ WriteBlob \/ WriteSize \/ WriteHeader

Next ==
  \/ \E h \in HexNames : AddRecord(h)
  \/ \E kind \in Kinds, s \in Sources, type \in Types, zlib \in BOOLEAN :
       AddBlob(kind, s, type, zlib)
  \/ Write
  \/ \E s \in Sources : Edit(s)
  \/ Abort

Spec == Init /\ [][Next]_vars

----------------------------------------------------------------------------
\* Within one call of write, no write touches bytes an earlier one wrote: the
\* header fits the room that was left for it before its offsets were known.
HeaderFits == [][out.pc # "open" => file \subseteq file']_vars
=============================================================================
