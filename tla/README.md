# eos-shard in TLA+

Specifications of eos-shard, a C library that packs many small documents
("records", each a set of "blobs") into one file, the shard, and reads them
back with random access. The modules are kept beside the code and follow it
function by function; this file says what each of them models, what TLC checks
about it, what TLAPS proves, and what is left out.

## 1. The system

| component | source (`src/src/`) | state it keeps | operations |
|---|---|---|---|
| version 2 format | `eos-shard-format-v2.h` | header, record, blob table entry, blob, string pool, all addressed by absolute offsets | - |
| version 2 writer | `eos-shard-writer-v2.c` | a lock; `ctx.offset`, blobs, records, checksum-to-place table, string pool | `add_blob` (several threads), `add_record`, `add_blob_to_record`, `finish` |
| version 2 reader | `eos-shard-shard-file-impl-v2.c` | header and record table in memory | find by name, list, foreach, look up and list blobs |
| shard file | `eos-shard-shard-file.c` | descriptor, implementation, state and waiting tasks of the initialization | `init`, `init_async`/`init_finish`, `load_blob`, finalize, hex names |
| blob, record | `eos-shard-blob.c`, `eos-shard-record.c` | a reference count, a reference to the shard file | load, stream, dictionary; look up, list |
| blob stream | `eos-shard-blob-stream.c` | a position | seek, tell, read |
| dictionary writer | `eos-shard-dictionary-writer.c` | a stream, block starts, last key, Bloom filter | `begin`, `add_entry`, `finish` |
| dictionary | `eos-shard-dictionary.c` | header, Bloom filter, borrowed descriptor | `lookup_key` |
| Bloom filter | `eos-shard-bloom-filter.c` | buckets | add, test, read, write |
| version 1 format, writer, reader | `eos-shard-format-v1.h`, `eos-shard-writer-v1.c`, `eos-shard-shard-file-impl-v1.c` | records of two blobs given as files; a GVariant followed by the data | `add_record`, `add_blob`, `write`, again and again; find, list |

How they interact: threads of one process share a writer and call `add_blob`;
the caller joins them, attaches blobs to records by the identifiers returned
and calls `finish`. The file is the only thing the writer and the reader share.
A shard file picks the reader by the magic, on a thread if asked to; records,
blobs and streams call back into it. A blob may hold a dictionary, which is
read through the shard file's descriptor.

What is hard:

* **Concurrency.** `add_blob` takes the lock twice and copies the data after it
  released it; it then sets two fields of the shared entry without it. A thread
  that finds its data deduplicated returns while another is still copying it.
  `init_async` has any number of callers, a worker thread and cancellation. A
  version 1 shard may be written again, and its source files change, while
  readers have it open.
* **Failure.** Every failed write is an assertion, a missing source file a
  `g_error`: the process ends, and the file stays as it is. Whether a reader
  notices depends on the order of the writes.
* **Layout.** Offsets are computed in one place and used in others: string
  offsets handed out long before the strings are written, a string table placed
  behind `ctx.offset` without moving it, alignment in three places.
* **Lifetimes.** Records, blobs and streams read through a descriptor that the
  shard file closes with its last reference; a dictionary keeps the bare number
  of it, and numbers are given out again by the kernel.
* **Boundaries.** Signed and unsigned positions that wrap, 32-bit values in a hash table of pointers, an 8-bit count, a
  buffer one byte short, partial reads, strings cut by the end of a chunk.

`PROJECT.json` lists each hazard at its line with the properties that cover it,
or why none does yet.

## 2. The modules

```
FileExtents
  |  |  |
  |  |  +-- ShardV2Format -- WriterV2 -- MCWriterV2 --------.
  |  |          |              |                         |
  |  +-- ShardFile -- ReaderV2-+----- ShardV2 -------- MCShardV2
  |          |                           |  `--------- ShardV2Proofs (and SearchProofs)
  |          |                        ShardArchive (INSTANCE)
  |          `------- ReaderV1 --.
  +-- ShardV1Format -- WriterV1 -+--- ShardV1 -------- MCShardV1
                                         |  `--------- ShardV1Proofs (and SearchProofs)
                                      RecordArchive (INSTANCE)

ShardFileInit -- ShardFileInitProofs     Lifetime --- MCLifetime
Dictionary ----- DictionaryProofs             `------ LifetimeProofs
     `---------- MCDictionary
BlobStream ----- BlobStreamProofs
     `-- ByteStream (INSTANCE)

SortSearch ----- SearchProofs (used by DictionaryProofs, ShardV1Proofs, ShardV2Proofs)
     |                `-------------.
     `---------- HexName ---- HexNameProofs
                    `-------- MCHexName
```

**FileExtents** - the file. It is a set of extents, what one `pwrite` left at
an offset; a write that touches an extent, even partly, destroys it. So an
overlap anywhere makes something unreadable. Contents of blobs are model values
with a size; a content's SHA-256 is the content itself (distinct data have
distinct checksums).

**SortSearch** - `g_array_sort` and `bsearch`, used by all writers and readers.
**SearchProofs** has what `bsearch` returns, for arrays of every length; the
other proofs of this list are in modules named after the one they are about.

**ShardFile** - `_eos_shard_shard_file_load_blob`: the checksum, and the one
read that is made of the stream, for both versions.

**ShardV1Format, WriterV1, ReaderV1** - the first format. The writer keeps the
names of the blobs' files and reads them in `write`, which truncates the shard,
computes the size of the header from a variant whose offsets are still zero,
writes the blobs, and last the header. The actions are `add_record`,
`add_blob` and the steps of `write`: `WriteStart` (the truncation), for every
blob `SkipBlob`, or a `ReadPiece` for each read of the copy loop and a
`StoreBlob` at its end, `WriteSize`, `WriteHeader`. Source files change between
any two of them (`Edit`), the writer stops anywhere (`Abort`), and the last
write may fail, which the code does not notice. The reader is a set of operators
on the file.

The copy loop reads a file in pieces. `Pieces` gives the pieces each of the
contents is read in, `got` has those `write_blob` has read so far, each as the
file was when it was read, so a file that is edited in place in the meantime is
stored as a mixture of what it held. `Blend(V)` is everything that can be read
of a file while it goes through the contents V; without an edit it is the one
content that is there. A file that is replaced by another of its name (a rename)
stays what it was for the writer that has it open. `StoreBlob` takes the writes
of the loop as one: they go behind the room for the header, and a file without a
header opens for nobody.

**RecordArchive** - what version 1 promises, without a file: records with up to
two blobs, added, set, and published in one step. Each blob then has the
contents of its own source file, whole if that was left alone during the write;
if not, each piece is one the file had there at some moment of it. From the
start of a write until its end nothing can be read.

**ShardV1** - writer and reader together, with readers that open the file in
any state and keep its header while it is written again (`opened`). Opening is
three reads in the code (the magic at `shard-file.c:84`, the size and the header
at `impl-v1.c:86` and `:90`) and one step (`Open`) here: a write of the writer
that comes between them is not modelled.

**HexName** - hex names and raw names: the two conversions, digit by digit,
`add_record` and the search by name, with the buffer the conversion leaves
half-filled. It is the one module in which characters matter.

**BlobStream, ByteStream** - `EosShardBlobStream` with the width of `gsize` and
`goffset`. A read is three steps, as it looks at the position three times; GIO
runs `read_async` on a thread, and a caller seeks only when no read is under
way (`Waiting`). `ByteStream` is a seekable stream in plain integers;
`ImplementsStream` is its specification. `self->pos + offset` may overflow a
signed type, which wraps in the build that is modelled.

**Lifetime** - the reference counts of shard files, records, blobs and streams,
dictionaries, which hold none, and the descriptor table of the process. An
action is one call (`find_record`, `list_blobs`, `lookup_blob`, `get_stream`,
`load_as_dictionary`, `ref`, `unref` with everything it frees), but for `init`,
which is cut between `open` and the detection of the version. The rest of the
process opens and closes descriptors beside it; at the start it has descriptor 0.
A record has its data and its metadata, either of which may be missing
(`Optional`); an object is not used again once it is finalized.

`self->fd` is 0 in a new object, and `finalize` closes it in every case. An
object without a path, for which `init` returns before `open`
(`shard-file.c:108`), and one that is dropped before `init` was called close
descriptor 0, whoever has it (`ZeroStruck`): the standard input, or another
shard file that was given the number. The model has this behaviour, and
`ReadsOwnFile`, `DictionaryReads` and `OthersKept` name it as their only
exception.

**ShardV2Format** - the structures of version 2 and their packed sizes.

**WriterV2** - the writer. `add_blob` is cut where the code gives up or takes
the lock: `AddBlobConstants` (strings enter the pool), `AddBlobNew` or
`AddBlobShared` (the second critical section), `AddBlobWrite` (the copy),
`AddBlobReturn` (the two unlocked assignments). `finish` is one action for each
structure it writes: a blob header, a record's table, a record, a string, the
header of the file, so that `Abort`, which may happen at any point, can come
between any two of these. The copy of a blob (`AddBlobWrite`) and the entries of
one table (`FinishTable`) are several writes in the code and one action here: no
thread writes to the regions of another, and no reader looks at the file before
its header is there, so nothing can see one half of them. `add_blob_to_record`
and `finish`, which take no lock, are enabled only when no `add_blob` is under
way: the discipline callers must follow.

**ReaderV2** - the reader as operators on a file. NULL is the empty set.

**ShardArchive** - what a shard promises, without a file: blobs and records are
added, blobs attached, and in one step everything becomes readable.

**ShardV2** - writer and reader together. Two history variables, `asked` and
`shelves`, hold what the callers did; `Seen` is what a reader that opens the
file in this state learns, computed with the reader's operators.
`ImplementsArchive` is the archive's specification with `published <- Seen`.

**ShardFileInit** - asynchronous initialization. The fields of the object are
variables; the worker thread takes two steps (open, detect), its callback in
the main loop a third. What GTask does is external: it holds a reference to the
object, and a cancelled cancellable overrides the result when it is fetched.
`init_async_ready` fetches it with the first caller's cancellable, so that
caller's cancellation becomes everybody's outcome; `OneOutcome` states exactly
that much and no more.

**Dictionary** - writer, Bloom filter and reader. Strings are numbers in
`strcmp` order with a size; the two FNV hashes of a key are constants, as are
the filter's size and number of hashes (the code computes them in floating
point). `finish` is two actions, all but the header and the header. A lookup is
one action for each turn of each loop. The scan of a block does not stop at its
end, nor behind the last entry: there it takes the block table, the Bloom filter
and what follows in the file for keys and values, up to the end of the chunk
(`ScanBehind`). What the bytes there spell is not computed; `behind` is any of
`Tails`, which say for each distance from the last entry which key, if any, the
string that begins there spells, and how long it is. One of them is used for the
whole life of a dictionary.

## 3. What TLC checks

| run | instance | properties |
|---|---|---|
| `writer_v2` | 3 threads, 3 requests (two with the same data, one compressed), 3 blobs, 1 record | `TypeOK`, `DataIntact`, `SharedOffset`, `WriteOnce` |
| `shard_v2` | 2 threads, 5 requests, 2 blobs, 2 records with up to 2 blobs each | `ListsComplete`, `ImplementsArchive` |
| `hex_name` | up to 3 records under 6 names of two bytes, looked up by every string of four of 5 characters and some of other lengths | `FoundByName`, `InTextOrder` |
| `shard_v1` | 2 records, 2 source files, one of two pieces, of which one changes once, at any time; blobs set twice, with 2 types, compressed or not; written up to twice, readers at any time | `TypeOK`, `OldReadersSafe`, `ListsComplete`, `BlobsLoad`, `ImplementsRecordArchive`, `HeaderFits` |
| `shard_file_init` | 3 callers | `TypeOK`, `SuccessIsUsable`, `OneOutcome`, `AliveWhilePending`, `OutcomeIsFinal`, `EveryCallAnswered` |
| `dictionary` | 4 keys, 2 values, 0 to 4 entries announced, up to 5 added, 3 kinds of bytes behind the entries | `TypeOK`, `NoFalseNegatives`, `BlocksCover`, `OnlyWhole`, `LookupCorrect`, `LookupEnds` |
| `blob_stream` | a `goffset` of 4 bits, blobs of 0 to 7 bytes, every offset, reads of 0 to 15 bytes | `TypeOK`, `PosInBlob`, `OnlyThisBlob`, `ImplementsStream` |
| `lifetime` | 2 shard files, with a path or without, 3 records, blobs, streams or dictionaries at once, 2 references each, 3 descriptors | `TypeOK`, `ReadsOwnFile`, `DictionaryReads`, `CountsExact`, `AllClosed`, `OthersKept` |

* `DataIntact`: the entry of every identifier that was returned has the size of
  its data, and the data is in the file, or being copied there by another thread.
* `SharedOffset`: entries with the same packed data have the same place.
* `WriteOnce`: no write touches bytes an earlier one wrote.
* `ImplementsArchive`: nothing can be read until the last write of `finish`, in
  whatever state the writer stopped; then every record is found by its name
  with the content types and contents that were asked for.
* `ListsComplete` (ShardV2): `list_records` has every record once, in the order
  of the names, and `list_blobs` of each exactly the items of the blobs attached
  to it, in the reverse order of their names and of attaching: each with the
  type, the sizes, the checksum and the flags asked for and the place of its
  bytes, and a NULL for an empty one.
* `SuccessIsUsable`, `OneOutcome`, `OutcomeIsFinal`, `EveryCallAnswered`,
  `AliveWhilePending`: whoever is told of success can use the object, all are
  told the same, for good, each is told, and the object outlives them.
* `NoFalseNegatives`, `BlocksCover`, `OnlyWhole`, `LookupCorrect`, `LookupEnds`:
  the filter never hides a key, the blocks cover the entries, only complete
  dictionaries open, a lookup is right, and it ends. `LookupCorrect`: a key that
  was added is found, with a value it was added with; one that was not is not
  found, unless the bytes behind the entries spell it at a place where the scan
  that starts in the last block takes a string for a key (`TakenForKeys`).
* `FoundByName`, `InTextOrder`: a record is found by every spelling of its name
  and by no other string, whatever an uninitialized buffer holds; the records
  of a file are in the order of their names as text.
* `ImplementsRecordArchive`, `HeaderFits`, `OldReadersSafe`, `BlobsLoad`,
  `ListsComplete` (ShardV1): a version 1 shard can be read after a `write` that
  completed, and at no other time, with blobs whole or in pieces as the archive
  says; the header fits the room left for it; a reader with an old header gets
  what it would have got before, or nothing; every blob that is listed loads;
  the lists have every record once and the blobs that were set in it, the data
  first, each of the type and with the bytes of its own source file.
* `ImplementsStream`, `PosInBlob`, `OnlyThisBlob`: the stream goes where the
  integers say, stays in its blob and returns no byte of another.
* `ReadsOwnFile`, `DictionaryReads`, `CountsExact`, `AllClosed`, `OthersKept`:
  whatever somebody holds can be read from its own file, in whatever order the
  rest is dropped; counts are exact; when all is dropped nothing stays open, and
  of anybody else's descriptors none is closed but 0, and that only by or after
  the finalization of a shard file that never opened one. The same finalization
  is the one way in which a shard file that was given descriptor 0 loses it.

Each property has a mutation of the model (an operator whose name ends in
`_Something`, right before the one it replaces) that TLC refutes.

**Bounds.** Three threads are one that copies, one that shares its place and
one that is beside them; 3 blobs make two shared and one not. Sizes are chosen
so that alignment matters: an empty content, one of 33 bytes, one that fills
the bytes from the header to the first boundary exactly. Strings include names
of 255 and types of 254 bytes, the limits. Two records with two blobs each
cover every order of sorting a table, equal names included; three records in
`hex_name` every shape of a bisection, with duplicates, through the same
`bsearch`. In `shard_v1` two writes make one header that outlives its data; the
article of two pieces can change between the reads of them, the page becomes
empty; `Requests` sets one source file with two types and two files with one
type, so that no two blobs of a record are told apart by one of these alone. In
`blob_stream` four bits are enough for every sum to wrap in both directions, a
read may ask for more than a `goffset` holds, and the blob may reach the
greatest `goffset`. In `lifetime` three slots are a record, its blob and a stream
on it, or two of a kind, and the table of three descriptors runs out. In `dictionary` the chunk is 10 bytes and
entries have 3 to 9, so that entries are cut in the key and in the value; every
entry fits a chunk, which is the condition under which a lookup ends (see
below). Two keys have the same bits in the filter, for false positives; behind the
entries lie NULs, keys where the scan takes them for values, and a key where it
takes it for one. The largest runs have 1,419,696 (`shard_v1`), 368,672
(`lifetime`), 293,861 (`shard_v2`) and 98,738 (`dictionary`) distinct states.
`MaxBlobs`, `MaxRecords`, `MaxAttach`, `MaxEntries`, `MaxSet`, `MaxEdits`,
`MaxWrites` and `MaxRefs` bound the calls.

**Deadlock** is not checked: a writer stops after `finish` or an abort, an
initialization when everybody is answered, a dictionary's writer when it has
added too much to finish, a process when its objects are used up.

**Fairness.** Safety runs assume none. `ShardFileInit` assumes that the thread
pool runs the task (`WF` of `Thread`) and that the main loop dispatches the
callbacks that are ready (`WF` of `Ready` and each `Callback`); nothing is
assumed of callers, of cancellation or of the owner. `Dictionary` assumes `WF`
of a step of the lookup, which is straight sequential code.

### Where the code departs from what is said of it

Each run refutes one property, with a constant scaled down where the code's
value is out of reach (the width of a `guint` or a `uint8_t`, a buffer's size).

| run | what it shows |
|---|---|
| `table_count` | a record with as many blobs as the count field has values is written with a count of 0 (256 in the code) |
| `short_load` | `load_contents` of a compressed blob larger than GIO's buffer returns a part of it: one read is taken for all |
| `long_entry` | a dictionary entry larger than a chunk makes lookups in its block run for ever |
| `closed_descriptor` | `init` closes the descriptor of a file that is no shard and `finalize` closes the number again: by then it may be that of another shard file, whose blobs can no longer be read |

### Limits met while modelling

The passing runs keep to these sides of them, and the properties hold there:

* a content type of 255 bytes, which the version 2 writer accepts, comes back as
  254: the reader's buffer (`impl-v2.c:134`) lacks the byte for the NUL. The
  longest type of `shard_v2` has 254;
* beyond 4 GiB the place of deduplicated data is truncated to 32 bits
  (`writer-v2.c:387`), beyond 2 GiB the size of a version 1 blob overflows an
  `int` (`writer-v1.c:211`). `DataSafe` is proved below that width;
* a version 1 source file that is edited in place while it is copied is stored as
  a mixture of its versions (`writer-v1.c:212`), with a checksum that fits it.
  `ImplementsRecordArchive` allows this and no more;
* `add_record` ignores that a name is not hexadecimal (`writer-v2.c:442`): "99a"
  is added as "0000". The names of `hex_name` are hexadecimal;
* a version 1 `write` whose last write fails returns as if nothing were wrong
  (`writer-v1.c:309`); the model has the failure, and that nothing can be read
  then, but no property says that it is reported;
* a version 1 blob's content size is taken in `add_blob`, its contents in
  `write`: if the file changed they disagree. `BlobsLoad` is about the stored
  size and checksum, which do not;
* after `write`, version 1's `add_blob` reaches the record that is last in the
  order of names, not the one added last: the model sets blobs only after
  another `add_record` (`latest`);
* the scan of a dictionary's last block goes on behind the entries
  (`dictionary.c:146`): a lookup of a key that was never added may find it in the
  block table (one of 97 blocks begins with an "a") or the Bloom filter.
  `LookupCorrect` excepts just these keys;
* a shard file without a path, or dropped before `init`, closes descriptor 0
  (`shard-file.c:272`); see Lifetime in section 2;
* a seek beside a `read_async` moves the position the read is about to add to,
  also out of the blob: the caller of the model waits (`Waiting`).

## 4. What is proved

For all values of the constants, from the assumptions named in the modules
(`StringsAssumption`, `ContentsAssumption`, `RequestsAssumption`, ...): any
number of threads, any requests, any sizes, any bounds.

* **`TypeCorrect`** (ShardV2Proofs): `Spec => [](TypeOK /\ IdsOK)`. `IdsOK`
  (identifiers in threads and records are those of blobs) is needed to know
  that the entries `finish` reads are there.
* **`WritesApart`** (ShardV2Proofs): `Spec => WriteOnce`. The inductive
  invariant is `Layout`: every extent of the file lies between the header and
  `Top` (`ctx.offset`, or the position in the string table once that is being
  written); the places the threads have reserved and not yet filled end at or
  below `ctx.offset`, apart from every extent and from one another; and no
  thread is at work once `finish` has begun. `WriteOnce` alone is not
  inductive: it says nothing of writes that are still to come.
* **`DataSafe`** (ShardV2Proofs): `Spec => [](Fits => DataIntact /\
  SharedOffset)`, where `Fits` is `offset < UINT_MOD`. The invariant is
  `Stored`: every checksum in the table has its data at its place or a thread
  that is writing it there (`Kept`), and the entries of returned identifiers,
  like the threads that are about to set theirs, agree with the table
  (`PlacedAt`). Without `Fits` it does not hold: a place beyond the width of a
  `guint` is remembered wrong. **`PlacesShared`** is its half about
  `SharedOffset` alone.
* **`OpenedIsWhole`** (DictionaryProofs): `Spec => []OnlyWhole`, from the
  entries' order, which `add_entry` maintains because the last key is the
  greatest, and from the order of `finish`'s writes.
* **`BloomFilterSound`** (DictionaryProofs): `Spec => []NoFalseNegatives`.

* **`TypeCorrect`**, **`OutcomeSafe`**, **`KeptAlive`**, **`OutcomeKept`**
  (ShardFileInitProofs): the safety of the initialization for any finite number
  of callers. The inductive invariant is `InitInv`: the object's state, the
  thread's step and the steps of the tasks agree (`InStep`: nobody waits who is
  not in the list, the list is empty once the outcome is known); besides the
  thread and the pending tasks at most one reference is held (`Counted`, from
  which the object lives as long as they need it); what the thread found is what
  the object has (`Consistent`); and every answer is the recorded outcome or the
  caller's own cancellation (`Told`). None of the properties is inductive: none
  says where a waiting task is.
* **`TypeCorrect`**, **`StreamSafe`**, **`StreamRefines`** (BlobStreamProofs):
  for every even width of the integers and every size that is a `goffset`. The
  `TypeCorrect` adds to the types, which the operations keep by their width, that
  no `pread` is asked for more than the caller's buffer holds. The
  core is the lemma `SeekExact`: the tests of `seek`, one signed and one
  unsigned, let a sum pass if and only if the sum in the integers is in the
  blob. The invariant `StreamInv` adds that what a read has computed still
  holds at its next step, which is why the caller must wait; with it every
  `ReadAdvance` is one read of `ByteStream` and the steps before it stutter.

* **`SearchFinds`** (SearchProofs): on a sorted array `bsearch` returns an item
  equal to the key if there is one, and only one item. The recursion is over
  pairs of bounds; `RecursionExists` shows from the set of all its partial
  graphs that the function exists, and the induction is over a set of numbers
  (`NaturalInduction`), because the library's induction takes an operator.
* **`TypeCorrect`**, **`BlocksSound`**, **`LookupSound`** (DictionaryProofs):
  types, `BlocksCover` and `LookupCorrect`. The inductive invariant says of the
  file that entries lie end to end (`Adjacent`) and that the blocks divide them
  (`Divided`); of a lookup, that the blocks it has left below begin at or before
  the key and those above beyond it (`Bisecting`), and that if the key is stored
  an entry with it is still ahead (`Scanning`); behind the last entry, that the
  scan is at a place it takes for a key's (`KeyPlace`). There is no assumption on
  what lies there: the exception is part of `LookupCorrect`.
* **`TypeCorrect`**, **`CountsAreExact`**, **`EveryDescriptorClosed`**,
  **`HeldReadsOwnFile`**, **`DictionaryReadsOwnFile`**, **`OthersAreKept`**
  (LifetimeProofs): for any number of objects, shard files, references and
  descriptors. The inductive invariant, `LInv`, counts: a shard
  file has as many references as its users hold and as objects refer to it, an
  object as many as its holders, records and streams included; and the
  descriptor a shard file keeps is open for it, or is 0 and was struck
  (`Descriptors`). The last three assume that every path holds a shard (`Corrupt = {}`): with one that does not
  they are false, which is what `closed_descriptor` shows. Files without a path,
  and files dropped before `init`, are among those they are about, with the
  exception for descriptor 0 that the properties name.
* **`TypeCorrect`**, **`HeaderFitsAlways`** (ShardV1Proofs): the layout of the
  version 1 writer. `WriterInvariant` has where the extents lie: behind the
  room for the header while blobs are written, apart from it when the header is
  due. The size of the header is a recursive sum; `HeaderSizeSame` shows that it
  does not change with what `write_blob` stores in the records.
* **`OldReaders`**, **`ListsAreComplete`**, **`BlobsAlwaysLoad`**,
  **`ImplementsArchive`** (ShardV1Proofs): version 1 as a whole. To the layout
  `ShardInvariant` adds `History` - the shelves are the records in another order
  (`Shelved`), sorted during `write` (`Begun`), the blobs `write` has passed are
  in the file with contents their source had, whole or in pieces (`Progress`),
  and what has been read of the next one comes from `Versions` and from what the
  file has held since the write began (`ReadFrom`) - and
  `FileInvariant`: data are there in full length (`DataShaped`), the size is in
  front when the header is due (`SizeWritten`), a header is in the file only
  when `write` is over and its blobs are with it (`HeadersOK`), and each reader
  saw what its header's checksums say (`Readers`). `OldReaders` needs only the
  checksums: whatever lies at the offset now, it either has the checksum or is
  not returned. In `ImplementsArchive` the last write is `ArchiveSeal` and all
  others stutter; the witness for each blob is the content its checksum names,
  which is in the `Blend` of what its file has held: `had` only grows during a
  write, and so does its `Blend` (`BlendGrows`). `BlobsAlwaysLoad` assumes
  `SmallFiles` (no size overflows the `int` it is counted in),
  `ImplementsArchive` also `WholeLoads` (all that may be read of a file that is
  compressed, mixtures included, has one size, and compressed fits the
  converter's buffer): the limits section 3 lists, which the instance of
  `shard_v1` keeps to. That every mixture is one of the `Contents` is
  `BlendsAssumption`.
* **`Found`**, **`FileInTextOrder`** (HexNameProofs): for names and files of
  every size. The invariant, `HoldsNames`: a record for every name that was
  asked for and no others, ordered by `memcmp` once written. The rest is about
  the operators: `memcmp` is the lexicographic order (`Compare`, `LessTrans`),
  so `SearchFinds` applies; a byte is its two digits, so the text of a name
  determines it (`TextInjective`) and is ordered as it is (`TextOrder`). `Found`
  assumes `StrangersApart`: a string that is not a name, of which `add_record`
  stores the digits before the first that is none, is not stored as a name
  somebody looks up. Without it the search finds that record.

* **`ListsAreComplete`**, **`FileImplementsArchive`** (ShardV2Proofs): version 2
  as a whole. `ShardInvariant` adds to the invariants of the writer that no two
  extents begin at one place, so every read has one answer (`Apart`); that what
  `finish` has passed is in the file - blob headers, tables, records, strings at
  the offsets the pool gave out, and a header only at the end (`LaidOut`); that
  the records are the shelves, sorted by name, and each table the blobs of its
  shelf, sorted by name and stably (`Filed`); and that every entry says what
  `add_blob` was asked for (`Asked`). The last is the one about threads: the
  offsets of a name are taken in the first critical section and stored in the
  second, when the pool may have grown (`Extends`, `TextsExtend`).
  From it follows what each operator of the reader returns on a complete file
  (`CompleteOpens`, `TableReads`, `TextReads`, `LoadsWhole`, `OneOrNone`); that
  `find_blob` takes the first blob attached is `FirstStays`, for which the sort
  has to be stable. In the refinement `FinishHeader` is `ArchiveSeal`, the
  return of `add_blob` is `ArchiveAddBlob`, and the threads' other steps, the
  rest of `finish` and an abort stutter. `ListsAreComplete` says of every item of
  a list what it is; that the table is sorted stably makes the order of the items
  known up to blobs with equal names, and these are in the order of attaching.
  Both assume `FewAttached` (a record has no more blobs than a `uint8_t` counts,
  which the code does not test: `table_count`), `ShortTypes` (types that fit the
  reader's buffer), and `PlacesFit` in every state (offsets below the width of a
  `guint`); the second also `OneRead` (compressed data that fit the converter's
  buffer: `short_load`). These are the limits of section 3, and the instance of
  `shard_v2` keeps to them.

**Only model-checked**: all liveness (`EveryCallAnswered`, `LookupEnds`), which
is out of the prover's reach. Every other property of a run that passes is a
theorem.

## 5. What is not modelled

* Calls that break the version 2 writer's discipline: `add_blob_to_record` or
  `finish` beside `add_blob`, which read arrays without the lock, and `add_blob`
  after `finish`, which would overwrite the string table.
* Short writes, which pass the assertions (`>= 0`), and writes to a dictionary's
  stream that fail, which are ignored; source files that change while the
  version 2 writer reads them three times.
* The synchronous and the asynchronous `init` of one object: the first neither
  looks at `init_state` nor sets it. Each is modelled alone.
* A file shorter than a dictionary's header, which leaves the header on the
  stack uninitialized; a dictionary announced for no entries, which divides by
  zero when one is added; `add_blob` with too long a name, which returns 0, the
  valid identifier of the first blob.
* Threads that share one record or blob: their counts are plain integers.
* Durability across a power failure: the model's file keeps every write.
* The framing of a GVariant (its length is a function of the number of records
  and of the content types), magic numbers and byte order, the GObject
  interface, enumerations and types, which have no behaviour of their own.

## 6. Plan

Done: the version 2 writer, reader and archive; version 1 likewise; names; the
initialization; streams; lifetimes; the dictionary; the proofs of section 4.

1. **LockDiscipline**: the writer without `Quiet` - the accesses of each call
   to the shared members with and without the lock, calls after `finish`.
2. **Failing writes**: short and failed writes in WriterV2 and Dictionary.
