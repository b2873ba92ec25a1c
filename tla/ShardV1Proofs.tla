--------------------------- MODULE ShardV1Proofs ---------------------------
(***************************************************************************)
(* Proofs about the version 1 writer and reader: the types of the writer,  *)
(* that its writes stay apart, and what readers get out of the file.       *)
(***************************************************************************)
EXTENDS ShardV1, SearchProofs

LEMMA AlignUp == \A n \in Nat : ALIGN(n) \in Boundaries /\ ALIGN(n) \in Nat /\ ALIGN(n) >= n
  BY DEF ALIGN, Boundaries

LEMMA TotalSize ==
  ASSUME NEW n \in Nat
  PROVE  total_size(n) \in Nat /\ (n < INT_MOD \div 2 => total_size(n) = n)
<1>1. INT_MOD \in Nat \ {0} /\ UINT64_MOD \in Nat /\ INT_MOD <= UINT64_MOD
  BY WidthsV1Assumption
<1>2. n % INT_MOD \in 0..INT_MOD - 1 /\ (n < INT_MOD => n % INT_MOD = n)
  BY <1>1
<1>3. INT_MOD \div 2 <= INT_MOD
  BY <1>1
<1> QED
  BY <1>1, <1>2, <1>3 DEF total_size

----------------------------------------------------------------------------
\* The header: its size is a sum over the records, of their content types.
HeaderSum(size, es) ==
  size = [k \in 0..Len(es) |-> IF k = 0 THEN MAGIC_SIZE ELSE size[k - 1] + RecordSize(es[k])]

LEMMA RecordSizeType ==
  ASSUME NEW e \in RecordEntry
  PROVE  RecordSize(e) \in Nat \ {0}
<1>1. e.blobs[METADATA].content_type \in Strings /\ e.blobs[DATA].content_type \in Strings
  BY DEF RecordEntry, BlobEntry, Kinds
<1>2. StrLen[e.blobs[METADATA].content_type] \in Nat /\ StrLen[e.blobs[DATA].content_type] \in Nat
  BY <1>1, StringsAssumption
<1>3. RECORD_SIZE = 140
  BY DEF RECORD_SIZE
<1> QED
  BY <1>2, <1>3 DEF RecordSize

LEMMA HeaderSums ==
  ASSUME NEW es \in Seq(RecordEntry)
  PROVE  \E size : /\ HeaderSum(size, es) /\ size \in [0..Len(es) -> Nat]
                   /\ HeaderSize(es) = size[Len(es)]
<1> DEFINE n == Len(es)
           step == [k \in 1..n |-> [v \in Nat |-> v + RecordSize(es[k])]]
           Sum(g) == g = [k \in 0..n |-> IF k = 0 THEN MAGIC_SIZE ELSE g[k - 1] + RecordSize(es[k])]
           size == CHOOSE g : Sum(g)
<1>0. n \in Nat
  OBVIOUS
<1>1. Steps(Nat, n, step)
  <2>1. \A k \in 1..n : RecordSize(es[k]) \in Nat
    BY RecordSizeType
  <2> QED
    BY <2>1 DEF Steps
<1>2. PICK x : Computes(x, Nat, MAGIC_SIZE, n, step)
  <2>1. MAGIC_SIZE \in Nat
    BY DEF MAGIC_SIZE
  <2> HIDE DEF step, n
  <2> QED
    BY <1>0, <1>1, <2>1, RecursionExists
<1>3. x \in [0..n -> Nat] /\ x[0] = MAGIC_SIZE /\ \A k \in 1..n : x[k] = x[k - 1] + RecordSize(es[k])
  <2>1. x \in [0..n -> Nat] /\ x[0] = MAGIC_SIZE /\ \A k \in 1..n : x[k] = step[k][x[k - 1]]
    <3> HIDE DEF step, n
    <3> QED
      BY <1>2 DEF Computes
  <2>2. ASSUME NEW k \in 1..n
        PROVE  x[k] = x[k - 1] + RecordSize(es[k])
    <3>1. k - 1 \in 0..n
      BY <1>0
    <3>2. x[k - 1] \in Nat
      BY <2>1, <3>1
    <3>3. step[k][x[k - 1]] = x[k - 1] + RecordSize(es[k])
      BY <3>2
    <3> QED
      BY <2>1, <3>3
  <2> QED
    BY <2>1, <2>2
<1>4. Sum(x)
  <2>1. \A k \in 0..n : x[k] = IF k = 0 THEN MAGIC_SIZE ELSE x[k - 1] + RecordSize(es[k])
    BY <1>0, <1>3
  <2> HIDE DEF n
  <2> QED
    BY <1>3, <2>1
<1>5. Sum(size)
  BY <1>4
<1>6. HeaderSize(es) = size[n]
  BY DEF HeaderSize
<1> HIDE DEF size
<1> DEFINE S == {k \in Nat : k <= n => size[k] = x[k]}
<1>7. 0 \in S
  BY <1>0, <1>3, <1>5
<1>8. ASSUME NEW k \in Nat, k \in S
      PROVE  k + 1 \in S
  <2> SUFFICES ASSUME k + 1 <= n
               PROVE  size[k + 1] = x[k + 1]
    OBVIOUS
  <2>1. k + 1 \in 0..n /\ k + 1 # 0 /\ (k + 1) - 1 = k /\ k + 1 \in 1..n
    BY <1>0
  <2>2. size[k + 1] = size[k] + RecordSize(es[k + 1])
    BY <1>5, <2>1
  <2>3. size[k] = x[k]
    BY <1>8, <2>1
  <2> QED
    BY <1>3, <2>1, <2>2, <2>3
<1>9. \A k \in 0..n : size[k] = x[k]
  <2>1. Nat \subseteq S
    <3> HIDE DEF S
    <3> QED
      BY <1>7, <1>8, NaturalInduction
  <2> QED
    BY <1>0, <2>1
<1>10. size \in [0..n -> Nat]
  <2>1. size = [k \in 0..n |-> size[k]]
    BY <1>5
  <2> QED
    BY <1>3, <1>9, <2>1
<1> QED
  BY <1>5, <1>6, <1>10 DEF HeaderSum

\* It is at least the magic, and depends on the content types only.
LEMMA HeaderSizeType ==
  ASSUME NEW es \in Seq(RecordEntry)
  PROVE  HeaderSize(es) \in Nat \ {0}
<1>1. PICK size : /\ HeaderSum(size, es) /\ size \in [0..Len(es) -> Nat]
                  /\ HeaderSize(es) = size[Len(es)]
  BY HeaderSums
<1> DEFINE n == Len(es)
<1>2. n \in Nat /\ n \in 0..n
  OBVIOUS
<1>3. CASE n = 0
  <2>1. size[n] = MAGIC_SIZE
    BY <1>1, <1>2, <1>3 DEF HeaderSum
  <2> QED
    BY <1>1, <2>1 DEF MAGIC_SIZE
<1>4. CASE n # 0
  <2>0. n \in 1..n /\ n - 1 \in 0..n
    BY <1>2, <1>4
  <2>1. size[n] = size[n - 1] + RecordSize(es[n])
    BY <1>1, <1>2, <1>4 DEF HeaderSum
  <2>2. size[n - 1] \in Nat
    BY <1>1, <2>0
  <2>3. RecordSize(es[n]) \in Nat \ {0}
    BY <2>0, RecordSizeType
  <2> QED
    BY <1>1, <2>1, <2>2, <2>3
<1> QED
  BY <1>3, <1>4

LEMMA HeaderSizeSame ==
  ASSUME NEW es \in Seq(RecordEntry), NEW fs \in Seq(RecordEntry), Len(fs) = Len(es),
         \A k \in 1..Len(es), kind \in Kinds : fs[k].blobs[kind].content_type = es[k].blobs[kind].content_type
  PROVE  HeaderSize(fs) = HeaderSize(es)
<1> DEFINE n == Len(es)
<1>1. PICK x : HeaderSum(x, es) /\ HeaderSize(es) = x[n]
  BY HeaderSums
<1>2. PICK y : HeaderSum(y, fs) /\ HeaderSize(fs) = y[n]
  BY HeaderSums
<1>3. \A k \in 1..n : RecordSize(es[k]) = RecordSize(fs[k])
  BY DEF RecordSize, Kinds
<1>4. n \in Nat
  OBVIOUS
<1> DEFINE S == {k \in Nat : k <= n => x[k] = y[k]}
<1>5. 0 \in S
  BY <1>1, <1>2, <1>4 DEF HeaderSum
<1>6. ASSUME NEW k \in Nat, k \in S
      PROVE  k + 1 \in S
  <2> SUFFICES ASSUME k + 1 <= n
               PROVE  x[k + 1] = y[k + 1]
    OBVIOUS
  <2>1. k + 1 \in 0..n /\ k + 1 # 0 /\ (k + 1) - 1 = k /\ k + 1 \in 1..n /\ k <= n
    BY <1>4
  <2>2. x[k + 1] = x[k] + RecordSize(es[k + 1]) /\ y[k + 1] = y[k] + RecordSize(fs[k + 1])
    BY <1>1, <1>2, <2>1 DEF HeaderSum
  <2> QED
    BY <1>3, <1>6, <2>1, <2>2
<1>7. n \in S
  <2> HIDE DEF S
  <2> QED
    BY <1>4, <1>5, <1>6, NaturalInduction
<1> QED
  BY <1>1, <1>2, <1>4, <1>7

----------------------------------------------------------------------------
\* What the calls do to the array of records.
LEMMA Appended ==
  ASSUME NEW es \in Seq(RecordEntry), NEW r \in RecordEntry, NEW fs, fs = Append(es, r)
  PROVE  /\ fs \in Seq(RecordEntry) /\ Len(fs) = Len(es) + 1
         /\ fs[Len(es) + 1] = r
         /\ \A j \in 1..Len(es) : fs[j] = es[j]
  OBVIOUS

BlobSet(fs, es, i, kind, b) == fs = [es EXCEPT ![i].blobs[kind] = b]

LEMMA BlobReplaced ==
  ASSUME NEW es \in Seq(RecordEntry), NEW i \in 1..Len(es), NEW kind \in Kinds, NEW b \in BlobEntry,
         NEW fs, BlobSet(fs, es, i, kind, b)
  PROVE  /\ fs \in Seq(RecordEntry) /\ Len(fs) = Len(es)
         /\ \A j \in 1..Len(es) : fs[j].raw_name = es[j].raw_name
         /\ \A j \in 1..Len(es), k \in Kinds :
              j # i \/ k # kind => fs[j].blobs[k] = es[j].blobs[k]
         /\ fs[i].blobs[kind] = b
<1> USE DEF BlobSet
<1>1. \A j \in 1..Len(es) : es[j] \in RecordEntry
  OBVIOUS
<1>2. Len(fs) = Len(es) /\ DOMAIN fs = 1..Len(es)
  OBVIOUS
<1>3. \A j \in 1..Len(es) : j # i => fs[j] = es[j]
  OBVIOUS
<1>4. fs[i] = [es[i] EXCEPT !.blobs = [@ EXCEPT ![kind] = b]]
  OBVIOUS
<1>5. /\ fs[i] \in RecordEntry /\ fs[i].raw_name = es[i].raw_name
      /\ fs[i].blobs[kind] = b
      /\ \A k \in Kinds : k # kind => fs[i].blobs[k] = es[i].blobs[k]
  <2>1. es[i] \in RecordEntry
    BY <1>1
  <2>2. es[i].blobs \in [Kinds -> BlobEntry]
    BY <2>1 DEF RecordEntry
  <2> DEFINE bs == [es[i].blobs EXCEPT ![kind] = b]
  <2>3. bs \in [Kinds -> BlobEntry] /\ bs[kind] = b /\ \A k \in Kinds : k # kind => bs[k] = es[i].blobs[k]
    BY <2>2
  <2>4. fs[i] = [raw_name |-> es[i].raw_name, blobs |-> bs]
    BY <1>4, <2>1 DEF RecordEntry
  <2> HIDE DEF bs
  <2>5. fs[i] \in RecordEntry
    <3>1. es[i].raw_name \in Nat
      BY <2>1 DEF RecordEntry
    <3> DEFINE raw == es[i].raw_name  e == fs[i]
    <3>2. e = [raw_name |-> raw, blobs |-> bs] /\ raw \in Nat /\ bs \in [Kinds -> BlobEntry]
      BY <2>3, <2>4, <3>1
    <3> HIDE DEF raw, e
    <3>3. e \in RecordEntry
      BY <3>2 DEF RecordEntry
    <3> QED
      BY <3>3 DEF e
  <2> QED
    BY <2>3, <2>4, <2>5
<1>6. fs \in Seq(RecordEntry)
  <2>1. \A j \in 1..Len(es) : fs[j] \in RecordEntry
    BY <1>1, <1>3, <1>5
  <2>2. fs = [j \in 1..Len(es) |-> fs[j]]
    BY <1>2
  <2> QED
    BY <2>1, <2>2
<1> QED
  BY <1>2, <1>3, <1>5, <1>6

LEMMA ReorderedSeq ==
  ASSUME NEW es \in Seq(RecordEntry), NEW p \in Reorders(Len(es)), NEW fs, fs = Reordered(es, p)
  PROVE  /\ fs \in Seq(RecordEntry) /\ Len(fs) = Len(es)
         /\ \A j \in 1..Len(es) : fs[j] = es[p[j]] /\ p[j] \in 1..Len(es)
<1>1. fs = [j \in 1..Len(es) |-> es[p[j]]] /\ Len(es) \in Nat
  BY DEF Reordered
<1>2. \A j \in 1..Len(es) : p[j] \in 1..Len(es)
  BY DEF Reorders
<1>3. \A j \in 1..Len(es) : es[p[j]] \in RecordEntry
  BY <1>2
<1> HIDE DEF RecordEntry
<1>4. fs \in [1..Len(es) -> RecordEntry]
  BY <1>1, <1>3
<1>5. fs \in Seq(RecordEntry) /\ Len(fs) = Len(es)
  BY <1>1, <1>4
<1> QED
  BY <1>1, <1>2, <1>5

----------------------------------------------------------------------------
\* Every piece that was read of the file b is what W says it held.
ReadBy(active, b, g, W) == active => \A s \in b.file : PiecesOf(W[s], g)

ReadFrom(W) == ReadBy(Copying, Blob, got, W)

\* Every source file holds one of its versions, and is read piece by piece.
Versioned == (\A s \in Sources : disk[s] \in Versions[s]) /\ ReadFrom(Versions)

\* What add_blob leaves in a blob: a file that can be compressed if the blob
\* is to be, and the size of one of its versions.
Given(b) ==
  /\ b.file = {} => b.offs = 0
  /\ \A s \in b.file : /\ b.file = {s}
                       /\ b.flags => Blend(Versions[s]) \subseteq Plain
                       /\ \E c \in Versions[s] : b.uncompressed_size = SizeOf[c]

AllGiven == \A i \in 1..Len(entries), kind \in Kinds : Given(entries[i].blobs[kind])

\* Where the extents lie: the data between the room for the header and the
\* position of the file descriptor, the size of the header in front of it.
Layout ==
  /\ out.pc = "blobs" =>
       /\ DataStart(entries) <= out.pos
       /\ \A e \in file : DataStart(entries) <= e.off /\ e.off + e.len <= out.pos
  /\ out.pc = "header" =>
       \A e \in file : e.off + e.len <= 8 \/ DataStart(entries) <= e.off

WriterInvariant == TypeOK /\ Versioned /\ AllGiven /\ Layout

\* The end of write_blob.
EndBlob == SkipBlob \/ StoreBlob

\* It ends in two ways: the blob has no file, or its bytes are c, those of d
\* if it is not compressed.
Skipped(i, kind) ==
  /\ entries[i].blobs[kind].file = {}
  /\ entries' = entries /\ file' = file
  /\ out'.pc = out.pc /\ out'.i = out.i + 1 /\ out'.pos = out.pos

Taken(s, d) == Len(got) >= Len(Pieces[disk[s]]) /\ Pieces[d] = got

Copied(i, kind, s, c) ==
  /\ Copying /\ Nth(out.i) = <<i, kind>> /\ s \in entries[i].blobs[kind].file
  /\ \E d \in Contents : Taken(s, d) /\ c = IF entries[i].blobs[kind].flags THEN Zlib[d] ELSE d
  /\ entries' = [entries EXCEPT ![i].blobs[kind] = Stored(entries[i].blobs[kind], c, out.pos)]
  /\ file' = pwrite(file, At(ALIGN(out.pos), SizeOf[c], Data(c)))
  /\ out'.pc = out.pc /\ out'.i = out.i + 1 /\ out'.pos = ALIGN(out.pos) + SizeOf[c]

LEMMA NthType ==
  ASSUME NEW n \in Nat, NEW i \in Nat \ {0}, i <= 2 * n
  PROVE  Nth(i)[1] \in 1..n /\ Nth(i)[2] \in Kinds
<1>1. (i + 1) \div 2 \in 1..n
  OBVIOUS
<1> QED
  BY <1>1 DEF Nth, Kinds

LEMMA BlobType ==
  ASSUME TypeOK, NEW i \in 1..Len(entries), NEW kind \in Kinds
  PROVE  entries[i] \in RecordEntry /\ entries[i].blobs[kind] \in BlobEntry
<1>1. entries[i] \in RecordEntry
  BY DEF TypeOK
<1> HIDE DEF BlobEntry
<1> QED
  BY <1>1 DEF RecordEntry

LEMMA BlendGrows ==
  /\ \A V, W, g : V \subseteq W /\ PiecesOf(V, g) => PiecesOf(W, g)
  /\ \A V, W : V \subseteq W => Blend(V) \subseteq Blend(W)
<1>1. \A V, W, g : V \subseteq W /\ PiecesOf(V, g) => PiecesOf(W, g)
  BY DEF PiecesOf
<1> QED
  BY <1>1 DEF Blend

LEMMA TakenBlend ==
  ASSUME NEW V, NEW s \in Sources, disk[s] \in V, PiecesOf(V, got), NEW d \in Contents, Taken(s, d),
         Len(got) \in Nat, Len(Pieces[disk[s]]) \in Nat
  PROVE  d \in Blend(V)
<1>1. Pieces[d] = got /\ Len(Pieces[disk[s]]) <= Len(got)
  BY DEF Taken
<1> QED
  BY <1>1 DEF Blend

LEMMA PieceLengths ==
  ASSUME TypeOK
  PROVE  Len(got) \in Nat /\ \A s \in Sources : Len(Pieces[disk[s]]) \in Nat
<1>1. \A s \in Sources : Pieces[disk[s]] \in Seq(Chunks)
  BY PiecesAssumption DEF TypeOK
<1>2. got \in Seq(Chunks)
  BY DEF TypeOK
<1> QED
  BY <1>1, <1>2

StoredAs(i, kind, c) ==
  /\ entries' = [entries EXCEPT ![i].blobs[kind] = Stored(entries[i].blobs[kind], c, out.pos)]
  /\ file' = pwrite(file, At(ALIGN(out.pos), SizeOf[c], Data(c)))
  /\ out' = [out EXCEPT !.i = @ + 1, !.pos = ALIGN(@) + SizeOf[c]]

LEMMA WriteBlobCases ==
  ASSUME TypeOK, Versioned, AllGiven, EndBlob
  PROVE  /\ out.pc = "blobs" /\ out' \in [pc: {"blobs"}, i: Nat \ {0}, pos: Nat]
         /\ out.i <= 2 * Len(entries) /\ disk' = disk /\ aborted' = aborted /\ calls' = calls
         /\ \E i \in 1..Len(entries), kind \in Kinds :
              /\ Nth(out.i) = <<i, kind>>
              /\ \/ Skipped(i, kind)
                 \/ \E s \in Sources, c \in Contents : Copied(i, kind, s, c)
<1>1. /\ out.pc = "blobs" /\ out.i \in Nat \ {0} /\ out.pos \in Nat /\ out.i <= 2 * Len(entries)
      /\ out \in [pc: {"open", "blobs", "header"}, i: Nat \ {0}, pos: Nat]
      /\ disk' = disk /\ aborted' = aborted /\ calls' = calls /\ Copying
  BY DEF EndBlob, SkipBlob, StoreBlob, Copying, TypeOK
<1> DEFINE i == Nth(out.i)[1]
           kind == Nth(out.i)[2]
           b == entries[i].blobs[kind]
           Wrote == /\ out' \in [pc: {"blobs"}, i: Nat \ {0}, pos: Nat]
                    /\ Skipped(i, kind) \/ \E s \in Sources, c \in Contents : Copied(i, kind, s, c)
<1>2. i \in 1..Len(entries) /\ kind \in Kinds /\ Nth(out.i) = <<i, kind>>
  <2>1. Len(entries) \in Nat
    BY DEF TypeOK
  <2>2. Nth(out.i)[1] \in 1..Len(entries) /\ Nth(out.i)[2] \in Kinds
    BY <1>1, <2>1, NthType
  <2> QED
    BY <2>2 DEF Nth
<1>3. b \in BlobEntry /\ Given(b)
  BY <1>2, BlobType DEF AllGiven
<1>4. ASSUME b.file = {},
             out' = [out EXCEPT !.i = @ + 1],
             UNCHANGED <<entries, file>>
      PROVE  Wrote
  <2>1. Skipped(i, kind)
    BY <1>1, <1>4 DEF Skipped
  <2>2. out' \in [pc: {"blobs"}, i: Nat \ {0}, pos: Nat]
    BY <1>1, <1>4
  <2> QED
    BY <2>1, <2>2
<1>5. ASSUME NEW s \in b.file, NEW d \in Contents, Taken(s, d),
             NEW c, c = IF b.flags THEN Zlib[d] ELSE d, StoredAs(i, kind, c)
      PROVE  Wrote
  <2>0. /\ entries' = [entries EXCEPT ![i].blobs[kind] = Stored(b, c, out.pos)]
        /\ file' = pwrite(file, At(ALIGN(out.pos), SizeOf[c], Data(c)))
        /\ out' = [out EXCEPT !.i = @ + 1, !.pos = ALIGN(@) + SizeOf[c]]
    BY <1>5 DEF StoredAs
  <2>1. s \in Sources
    BY <1>3 DEF BlobEntry
  <2>2. b.flags => d \in Plain
    <3>1. Blob = b
      BY DEF Blob
    <3>2. PiecesOf(Versions[s], got) /\ disk[s] \in Versions[s]
      BY <1>1, <2>1, <3>1 DEF Versioned, ReadFrom, ReadBy
    <3>3. d \in Blend(Versions[s])
      BY <1>5, <2>1, <3>2, PieceLengths, TakenBlend
    <3> QED
      BY <1>3, <3>3 DEF Given
  <2>3. c \in Contents /\ SizeOf[c] \in Nat
    BY <1>5, <2>2, ContentsAssumption
  <2>4. ALIGN(out.pos) \in Nat
    BY <1>1, AlignUp
  <2>5. out' \in [pc: {"blobs"}, i: Nat \ {0}, pos: Nat] /\ out'.i = out.i + 1
        /\ out'.pos = ALIGN(out.pos) + SizeOf[c] /\ out'.pc = out.pc
    <3> DEFINE m == ALIGN(out.pos) + SizeOf[c]
    <3>0. m \in Nat
      BY <2>3, <2>4
    <3>1. out' = [out EXCEPT !.i = out.i + 1, !.pos = m]
      BY <2>0
    <3> HIDE DEF m
    <3>2. out' = [pc |-> out.pc, i |-> out.i + 1, pos |-> m]
      <4>1. out \in [pc: {"open", "blobs", "header"}, i: Nat \ {0}, pos: Nat]
        BY <1>1
      <4> QED
        BY <3>1, <4>1
    <3>3. out' \in [pc: {"blobs"}, i: Nat \ {0}, pos: Nat] /\ out'.i = out.i + 1
          /\ out'.pos = m /\ out'.pc = out.pc
      BY <1>1, <3>0, <3>2
    <3> QED
      BY <3>3 DEF m
  <2>6. Copied(i, kind, s, c)
    <3>1. \E x \in Contents : Taken(s, x) /\ c = IF b.flags THEN Zlib[x] ELSE x
      BY <1>5
    <3> HIDE DEF i, kind
    <3> QED
      BY <1>1, <1>2, <1>5, <2>0, <2>5, <3>1 DEF Copied
  <2> QED
    BY <2>1, <2>3, <2>5, <2>6
<1>6. ASSUME SkipBlob
      PROVE  Wrote
  <2>1. b.file = {} /\ out' = [out EXCEPT !.i = @ + 1] /\ UNCHANGED <<entries, file>>
    BY <1>6 DEF SkipBlob, Blob
  <2> HIDE DEF i, kind, b, Wrote
  <2> QED
    BY <1>4, <2>1
<1>7. ASSUME StoreBlob
      PROVE  Wrote
  <2>1. \E s \in b.file, d \in Contents :
          Taken(s, d) /\ StoredAs(i, kind, IF b.flags THEN Zlib[d] ELSE d)
    BY <1>7 DEF StoreBlob, Blob, Taken, StoredAs
  <2> HIDE DEF i, kind, b, Wrote
  <2> QED
    BY <1>5, <2>1
<1>8. Wrote
  BY <1>6, <1>7 DEF EndBlob
<1> QED
  BY <1>1, <1>2, <1>8
\* add_blob: the fields it sets in a blob, all at once.
Updated(b, old, s, type, zlib, n) ==
  b = [old EXCEPT !.file = {s}, !.flags = zlib, !.content_type = type, !.uncompressed_size = n]

LEMMA BlobUpdated ==
  ASSUME NEW old \in BlobEntry, NEW s \in Sources, NEW type \in Strings, NEW zlib \in BOOLEAN, NEW n \in Nat,
         NEW b, Updated(b, old, s, type, zlib, n)
  PROVE  /\ b \in BlobEntry
         /\ b.file = {s} /\ b.content_type = type /\ b.flags = zlib /\ b.uncompressed_size = n
  BY DEF BlobEntry, Updated

LEMMA AddBlobCases ==
  ASSUME TypeOK, NEW kind \in Kinds, NEW s \in Sources, NEW type \in Types, NEW zlib \in BOOLEAN,
         AddBlob(kind, s, type, zlib)
  PROVE  /\ out.pc = "open" /\ Len(entries) \in 1..Len(entries)
         /\ disk' = disk /\ file' = file /\ out' = out /\ aborted' = aborted
         /\ zlib => Blend(Versions[s]) \subseteq Plain
         /\ \E b \in BlobEntry :
              /\ b.file = {s} /\ b.content_type = type /\ b.flags = zlib
              /\ b.uncompressed_size = SizeOf[disk[s]]
              /\ BlobSet(entries', entries, Len(entries), kind, b)
<1> DEFINE n == Len(entries)
           old == entries[n].blobs[kind]
           size == SizeOf[disk[s]]
           b == [old EXCEPT !.file = {s}, !.flags = zlib, !.content_type = type, !.uncompressed_size = size]
<1>1. n \in 1..n
  <2>1. entries \in Seq(RecordEntry) /\ entries # <<>>
    BY DEF AddBlob, TypeOK
  <2> QED
    BY <2>1
<1>2. old \in BlobEntry
  BY <1>1, BlobType
<1>3. size \in Nat /\ type \in Strings
  BY ContentsAssumption, TypesAssumption DEF TypeOK
<1>4. BlobSet(entries', entries, n, kind, b)
  BY DEF AddBlob, BlobSet
<1>5. /\ b \in BlobEntry
      /\ b.file = {s} /\ b.content_type = type /\ b.flags = zlib /\ b.uncompressed_size = size
  <2>1. Updated(b, old, s, type, zlib, size)
    BY DEF Updated
  <2> HIDE DEF old, size, b
  <2> QED
    BY <1>2, <1>3, <2>1, BlobUpdated
<1>6. /\ out.pc = "open" /\ disk' = disk /\ file' = file /\ out' = out /\ aborted' = aborted
      /\ zlib => Blend(Versions[s]) \subseteq Plain
  BY DEF AddBlob
<1> HIDE DEF b
<1> QED
  BY <1>1, <1>4, <1>5, <1>6

LEMMA WriteStartCases ==
  ASSUME TypeOK, WriteStart
  PROVE  /\ out.pc = "open" /\ file' = {} /\ disk' = disk /\ aborted' = aborted
         /\ out' = [pc |-> "blobs", i |-> 1, pos |-> DataStart(entries')]
         /\ \E p \in SortedBy(Len(entries), [i \in 1..Len(entries) |-> entries[i].raw_name]) :
              p \in Reorders(Len(entries)) /\ entries' = Reordered(entries, p)
  BY DEF WriteStart, SortedBy, Truncated

LEMMA NewRecordType ==
  ASSUME NEW h \in HexNames,
         NEW r, r = [raw_name |-> HexToRaw[h], blobs |-> [k \in Kinds |-> blob_entry_init]]
  PROVE  /\ r \in RecordEntry /\ r.raw_name = HexToRaw[h]
         /\ \A k \in Kinds : r.blobs[k] = blob_entry_init
<1>1. blob_entry_init \in BlobEntry
  BY TypesAssumption DEF blob_entry_init, BlobEntry, Boundaries
<1>2. HexToRaw[h] \in Nat
  BY NamesAssumption
<1> QED
  BY <1>1, <1>2 DEF RecordEntry

LEMMA StoredBlob ==
  ASSUME NEW old \in BlobEntry, NEW c \in Contents, NEW pos \in Nat, NEW b, b = Stored(old, c, pos)
  PROVE  /\ b \in BlobEntry
         /\ b.file = old.file /\ b.content_type = old.content_type /\ b.flags = old.flags
         /\ b.uncompressed_size = old.uncompressed_size
         /\ b.offs = ALIGN(pos) /\ b.size = total_size(SizeOf[c]) /\ b.checksum = {c}
<1> DEFINE m == ALIGN(pos)
           n == total_size(SizeOf[c])
<1>1. m \in Boundaries
  BY AlignUp
<1>2. n \in Nat
  BY ContentsAssumption, TotalSize
<1>3. b = [old EXCEPT !.offs = m, !.size = n, !.checksum = {c}]
  BY DEF Stored
<1> HIDE DEF m, n
<1>4. /\ b \in BlobEntry
      /\ b.file = old.file /\ b.content_type = old.content_type /\ b.flags = old.flags
      /\ b.uncompressed_size = old.uncompressed_size
      /\ b.offs = m /\ b.size = n /\ b.checksum = {c}
  <2> HIDE DEF Boundaries
  <2> QED
    BY <1>1, <1>2, <1>3 DEF BlobEntry, Checksums
<1> QED
  BY <1>4 DEF m, n
----------------------------------------------------------------------------
\* A step keeps that what was read is made of the contents a file held.
LEMMA NextRead ==
  ASSUME TypeOK, AllGiven, NEW V, NEW W, \A s \in Sources : V[s] \subseteq W[s] /\ disk[s] \in W[s],
         ReadFrom(V), [Next]_vars
  PROVE  ReadBy(Copying', Blob', got', W)
<1>0. Copying => Blob.file \subseteq Sources /\ \A s \in Blob.file : Blob.file = {s}
  <2> SUFFICES ASSUME Copying
               PROVE  Blob.file \subseteq Sources /\ \A s \in Blob.file : Blob.file = {s}
    OBVIOUS
  <2>1. out.i \in Nat \ {0} /\ Len(entries) \in Nat /\ out.i <= 2 * Len(entries)
    BY DEF Copying, TypeOK
  <2>2. Blob \in BlobEntry /\ Given(Blob)
    BY <2>1, NthType, BlobType DEF Blob, AllGiven
  <2> QED
    BY <2>2 DEF BlobEntry, Given
<1>1. CASE got' = <<>>
  <2>1. Len(<<>>) = 0
    OBVIOUS
  <2> QED
    BY <1>1, <2>1 DEF ReadBy, PiecesOf
<1>2. CASE ReadPiece
  <2>1. Copying /\ Blob' = Blob
    BY <1>2 DEF ReadPiece, Blob
  <2>2. PICK s \in Blob.file : /\ Len(got) < Len(Pieces[disk[s]])
                              /\ got' = Append(got, Pieces[disk[s]][Len(got) + 1])
    BY <1>2 DEF ReadPiece
  <2>3. ASSUME NEW x \in Blob.file
        PROVE  PiecesOf(W[x], got')
    <3>1. PiecesOf(W[x], got)
      BY <1>0, <2>1, BlendGrows DEF ReadFrom, ReadBy
    <3>2. x = s /\ x \in Sources /\ disk[x] \in W[x]
      BY <1>0, <2>1, <2>2
    <3> DEFINE n == Len(got) + 1
               piece == Pieces[disk[x]][n]
    <3>3. got \in Seq(Chunks) /\ Len(got) \in Nat /\ Pieces[disk[x]] \in Seq(Chunks)
      BY <3>2, PiecesAssumption DEF TypeOK
    <3>4. n <= Len(Pieces[disk[x]]) /\ got' = Append(got, piece)
      BY <2>2, <3>2, <3>3
    <3>5. Len(got') = n /\ got'[n] = piece /\ \A i \in 1..Len(got) : got'[i] = got[i]
      BY <3>3, <3>4
    <3>6. ASSUME NEW i \in 1..Len(got')
          PROVE  \E v \in W[x] : i <= Len(Pieces[v]) /\ got'[i] = Pieces[v][i]
      <4>1. CASE i = n
        BY <3>2, <3>4, <3>5, <4>1
      <4>2. CASE i # n
        <5>1. i \in 1..Len(got)
          BY <3>3, <3>5, <4>2
        <5> QED
          BY <3>1, <3>5, <5>1 DEF PiecesOf
      <4> QED
        BY <4>1, <4>2
    <3> QED
      BY <3>6 DEF PiecesOf
  <2> QED
    BY <2>1, <2>3 DEF ReadBy
<1>3. CASE UNCHANGED <<entries, out, got, aborted>>
  <2>1. Copying' = Copying /\ Blob' = Blob /\ got' = got
    BY <1>3 DEF Copying, Blob
  <2>2. ASSUME Copying, NEW s \in Blob.file
        PROVE  PiecesOf(W[s], got)
    BY <1>0, <2>2, BlendGrows DEF ReadFrom, ReadBy
  <2> QED
    BY <2>1, <2>2 DEF ReadBy
<1>4. CASE ~Copying'
  BY <1>4 DEF ReadBy
<1>5. ASSUME NEW h \in HexNames, AddRecord(h)
      PROVE  ~Copying'
  BY <1>5 DEF AddRecord, Copying
<1>6. ASSUME NEW kind \in Kinds, NEW s \in Sources, NEW type \in Types, NEW zlib \in BOOLEAN,
             AddBlob(kind, s, type, zlib)
      PROVE  ~Copying'
  BY <1>6 DEF AddBlob, Copying
<1>7. WriteSize \/ WriteHeader \/ Abort => ~Copying'
  BY DEF WriteSize, WriteHeader, Abort, Copying, TypeOK
<1>8. WriteStart \/ SkipBlob \/ StoreBlob => got' = <<>>
  BY DEF WriteStart, SkipBlob, StoreBlob
<1>9. ASSUME NEW s \in Sources, Edit(s)
      PROVE  UNCHANGED <<entries, out, got, aborted>>
  BY <1>9 DEF Edit
<1> QED
  BY <1>1, <1>2, <1>3, <1>4, <1>5, <1>6, <1>7, <1>8, <1>9 DEF Next, vars, Write, WriteBlob

LEMMA NextVersioned == TypeOK /\ Versioned /\ AllGiven /\ [Next]_vars => Versioned'
<1> SUFFICES ASSUME TypeOK, Versioned, AllGiven, [Next]_vars
             PROVE  Versioned'
  OBVIOUS
<1>0. \A s \in Sources : disk[s] \in Versions[s]
  BY DEF Versioned
<1>1. ASSUME NEW s \in Sources, Edit(s)
      PROVE  \A t \in Sources : disk'[t] \in Versions[t]
  BY <1>0, <1>1 DEF Edit, TypeOK
<1>2. disk' = disk \/ \E s \in Sources : Edit(s)
  BY DEF Next, vars, AddRecord, AddBlob, Write, WriteStart, WriteBlob, SkipBlob, ReadPiece, StoreBlob,
         WriteSize, WriteHeader, Abort
<1>3. \A s \in Sources : disk'[s] \in Versions[s]
  BY <1>0, <1>1, <1>2
<1>4. ReadBy(Copying', Blob', got', Versions)
  <2>1. ReadFrom(Versions)
    BY DEF Versioned
  <2> QED
    BY <1>0, <2>1, NextRead
<1> QED
  BY <1>3, <1>4 DEF Versioned, ReadFrom

\* The array of records keeps its type, and its blobs what they were given.
EntriesOK(es) ==
  /\ es \in Seq(RecordEntry)
  /\ \A i \in 1..Len(es), kind \in Kinds : Given(es[i].blobs[kind])

LEMMA BlobReplacedOK ==
  ASSUME NEW es, EntriesOK(es), NEW i \in 1..Len(es), NEW kind \in Kinds, NEW b \in BlobEntry, Given(b),
         NEW fs, BlobSet(fs, es, i, kind, b)
  PROVE  EntriesOK(fs)
<1>1. /\ fs \in Seq(RecordEntry) /\ Len(fs) = Len(es)
      /\ \A j \in 1..Len(es), k \in Kinds : j # i \/ k # kind => fs[j].blobs[k] = es[j].blobs[k]
      /\ fs[i].blobs[kind] = b
  <2>1. es \in Seq(RecordEntry)
    BY DEF EntriesOK
  <2> HIDE DEF RecordEntry, BlobEntry
  <2> QED
    BY <2>1, BlobReplaced
<1>2. ASSUME NEW j \in 1..Len(es), NEW k \in Kinds
      PROVE  Given(fs[j].blobs[k])
  <2>1. CASE j = i /\ k = kind
    BY <1>1, <2>1
  <2>2. CASE j # i \/ k # kind
    <3>1. fs[j].blobs[k] = es[j].blobs[k]
      BY <1>1, <2>2
    <3> QED
      BY <3>1 DEF EntriesOK
  <2> QED
    BY <2>1, <2>2
<1> QED
  BY <1>1, <1>2 DEF EntriesOK

LEMMA NextEntries ==
  TypeOK /\ Versioned /\ AllGiven /\ [Next]_vars => EntriesOK(entries')
<1> SUFFICES ASSUME TypeOK, Versioned, AllGiven, [Next]_vars
             PROVE  EntriesOK(entries')
  OBVIOUS
<1>0. entries \in Seq(RecordEntry) /\ EntriesOK(entries)
  BY DEF TypeOK, AllGiven, EntriesOK
<1>1. ASSUME NEW h \in HexNames, AddRecord(h)
      PROVE  EntriesOK(entries')
  <2> DEFINE r == [raw_name |-> HexToRaw[h], blobs |-> [k \in Kinds |-> blob_entry_init]]
  <2>1. r \in RecordEntry /\ \A k \in Kinds : r.blobs[k] = blob_entry_init
    BY NewRecordType
  <2>2. entries' = Append(entries, r)
    BY <1>1 DEF AddRecord
  <2> HIDE DEF r
  <2>3. /\ entries' \in Seq(RecordEntry) /\ Len(entries') = Len(entries) + 1
        /\ entries'[Len(entries) + 1] = r
        /\ \A j \in 1..Len(entries) : entries'[j] = entries[j]
    BY <1>0, <2>1, <2>2, Appended
  <2>4. Given(blob_entry_init)
    BY DEF Given, blob_entry_init
  <2>5. ASSUME NEW j \in 1..Len(entries'), NEW k \in Kinds
        PROVE  Given(entries'[j].blobs[k])
    <3>1. CASE j \in 1..Len(entries)
      <4>1. Given(entries[j].blobs[k])
        BY <1>0, <3>1 DEF EntriesOK
      <4> QED
        BY <2>3, <3>1, <4>1
    <3>2. CASE j = Len(entries) + 1
      BY <2>1, <2>3, <2>4, <3>2
    <3> QED
      BY <1>0, <2>3, <3>1, <3>2
  <2> QED
    BY <2>3, <2>5 DEF EntriesOK
<1>2. ASSUME NEW kind \in Kinds, NEW s \in Sources, NEW type \in Types, NEW zlib \in BOOLEAN,
             AddBlob(kind, s, type, zlib)
      PROVE  EntriesOK(entries')
  <2>1. PICK b \in BlobEntry :
          /\ b.file = {s} /\ b.content_type = type /\ b.flags = zlib
          /\ b.uncompressed_size = SizeOf[disk[s]]
          /\ BlobSet(entries', entries, Len(entries), kind, b)
    BY <1>2, AddBlobCases
  <2>2. Len(entries) \in 1..Len(entries) /\ (zlib => Blend(Versions[s]) \subseteq Plain)
    BY <1>2, AddBlobCases
  <2>3. Given(b)
    BY <2>1, <2>2 DEF Given, Versioned
  <2> QED
    BY <1>0, <2>1, <2>2, <2>3, BlobReplacedOK
<1>3. CASE WriteStart
  <2>1. PICK p \in Reorders(Len(entries)) : entries' = Reordered(entries, p)
    BY <1>3, WriteStartCases
  <2>2. /\ entries' \in Seq(RecordEntry) /\ Len(entries') = Len(entries)
        /\ \A j \in 1..Len(entries) : entries'[j] = entries[p[j]] /\ p[j] \in 1..Len(entries)
    BY <1>0, <2>1, ReorderedSeq
  <2>3. ASSUME NEW j \in 1..Len(entries), NEW k \in Kinds
        PROVE  Given(entries'[j].blobs[k])
    <3>1. Given(entries[p[j]].blobs[k])
      BY <1>0, <2>2 DEF EntriesOK
    <3> QED
      BY <2>2, <3>1
  <2> QED
    BY <2>2, <2>3 DEF EntriesOK
<1>4. CASE EndBlob
  <2>1. PICK i \in 1..Len(entries), kind \in Kinds :
          Skipped(i, kind) \/ \E s \in Sources, c \in Contents : Copied(i, kind, s, c)
    BY <1>4, WriteBlobCases
  <2>2. CASE Skipped(i, kind)
    BY <1>0, <2>2 DEF Skipped
  <2>3. ASSUME NEW s \in Sources, NEW c \in Contents, Copied(i, kind, s, c)
        PROVE  EntriesOK(entries')
    <3> DEFINE old == entries[i].blobs[kind]
               b == Stored(old, c, out.pos)
    <3>1. old \in BlobEntry /\ Given(old) /\ s \in old.file
      BY <2>3, BlobType DEF AllGiven, Copied
    <3>2. BlobSet(entries', entries, i, kind, b)
      BY <2>3 DEF Copied, BlobSet
    <3>3. b \in BlobEntry /\ b.file = old.file /\ b.flags = old.flags
          /\ b.uncompressed_size = old.uncompressed_size
      <4>1. out.pos \in Nat
        BY DEF TypeOK
      <4> HIDE DEF old, BlobEntry
      <4> QED
        BY <3>1, <4>1, StoredBlob
    <3>4. Given(b)
      <4> HIDE DEF old, b
      <4> QED
        BY <3>1, <3>3 DEF Given
    <3> HIDE DEF b
    <3> QED
      BY <1>0, <3>2, <3>3, <3>4, BlobReplacedOK
  <2> QED
    BY <2>1, <2>2, <2>3
<1>5. CASE entries' = entries
  BY <1>0, <1>5
<1> QED
  BY <1>1, <1>2, <1>3, <1>4, <1>5 DEF Next, vars, Write, WriteBlob, EndBlob, ReadPiece, WriteSize, WriteHeader, Edit, Abort
----------------------------------------------------------------------------
\* A write keeps what it is apart from.
LEMMA WriteKeeps ==
  ASSUME NEW f, NEW w
  PROVE  /\ (\A e \in f : Disjoint(e, w)) => f \subseteq pwrite(f, w)
         /\ pwrite(f, w) \subseteq f \cup {w}
         /\ w \in pwrite(f, w) => w \in f \/ w.len # 0
         /\ w.len # 0 => w \in pwrite(f, w)
  BY DEF pwrite

LEMMA DataStartBound ==
  ASSUME NEW es \in Seq(RecordEntry)
  PROVE  /\ HeaderSize(es) \in Nat \ {0} /\ DataStart(es) \in Nat
         /\ 8 + HeaderSize(es) <= DataStart(es)
<1>1. HeaderSize(es) \in Nat \ {0}
  BY HeaderSizeType
<1>2. 8 + HeaderSize(es) \in Nat
  BY <1>1
<1>3. ALIGN(8 + HeaderSize(es)) \in Nat /\ ALIGN(8 + HeaderSize(es)) >= 8 + HeaderSize(es)
  BY <1>2, AlignUp
<1> QED
  BY <1>1, <1>3 DEF DataStart

\* The header has the same size whatever write_blob puts in it.
LEMMA CopiedSizes ==
  ASSUME TypeOK, NEW i \in 1..Len(entries), NEW kind \in Kinds, NEW s \in Sources, NEW c \in Contents,
         Copied(i, kind, s, c)
  PROVE  /\ Len(entries') = Len(entries)
         /\ HeaderSize(entries') = HeaderSize(entries) /\ DataStart(entries') = DataStart(entries)
<1> DEFINE old == entries[i].blobs[kind]
           b == Stored(old, c, out.pos)
<1>1. entries \in Seq(RecordEntry) /\ old \in BlobEntry
  BY BlobType DEF TypeOK
<1>2. BlobSet(entries', entries, i, kind, b)
  BY DEF Copied, BlobSet
<1>3. b \in BlobEntry /\ b.content_type = old.content_type
  <2>1. out.pos \in Nat
    BY DEF TypeOK
  <2> HIDE DEF old, BlobEntry
  <2> QED
    BY <1>1, <2>1, StoredBlob
<1> HIDE DEF b
<1>4. /\ entries' \in Seq(RecordEntry) /\ Len(entries') = Len(entries)
      /\ \A j \in 1..Len(entries), k \in Kinds : j # i \/ k # kind => entries'[j].blobs[k] = entries[j].blobs[k]
      /\ entries'[i].blobs[kind] = b
  BY <1>1, <1>2, <1>3, BlobReplaced
<1>5. ASSUME NEW j \in 1..Len(entries), NEW k \in Kinds
      PROVE  entries'[j].blobs[k].content_type = entries[j].blobs[k].content_type
  <2>1. CASE j = i /\ k = kind
    BY <1>3, <1>4, <2>1
  <2>2. CASE j # i \/ k # kind
    BY <1>4, <2>2
  <2> QED
    BY <2>1, <2>2
<1>6. HeaderSize(entries') = HeaderSize(entries)
  BY <1>1, <1>4, <1>5, HeaderSizeSame
<1> QED
  BY <1>4, <1>6 DEF DataStart

\* The extent a write leaves, when it lies at off.
FileOK(f) == \A e \in f : e.off \in Nat /\ e.len \in Nat \ {0}

LEMMA WriteType ==
  ASSUME NEW f, FileOK(f), NEW off \in Nat, NEW len \in Nat, NEW v
  PROVE  FileOK(pwrite(f, At(off, len, v)))
<1> DEFINE w == At(off, len, v)
<1>1. w.off = off /\ w.len = len
  BY DEF At
<1> HIDE DEF w
<1>2. FileOK(pwrite(f, w))
  <2>1. CASE w.len = 0
    BY <2>1 DEF pwrite
  <2>2. CASE w.len # 0
    BY <1>1, <2>2 DEF pwrite, FileOK
  <2> QED
    BY <2>1, <2>2
<1> QED
  BY <1>2 DEF w

LEMMA NextFile == TypeOK /\ Versioned /\ AllGiven /\ [Next]_vars => FileOK(file')
<1> SUFFICES ASSUME TypeOK, Versioned, AllGiven, [Next]_vars
             PROVE  FileOK(file')
  OBVIOUS
<1>0. FileOK(file) /\ entries \in Seq(RecordEntry)
  BY DEF TypeOK, FileOK
<1>1. CASE WriteStart
  <2>1. file' = {}
    BY <1>1, WriteStartCases
  <2> QED
    BY <2>1 DEF FileOK
<1>2. CASE EndBlob
  <2>1. PICK i \in 1..Len(entries), kind \in Kinds :
          Skipped(i, kind) \/ \E s \in Sources, c \in Contents : Copied(i, kind, s, c)
    BY <1>2, WriteBlobCases
  <2>2. CASE Skipped(i, kind)
    BY <1>0, <2>2 DEF Skipped
  <2>3. ASSUME NEW s \in Sources, NEW c \in Contents, Copied(i, kind, s, c)
        PROVE  FileOK(file')
    <3>1. ALIGN(out.pos) \in Nat /\ SizeOf[c] \in Nat
      BY AlignUp, ContentsAssumption DEF TypeOK
    <3>2. file' = pwrite(file, At(ALIGN(out.pos), SizeOf[c], Data(c)))
      BY <2>3 DEF Copied
    <3> QED
      BY <1>0, <3>1, <3>2, WriteType
  <2> QED
    BY <2>1, <2>2, <2>3
<1>3. CASE WriteSize
  <2>1. file' = pwrite(file, At(0, 8, [kind |-> "size", size |-> HeaderSize(entries)]))
    BY <1>3 DEF WriteSize
  <2>2. 0 \in Nat /\ 8 \in Nat
    OBVIOUS
  <2> QED
    BY <1>0, <2>1, <2>2, WriteType
<1>4. CASE WriteHeader
  <2>1. \/ file' = pwrite(file, At(8, HeaderSize(entries), [kind |-> "header", records |-> entries]))
        \/ file' = file
    BY <1>4 DEF WriteHeader
  <2>2. HeaderSize(entries) \in Nat /\ 8 \in Nat
    BY <1>0, DataStartBound
  <2> QED
    BY <1>0, <2>1, <2>2, WriteType
<1>5. CASE file' = file
  BY <1>0, <1>5
<1> QED
  BY <1>1, <1>2, <1>3, <1>4, <1>5 DEF Next, vars, Write, WriteBlob, EndBlob, ReadPiece, AddRecord, AddBlob, Edit, Abort

\* The other variables.
LEMMA NextRest ==
  TypeOK /\ Versioned /\ AllGiven /\ [Next]_vars =>
    /\ disk' \in [Sources -> Contents] /\ aborted' \in BOOLEAN
    /\ out' \in [pc: {"open", "blobs", "header"}, i: Nat \ {0}, pos: Nat]
    /\ calls' \in [set: Nat, edits: Nat, writes: Nat]
<1> SUFFICES ASSUME TypeOK, Versioned, AllGiven, [Next]_vars
             PROVE  /\ disk' \in [Sources -> Contents] /\ aborted' \in BOOLEAN
                    /\ out' \in [pc: {"open", "blobs", "header"}, i: Nat \ {0}, pos: Nat]
                    /\ calls' \in [set: Nat, edits: Nat, writes: Nat]
  OBVIOUS
<1>0. /\ disk \in [Sources -> Contents] /\ aborted \in BOOLEAN
      /\ out \in [pc: {"open", "blobs", "header"}, i: Nat \ {0}, pos: Nat]
      /\ calls \in [set: Nat, edits: Nat, writes: Nat]
      /\ entries \in Seq(RecordEntry)
  BY DEF TypeOK
<1>1. CASE \E h \in HexNames : AddRecord(h)
  BY <1>0, <1>1 DEF AddRecord
<1>2. ASSUME NEW kind \in Kinds, NEW s \in Sources, NEW type \in Types, NEW zlib \in BOOLEAN,
             AddBlob(kind, s, type, zlib)
      PROVE  calls' \in [set: Nat, edits: Nat, writes: Nat] /\ UNCHANGED <<disk, out, aborted>>
  <2>1. calls' = [calls EXCEPT !.set = @ + 1] /\ UNCHANGED <<disk, out, aborted>>
    BY <1>2 DEF AddBlob
  <2> QED
    BY <1>0, <2>1
<1>3. CASE WriteStart
  <2>1. EntriesOK(entries')
    BY NextEntries
  <2>2. DataStart(entries') \in Nat
    BY <2>1, DataStartBound DEF EntriesOK
  <2>3. disk' = disk /\ aborted' = aborted /\ out' = [pc |-> "blobs", i |-> 1, pos |-> DataStart(entries')]
    BY <1>3, WriteStartCases
  <2>4. calls' = [calls EXCEPT !.writes = @ + 1]
    BY <1>3 DEF WriteStart
  <2>5. calls' \in [set: Nat, edits: Nat, writes: Nat]
    BY <1>0, <2>4
  <2>6. out' \in [pc: {"open", "blobs", "header"}, i: Nat \ {0}, pos: Nat]
    BY <2>2, <2>3
  <2> QED
    BY <1>0, <2>3, <2>5, <2>6
<1>4. CASE EndBlob
  <2>1. /\ out' \in [pc: {"blobs"}, i: Nat \ {0}, pos: Nat]
        /\ disk' = disk /\ aborted' = aborted /\ calls' = calls
    BY <1>4, WriteBlobCases
  <2> QED
    BY <1>0, <2>1
<1>5. CASE WriteSize
  BY <1>0, <1>5 DEF WriteSize
<1>6. CASE WriteHeader
  BY <1>0, <1>6 DEF WriteHeader
<1>7. ASSUME NEW s \in Sources, Edit(s)
      PROVE  /\ disk' \in [Sources -> Contents] /\ calls' \in [set: Nat, edits: Nat, writes: Nat]
             /\ UNCHANGED <<out, aborted>>
  <2>1. PICK c \in Versions[s] : disk' = [disk EXCEPT ![s] = c]
    BY <1>7 DEF Edit
  <2>2. c \in Contents
    BY SourcesAssumption
  <2>3. disk' \in [Sources -> Contents]
    BY <1>0, <2>1, <2>2
  <2> QED
    BY <1>0, <1>7, <2>3 DEF Edit
<1>8. CASE Abort
  BY <1>0, <1>8 DEF Abort
<1>9. CASE UNCHANGED vars
  BY <1>0, <1>9 DEF vars
<1>10. CASE ReadPiece
  BY <1>0, <1>10 DEF ReadPiece
<1> QED
  BY <1>0, <1>1, <1>2, <1>3, <1>4, <1>5, <1>6, <1>7, <1>8, <1>9, <1>10 DEF Next, Write, WriteBlob, EndBlob

LEMMA NextGot == ASSUME TypeOK, [Next]_vars PROVE got' \in Seq(Chunks)
<1>1. <<>> \in Seq(Chunks)
  OBVIOUS
<1>2. CASE got' = <<>> \/ got' = got
  BY <1>1, <1>2 DEF TypeOK
<1>3. CASE ReadPiece
  <2>1. PICK s \in Sources : /\ Len(got) < Len(Pieces[disk[s]])
                             /\ got' = Append(got, Pieces[disk[s]][Len(got) + 1])
    <3>1. out.i \in Nat \ {0} /\ out.i <= 2 * Len(entries) /\ Len(entries) \in Nat
      BY <1>3 DEF ReadPiece, Copying, TypeOK
    <3>2. Blob \in BlobEntry
      BY <3>1, NthType, BlobType DEF Blob
    <3>3. Blob.file \subseteq Sources
      BY <3>2 DEF BlobEntry
    <3> QED
      BY <1>3, <3>3 DEF ReadPiece
  <2>2. got \in Seq(Chunks) /\ Pieces[disk[s]] \in Seq(Chunks)
    BY PiecesAssumption DEF TypeOK
  <2>3. Len(got) + 1 \in 1..Len(Pieces[disk[s]])
    BY <2>1, <2>2
  <2>4. Pieces[disk[s]][Len(got) + 1] \in Chunks
    BY <2>2, <2>3
  <2> QED
    BY <2>1, <2>2, <2>4
<1>4. ReadPiece \/ got' = <<>> \/ got' = got
  BY DEF Next, vars, AddRecord, AddBlob, Write, WriteStart, WriteBlob, SkipBlob, StoreBlob,
         WriteSize, WriteHeader, Edit, Abort
<1> QED
  BY <1>2, <1>3, <1>4

\* The extents stay where Layout says, and while write is under way every
\* step keeps those that are there.
LEMMA NextLayout ==
  TypeOK /\ Versioned /\ AllGiven /\ Layout /\ [Next]_vars =>
    Layout' /\ (out.pc # "open" => file \subseteq file')
<1> SUFFICES ASSUME TypeOK, Versioned, AllGiven, Layout, [Next]_vars
             PROVE  Layout' /\ (out.pc # "open" => file \subseteq file')
  OBVIOUS
<1>0. /\ entries \in Seq(RecordEntry) /\ out.pos \in Nat
      /\ \A e \in file : e.off \in Nat /\ e.len \in Nat
      /\ HeaderSize(entries) \in Nat /\ DataStart(entries) \in Nat
      /\ 8 + HeaderSize(entries) <= DataStart(entries)
  BY DataStartBound DEF TypeOK
<1>1. CASE WriteStart
  <2>1. /\ out.pc = "open" /\ file' = {}
        /\ out' = [pc |-> "blobs", i |-> 1, pos |-> DataStart(entries')]
    BY <1>1, WriteStartCases
  <2>2. DataStart(entries') \in Nat
    BY NextEntries, DataStartBound DEF EntriesOK
  <2> QED
    BY <2>1, <2>2 DEF Layout
<1>2. CASE EndBlob
  <2>1. out.pc = "blobs" /\ out'.pc = "blobs"
    BY <1>2, WriteBlobCases
  <2>2. PICK i \in 1..Len(entries), kind \in Kinds :
          Skipped(i, kind) \/ \E s \in Sources, c \in Contents : Copied(i, kind, s, c)
    BY <1>2, WriteBlobCases
  <2>3. CASE Skipped(i, kind)
    BY <2>1, <2>3 DEF Skipped, Layout
  <2>4. ASSUME NEW s \in Sources, NEW c \in Contents, Copied(i, kind, s, c)
        PROVE  Layout' /\ file \subseteq file'
    <3> DEFINE w == At(ALIGN(out.pos), SizeOf[c], Data(c))
    <3>1. file' = pwrite(file, w) /\ out'.pos = ALIGN(out.pos) + SizeOf[c]
      BY <2>4 DEF Copied
    <3>2. w.off = ALIGN(out.pos) /\ w.len = SizeOf[c] /\ ALIGN(out.pos) \in Nat /\ SizeOf[c] \in Nat
          /\ ALIGN(out.pos) >= out.pos
      BY <1>0, AlignUp, ContentsAssumption DEF At
    <3>3. DataStart(entries') = DataStart(entries)
      BY <2>4, CopiedSizes
    <3>4. /\ DataStart(entries) <= out.pos
          /\ \A e \in file : DataStart(entries) <= e.off /\ e.off + e.len <= out.pos
      BY <2>1 DEF Layout
    <3> HIDE DEF w
    <3>5. \A e \in file : Disjoint(e, w)
      BY <1>0, <3>2, <3>4 DEF Disjoint
    <3>6. file \subseteq file' /\ file' \subseteq file \cup {w}
      BY <3>1, <3>5, WriteKeeps
    <3>7. DataStart(entries) <= out'.pos /\ out.pos <= out'.pos /\ out'.pos \in Nat
          /\ DataStart(entries) <= w.off /\ w.off + w.len <= out'.pos
      BY <1>0, <3>1, <3>2, <3>4
    <3>8. ASSUME NEW e \in file'
          PROVE  DataStart(entries) <= e.off /\ e.off + e.len <= out'.pos
      <4>1. CASE e = w
        BY <3>7, <4>1
      <4>2. CASE e \in file
        BY <1>0, <3>4, <3>7, <4>2
      <4> QED
        BY <3>6, <4>1, <4>2
    <3> QED
      BY <2>1, <3>3, <3>6, <3>7, <3>8 DEF Layout
  <2> QED
    BY <2>2, <2>3, <2>4, <1>2 DEF Skipped
<1>3. CASE WriteSize
  <2> DEFINE w == At(0, 8, [kind |-> "size", size |-> HeaderSize(entries)])
  <2>1. out.pc = "blobs" /\ out'.pc = "header" /\ entries' = entries /\ file' = pwrite(file, w)
    BY <1>3 DEF WriteSize, TypeOK
  <2>2. w.off = 0 /\ w.len = 8
    BY DEF At
  <2>3. \A e \in file : DataStart(entries) <= e.off
    BY <2>1 DEF Layout
  <2> HIDE DEF w
  <2>4. \A e \in file : Disjoint(e, w)
    BY <1>0, <2>2, <2>3 DEF Disjoint
  <2>5. file \subseteq file' /\ file' \subseteq file \cup {w}
    BY <2>1, <2>4, WriteKeeps
  <2>6. \A e \in file' : e.off + e.len <= 8 \/ DataStart(entries) <= e.off
    BY <2>2, <2>3, <2>5
  <2> QED
    BY <2>1, <2>5, <2>6 DEF Layout
<1>4. CASE WriteHeader
  <2> DEFINE w == At(8, HeaderSize(entries), [kind |-> "header", records |-> entries])
  <2>1. out.pc = "header" /\ out'.pc = "open" /\ (file' = pwrite(file, w) \/ file' = file)
    BY <1>4 DEF WriteHeader, TypeOK
  <2>2. w.off = 8 /\ w.len = HeaderSize(entries)
    BY DEF At
  <2>3. \A e \in file : e.off + e.len <= 8 \/ DataStart(entries) <= e.off
    BY <2>1 DEF Layout
  <2> HIDE DEF w
  <2>4. \A e \in file : Disjoint(e, w)
    BY <1>0, <2>2, <2>3 DEF Disjoint
  <2>5. file \subseteq file'
    BY <2>1, <2>4, WriteKeeps
  <2> QED
    BY <2>1, <2>5 DEF Layout
<1>5. CASE out.pc = "open" /\ out' = out
  BY <1>5 DEF Layout
<1>6. CASE UNCHANGED <<entries, file, out>>
  BY <1>6 DEF Layout
<1>7. ASSUME NEW kind \in Kinds, NEW s \in Sources, NEW type \in Types, NEW zlib \in BOOLEAN,
             AddBlob(kind, s, type, zlib)
      PROVE  out.pc = "open" /\ out' = out
  BY <1>7 DEF AddBlob
<1> QED
  BY <1>1, <1>2, <1>3, <1>4, <1>5, <1>6, <1>7 DEF Next, vars, Write, WriteBlob, EndBlob, ReadPiece, AddRecord, Edit, Abort

----------------------------------------------------------------------------
LEMMA WriterInit == Init => WriterInvariant
<1> SUFFICES ASSUME Init PROVE WriterInvariant
  OBVIOUS
<1>1. entries = <<>> /\ file = {} /\ out = [pc |-> "open", i |-> 1, pos |-> 0]
  BY DEF Init
<1>2. entries \in Seq(RecordEntry) /\ Len(entries) = 0
  BY <1>1
<1>3. TypeOK
  <2>1. disk \in [Sources -> Contents] /\ aborted \in BOOLEAN
    BY DEF Init
  <2>2. out \in [pc: {"open", "blobs", "header"}, i: Nat \ {0}, pos: Nat]
    BY <1>1
  <2>3. calls \in [set: Nat, edits: Nat, writes: Nat]
    BY DEF Init
  <2>4. got \in Seq(Chunks)
    BY DEF Init
  <2> QED
    BY <1>1, <1>2, <2>1, <2>2, <2>3, <2>4 DEF TypeOK
<1>4. Versioned
  BY <1>1 DEF Init, Versioned, ReadFrom, ReadBy, Copying
<1>5. AllGiven
  BY <1>2 DEF AllGiven
<1>6. Layout
  BY <1>1 DEF Layout
<1> QED
  BY <1>3, <1>4, <1>5, <1>6 DEF WriterInvariant

LEMMA WriterStep == WriterInvariant /\ [Next]_vars => WriterInvariant'
<1> SUFFICES ASSUME WriterInvariant, [Next]_vars PROVE WriterInvariant'
  OBVIOUS
<1>0. TypeOK /\ Versioned /\ AllGiven /\ Layout
  BY DEF WriterInvariant
<1>1. Versioned' /\ Layout'
  BY <1>0, NextVersioned, NextLayout
<1>2. EntriesOK(entries')
  BY <1>0, NextEntries
<1>3. AllGiven'
  BY <1>2 DEF EntriesOK, AllGiven
<1>4. FileOK(file')
  BY <1>0, NextFile
<1>5. /\ disk' \in [Sources -> Contents] /\ aborted' \in BOOLEAN /\ got' \in Seq(Chunks)
      /\ out' \in [pc: {"open", "blobs", "header"}, i: Nat \ {0}, pos: Nat]
      /\ calls' \in [set: Nat, edits: Nat, writes: Nat]
  BY <1>0, NextRest, NextGot
<1>6. TypeOK'
  BY <1>2, <1>4, <1>5 DEF TypeOK, EntriesOK, FileOK
<1> QED
  BY <1>1, <1>3, <1>6 DEF WriterInvariant

LEMMA WriterAlways == Spec => []WriterInvariant
<1> QED
  BY WriterInit, WriterStep, PTL DEF Spec

\* The variables of the version 1 writer keep their types: whatever files it
\* is given, what it copies has a place on a boundary and a checksum.
THEOREM TypeCorrect == Spec => []TypeOK
<1>1. WriterInvariant => TypeOK
  BY DEF WriterInvariant
<1> QED
  BY <1>1, WriterAlways, PTL

\* Within one call of write no write touches bytes an earlier one wrote: the
\* data begins behind the room for the header, which is as large as it was
\* before the offsets were known, and each blob behind the one before.
THEOREM HeaderFitsAlways == Spec => HeaderFits
<1>1. WriterInvariant /\ [Next]_vars => [out.pc # "open" => file \subseteq file']_vars
  BY NextLayout DEF WriterInvariant
<1> QED
  BY <1>1, WriterAlways, PTL DEF Spec, HeaderFits

----------------------------------------------------------------------------
\* What a reader gets of a blob.  If the data are where the header says, it
\* is what Kept says, whatever else is in the file; at any later time it is
\* this or nothing.
Unpacked(b) ==
  IF ~b.flags THEN {[content |-> b.checksum, whole |-> TRUE]}
  ELSE {[content |-> c, whole |-> b.size <= GIO_BUFFER /\ SizeOf[c] <= b.uncompressed_size] :
         c \in {x \in Plain : Zlib[x] = b.checksum}}

Kept(b) == IF b.size = SizeOf[b.checksum] THEN Unpacked(b) ELSE {}

\* Data that are in a file are there in full length.
DataShaped(f) == \A e \in f, c \in Contents : e.val = Data(c) => e.len = SizeOf[c]

\* The bytes load_blob finds for a blob, if they have its checksum.
Found(f, b) ==
  \/ b.size = 0 /\ SizeOf[b.checksum] = 0
  \/ At(b.offs, b.size, Data(b.checksum)) \in f

LEMMA LoadIs ==
  ASSUME NEW f, NEW b, b.checksum \in Contents
  PROVE  load_blob(f, b) = IF Found(f, b) THEN Unpacked(b) ELSE {}
<1> DEFINE bytes == {c \in Contents : \/ b.size = 0 /\ SizeOf[c] = 0
                                      \/ At(b.offs, b.size, Data(c)) \in f}
           loaded(d) ==
             IF ~b.flags THEN {[content |-> d, whole |-> TRUE]}
             ELSE {[content |-> c, whole |-> b.size <= GIO_BUFFER /\ SizeOf[c] <= b.uncompressed_size] :
                     c \in {x \in Plain : Zlib[x] = d}}
<1>1. load_blob(f, b) = UNION {loaded(d) : d \in Intact(bytes, b)}
  BY DEF load_blob
<1>2. Intact(bytes, b) = IF Found(f, b) THEN {b.checksum} ELSE {}
  BY DEF Intact, Found
<1>3. loaded(b.checksum) = Unpacked(b)
  BY DEF Unpacked
<1> HIDE DEF bytes, loaded
<1>4. CASE Found(f, b)
  <2>1. load_blob(f, b) = UNION {loaded(d) : d \in {b.checksum}}
    BY <1>1, <1>2, <1>4
  <2> QED
    BY <1>3, <1>4, <2>1
<1>5. CASE ~Found(f, b)
  <2>1. load_blob(f, b) = UNION {loaded(d) : d \in {}}
    BY <1>1, <1>2, <1>5
  <2> QED
    BY <1>5, <2>1
<1> QED
  BY <1>4, <1>5

LEMMA LoadWithin ==
  ASSUME NEW f, DataShaped(f), NEW b, b.checksum \in Contents
  PROVE  load_blob(f, b) \subseteq Kept(b)
<1>1. ASSUME Found(f, b)
      PROVE  b.size = SizeOf[b.checksum]
  <2>1. CASE At(b.offs, b.size, Data(b.checksum)) \in f
    <3> DEFINE e == At(b.offs, b.size, Data(b.checksum))
    <3>1. e.len = b.size /\ e.val = Data(b.checksum)
      BY DEF At
    <3>2. e \in f
      BY <2>1
    <3> HIDE DEF e
    <3> QED
      BY <3>1, <3>2 DEF DataShaped
  <2> QED
    BY <1>1, <2>1 DEF Found
<1> QED
  BY <1>1, LoadIs DEF Kept

LEMMA LoadKept ==
  ASSUME NEW f, NEW b, b.checksum \in Contents,
         b.size = SizeOf[b.checksum] => Found(f, b)
  PROVE  Kept(b) \subseteq load_blob(f, b)
  BY LoadIs DEF Kept

\* A record is found if there is one, and only one is.
Sorted(rs) == \A i, j \in 1..Len(rs) : i < j => rs[i].raw_name <= rs[j].raw_name

\* K: the places of the records a search for raw finds.
Answer(rs, raw, K) ==
  /\ K \subseteq 1..Len(rs)
  /\ find_record_by_raw_name(rs, raw) = {record_new_for_variant(rs[k]) : k \in K}
  /\ \A k \in K : rs[k].raw_name = raw
  /\ K = {} => \A k \in 1..Len(rs) : rs[k].raw_name # raw
  /\ \A j, k \in K : j = k

LEMMA FindAnswers ==
  ASSUME NEW rs \in Seq(RecordEntry), Sorted(rs), NEW raw \in Nat
  PROVE  \E K : Answer(rs, raw, K)
<1> DEFINE n == Len(rs)
           compar == [k \in 1..n |-> find_record_by_raw_name_compar(rs, raw, k)]
           K == bsearch(n, compar)
<1>1. n \in Nat /\ \A k \in 1..n : rs[k].raw_name \in Nat
  <2>1. \A k \in 1..n : rs[k] \in RecordEntry
    OBVIOUS
  <2> QED
    BY <2>1 DEF RecordEntry
<1>2. \A k \in 1..n : compar[k] = IF raw = rs[k].raw_name THEN 0 ELSE IF raw < rs[k].raw_name THEN -1 ELSE 1
  BY DEF find_record_by_raw_name_compar
<1>3. Ascending(n, compar)
  <2>1. compar \in [1..n -> Int]
    BY <1>2
  <2>2. ASSUME NEW i \in 1..n, NEW j \in 1..n, i < j
        PROVE  (compar[i] < 0 => compar[j] < 0) /\ (compar[j] > 0 => compar[i] > 0)
    <3>1. rs[i].raw_name <= rs[j].raw_name /\ rs[i].raw_name \in Nat /\ rs[j].raw_name \in Nat
      BY <1>1, <2>2 DEF Sorted
    <3> DEFINE x == rs[i].raw_name
               y == rs[j].raw_name
    <3>2. /\ compar[i] = IF raw = x THEN 0 ELSE IF raw < x THEN -1 ELSE 1
          /\ compar[j] = IF raw = y THEN 0 ELSE IF raw < y THEN -1 ELSE 1
          /\ x <= y /\ x \in Nat /\ y \in Nat
      BY <1>2, <3>1
    <3> HIDE DEF x, y, compar
    <3> QED
      BY <3>2
  <2> HIDE DEF compar, n
  <2> QED
    BY <2>1, <2>2 DEF Ascending
<1>4. find_record_by_raw_name(rs, raw) = {record_new_for_variant(rs[k]) : k \in K}
  BY DEF find_record_by_raw_name
<1>5. /\ K \subseteq {k \in 1..n : compar[k] = 0}
      /\ K = {} => \A k \in 1..n : compar[k] # 0
      /\ \A j, k \in K : j = k
  <2> HIDE DEF compar, n
  <2> QED
    BY <1>1, <1>3, SearchFinds
<1>6. \A k \in 1..n : compar[k] = 0 <=> rs[k].raw_name = raw
  BY <1>1, <1>2
<1> HIDE DEF K, compar
<1> QED
  BY <1>4, <1>5, <1>6 DEF Answer

----------------------------------------------------------------------------
\* A blob in a header that has an offset has one checksum.
OneSum(b) == b.offs # 0 => \E c \in Contents : b.checksum = {c}

\* A header as readers need it.
RecordsOK(rs) ==
  /\ rs \in Seq(RecordEntry)
  /\ Sorted(rs)
  /\ \A k \in 1..Len(rs), kind \in Kinds : OneSum(rs[k].blobs[kind])

\* What write_blob leaves of a blob with a file: its data are at its offset.
LandedAs(f, b, c) ==
  /\ b.offs # 0 /\ b.checksum = {c}
  /\ b.size = total_size(SizeOf[c])
  /\ SizeOf[c] = 0 \/ At(b.offs, SizeOf[c], Data(c)) \in f
  /\ b.flags => \E x \in Plain : Zlib[x] = c

Landed(f, b) == b.file # {} => \E c \in Contents : LandedAs(f, b, c)

AllLanded(f, rs) ==
  \A k \in 1..Len(rs), kind \in Kinds :
    Given(rs[k].blobs[kind]) /\ Landed(f, rs[k].blobs[kind])

BlobsOf(r, k) == IF k = DATA THEN r.data ELSE r.metadata

KeptBlobs(bs) == {[content_type |-> b.content_type, contents |-> Kept(b)] : b \in bs}

SeenKept(rs) ==
  [raw \in RawNames |->
    {[k \in Kinds |-> KeptBlobs(BlobsOf(r, k))] : r \in find_record_by_raw_name(rs, raw)}]

\* A reader that opened the file: its header, and that it could read then
\* what Kept says.
ReaderOK(o) == RecordsOK(o.records) /\ o.seen = SeenKept(o.records)

LEMMA RawNamesType == RawNames \subseteq Nat
  BY NamesAssumption DEF RawNames

\* What a reader makes of a blob in the header.
LEMMA ReaderBlob ==
  ASSUME NEW b, OneSum(b)
  PROVE  /\ b.offs = 0 => blob_new_for_variant(b) = {}
         /\ \A rb \in blob_new_for_variant(b) :
              /\ b.offs # 0 /\ rb.checksum \in Contents /\ b.checksum = {rb.checksum}
              /\ rb.flags = b.flags /\ rb.size = b.size /\ rb.offs = b.offs
              /\ rb.uncompressed_size = b.uncompressed_size /\ rb.content_type = b.content_type
         /\ \A x, y \in blob_new_for_variant(b) : x = y
         /\ b.offs # 0 => blob_new_for_variant(b) # {}
<1>1. CASE b.offs = 0
  BY <1>1 DEF blob_new_for_variant
<1>2. CASE b.offs # 0
  <2>1. PICK c \in Contents : b.checksum = {c}
    BY <1>2 DEF OneSum
  <2>2. blob_new_for_variant(b) =
          {[flags |-> b.flags, checksum |-> c, size |-> b.size, offs |-> b.offs,
            uncompressed_size |-> b.uncompressed_size, content_type |-> b.content_type]}
    BY <1>2, <2>1 DEF blob_new_for_variant
  <2> QED
    BY <1>2, <2>1, <2>2
<1> QED
  BY <1>1, <1>2

LEMMA ReaderRecord ==
  ASSUME NEW r, NEW k \in Kinds
  PROVE  BlobsOf(record_new_for_variant(r), k) = blob_new_for_variant(r.blobs[k])
  BY KindsAssumption DEF BlobsOf, record_new_for_variant, Kinds

\* A blob that has landed reads as Kept says.
LEMMA LandedReads ==
  ASSUME NEW f, DataShaped(f), NEW b, OneSum(b), Given(b), Landed(f, b),
         NEW rb \in blob_new_for_variant(b)
  PROVE  load_blob(f, rb) = Kept(rb)
<1>1. /\ b.offs # 0 /\ rb.checksum \in Contents /\ b.checksum = {rb.checksum}
      /\ rb.size = b.size /\ rb.offs = b.offs
  BY ReaderBlob
<1>2. PICK c \in Contents : LandedAs(f, b, c)
  BY <1>1 DEF Landed, Given
<1>3. c = rb.checksum
  BY <1>1, <1>2 DEF LandedAs
<1>4. rb.size = SizeOf[rb.checksum] => Found(f, rb)
  BY <1>1, <1>2, <1>3 DEF LandedAs, Found
<1>5. load_blob(f, rb) \subseteq Kept(rb) /\ Kept(rb) \subseteq load_blob(f, rb)
  BY <1>1, <1>4, LoadWithin, LoadKept
<1> QED
  BY <1>5

\* The record a search finds is one of the header.
LEMMA FindWithin ==
  ASSUME NEW rs, RecordsOK(rs), NEW raw \in RawNames, NEW r \in find_record_by_raw_name(rs, raw)
  PROVE  \E k \in 1..Len(rs) : r = record_new_for_variant(rs[k])
<1>1. \E K : Answer(rs, raw, K)
  BY FindAnswers, RawNamesType DEF RecordsOK
<1> QED
  BY <1>1 DEF Answer

\* The same for all blobs of all records of a header.
LEMMA SeenIsKept ==
  ASSUME NEW f, DataShaped(f), NEW rs, RecordsOK(rs), AllLanded(f, rs)
  PROVE  SeenIn(f, rs) = SeenKept(rs)
<1>1. ASSUME NEW raw \in RawNames, NEW r \in find_record_by_raw_name(rs, raw), NEW k \in Kinds
      PROVE  SeenBlob(f, BlobsOf(r, k)) = KeptBlobs(BlobsOf(r, k))
  <2>1. PICK j \in 1..Len(rs) : r = record_new_for_variant(rs[j])
    BY FindWithin
  <2> DEFINE b == rs[j].blobs[k]
  <2>2. BlobsOf(r, k) = blob_new_for_variant(b)
    BY <2>1, ReaderRecord
  <2>3. OneSum(b) /\ Given(b) /\ Landed(f, b)
    BY DEF RecordsOK, AllLanded
  <2> HIDE DEF b
  <2>4. \A rb \in blob_new_for_variant(b) : load_blob(f, rb) = Kept(rb)
    BY <2>3, LandedReads
  <2> QED
    BY <2>2, <2>4 DEF SeenBlob, KeptBlobs
<1>2. ASSUME NEW raw \in RawNames, NEW r \in find_record_by_raw_name(rs, raw)
      PROVE  [k \in Kinds |-> SeenBlob(f, BlobsOf(r, k))] = [k \in Kinds |-> KeptBlobs(BlobsOf(r, k))]
  BY <1>1
<1>3. ASSUME NEW raw \in RawNames
      PROVE  {[k \in Kinds |-> SeenBlob(f, BlobsOf(r, k))] : r \in find_record_by_raw_name(rs, raw)}
           = {[k \in Kinds |-> KeptBlobs(BlobsOf(r, k))] : r \in find_record_by_raw_name(rs, raw)}
  BY <1>2
<1>4. SeenIn(f, rs) =
       [raw \in RawNames |->
         {[k \in Kinds |-> SeenBlob(f, BlobsOf(r, k))] : r \in find_record_by_raw_name(rs, raw)}]
  BY DEF SeenIn, BlobsOf
<1> QED
  BY <1>3, <1>4 DEF SeenKept

\* What a reader loads later, from whatever the file has become, is what it
\* could have loaded when it opened the file, or nothing.
LEMMA LaterWithin ==
  ASSUME NEW f, DataShaped(f), NEW o, ReaderOK(o), NEW raw \in RawNames,
         NEW r \in o.seen[raw], NEW k \in Kinds, NEW b \in r[k]
  PROVE  \E n \in SeenIn(f, o.records)[raw] : \A x \in n[k] : x.contents \subseteq b.contents
<1> DEFINE rs == o.records
<1>1. o.seen[raw] = {[kk \in Kinds |-> KeptBlobs(BlobsOf(q, kk))] : q \in find_record_by_raw_name(rs, raw)}
  BY DEF ReaderOK, SeenKept
<1>2. PICK q \in find_record_by_raw_name(rs, raw) : r = [kk \in Kinds |-> KeptBlobs(BlobsOf(q, kk))]
  BY <1>1
<1>3. PICK j \in 1..Len(rs) : q = record_new_for_variant(rs[j])
  BY FindWithin DEF ReaderOK
<1> DEFINE e == rs[j].blobs[k]
<1>4. OneSum(e)
  BY DEF ReaderOK, RecordsOK
<1>5. BlobsOf(q, k) = blob_new_for_variant(e)
  BY <1>3, ReaderRecord
<1>6. PICK rb \in blob_new_for_variant(e) : b.contents = Kept(rb)
  <2>1. b \in KeptBlobs(BlobsOf(q, k))
    BY <1>2
  <2> QED
    BY <1>5, <2>1 DEF KeptBlobs
<1> DEFINE n == [kk \in Kinds |-> SeenBlob(f, BlobsOf(q, kk))]
<1>7. n \in SeenIn(f, rs)[raw]
  BY DEF SeenIn, BlobsOf
<1>8. ASSUME NEW x \in n[k]
      PROVE  x.contents \subseteq b.contents
  <2>1. x \in SeenBlob(f, BlobsOf(q, k))
    BY <1>8
  <2>2. PICK y \in blob_new_for_variant(e) : x.contents = load_blob(f, y)
    BY <1>5, <2>1 DEF SeenBlob
  <2> HIDE DEF e
  <2>3. y = rb /\ rb.checksum \in Contents
    BY <1>4, <1>6, <2>2, ReaderBlob
  <2>4. load_blob(f, rb) \subseteq Kept(rb)
    BY <2>3, LoadWithin
  <2> QED
    BY <1>6, <2>2, <2>3, <2>4
<1> HIDE DEF n
<1> QED
  BY <1>7, <1>8

----------------------------------------------------------------------------
\* The shelves and the array of records: the same records, in an order of
\* their own, with the blobs that were asked for.
Slot(b) == {[source |-> s, type |-> b.content_type] : s \in b.file}
Shelf(e) == [raw_name |-> e.raw_name, slots |-> [k \in Kinds |-> Slot(e.blobs[k])]]

ShelfEntry == [raw_name: Nat, slots: [Kinds -> SUBSET [source: Sources, type: Strings]]]

Match(es, sh, p) ==
  /\ Len(sh) = Len(es) /\ p \in Reorders(Len(es))
  /\ \A k \in 1..Len(es) : sh[p[k]] = Shelf(es[k])

LEMMA ReordersType ==
  ASSUME NEW n \in Nat, NEW p \in Reorders(n)
  PROVE  /\ p \in [1..n -> 1..n]
         /\ \A i, j \in 1..n : i # j => p[i] # p[j]
  BY DEF Reorders

LEMMA MatchAppend ==
  ASSUME NEW es \in Seq(RecordEntry), NEW sh \in Seq(ShelfEntry), NEW p, Match(es, sh, p),
         NEW e \in RecordEntry, NEW x, x = Shelf(e), x \in ShelfEntry
  PROVE  \E q : Match(Append(es, e), Append(sh, x), q) /\ q[Len(es) + 1] = Len(es) + 1
<1> DEFINE n == Len(es)
           fs == Append(es, e)
           th == Append(sh, x)
           q == [k \in 1..n + 1 |-> IF k = n + 1 THEN n + 1 ELSE p[k]]
<1>1. n \in Nat /\ Len(sh) = n /\ p \in [1..n -> 1..n] /\ \A i, j \in 1..n : i # j => p[i] # p[j]
  BY ReordersType DEF Match
<1>2. Len(fs) = n + 1 /\ Len(th) = n + 1 /\ fs[n + 1] = e /\ th[n + 1] = x
      /\ \A k \in 1..n : fs[k] = es[k] /\ th[k] = sh[k]
  BY <1>1
<1> HIDE DEF fs, th, n
<1>3. q \in Reorders(n + 1) /\ q[n + 1] = n + 1 /\ \A k \in 1..n : q[k] = p[k]
  <2>1. \A k \in 1..n + 1 : q[k] = IF k = n + 1 THEN n + 1 ELSE p[k]
    OBVIOUS
  <2>2. q \in [1..n + 1 -> 1..n + 1]
    BY <1>1
  <2>3. ASSUME NEW i \in 1..n + 1, NEW j \in 1..n + 1, i # j
        PROVE  q[i] # q[j]
    <3> HIDE DEF q
    <3>1. \A k \in 1..n + 1 : k # n + 1 => k \in 1..n /\ q[k] = p[k] /\ p[k] # n + 1
      BY <1>1, <2>1
    <3>2. n + 1 \in 1..n + 1 /\ q[n + 1] = n + 1
      BY <1>1, <2>1
    <3>3. CASE i = n + 1 \/ j = n + 1
      BY <2>3, <3>1, <3>2, <3>3
    <3>4. CASE i # n + 1 /\ j # n + 1
      <4>1. i \in 1..n /\ j \in 1..n /\ q[i] = p[i] /\ q[j] = p[j]
        BY <3>1, <3>4
      <4> QED
        BY <1>1, <2>3, <4>1
    <3> QED
      BY <3>3, <3>4
  <2>4. q[n + 1] = n + 1 /\ \A k \in 1..n : q[k] = p[k]
    BY <1>1, <2>1
  <2> HIDE DEF q
  <2> QED
    BY <2>2, <2>3, <2>4 DEF Reorders
<1> HIDE DEF q
<1>4. ASSUME NEW k \in 1..n + 1
      PROVE  th[q[k]] = Shelf(fs[k])
  <2>1. CASE k = n + 1
    BY <1>2, <1>3, <2>1
  <2>2. CASE k # n + 1
    <3>1. k \in 1..n /\ p[k] \in 1..n
      BY <1>1, <2>2
    <3>2. sh[p[k]] = Shelf(es[k])
      BY <3>1 DEF Match, n
    <3> QED
      BY <1>2, <1>3, <3>1, <3>2
  <2> QED
    BY <2>1, <2>2
<1>5. Match(fs, th, q)
  BY <1>2, <1>3, <1>4 DEF Match
<1> QED
  BY <1>3, <1>5 DEF fs, th, n

LEMMA MatchReorder ==
  ASSUME NEW es \in Seq(RecordEntry), NEW sh, NEW p, Match(es, sh, p),
         NEW q \in Reorders(Len(es)), NEW fs, fs = Reordered(es, q)
  PROVE  \E r : Match(fs, sh, r)
<1> DEFINE n == Len(es)
           r == [k \in 1..n |-> p[q[k]]]
<1>1. /\ n \in Nat
      /\ p \in [1..n -> 1..n] /\ \A i, j \in 1..n : i # j => p[i] # p[j]
      /\ q \in [1..n -> 1..n] /\ \A i, j \in 1..n : i # j => q[i] # q[j]
  BY ReordersType DEF Match
<1>2. Len(fs) = n /\ \A k \in 1..n : fs[k] = es[q[k]]
  BY ReorderedSeq
<1> HIDE DEF n
<1>3. r \in Reorders(n) /\ \A k \in 1..n : r[k] = p[q[k]]
  BY <1>1 DEF Reorders
<1> HIDE DEF r
<1>4. ASSUME NEW k \in 1..n
      PROVE  sh[r[k]] = Shelf(fs[k])
  <2>1. q[k] \in 1..n
    BY <1>1
  <2>2. sh[p[q[k]]] = Shelf(es[q[k]])
    BY <2>1 DEF Match, n
  <2> QED
    BY <1>2, <1>3, <2>2
<1>5. Len(sh) = n
  BY DEF Match, n
<1> QED
  BY <1>2, <1>3, <1>4, <1>5 DEF Match

LEMMA MatchSame ==
  ASSUME NEW es, NEW sh, NEW p, Match(es, sh, p), NEW fs, Len(fs) = Len(es),
         \A k \in 1..Len(es) : Shelf(fs[k]) = Shelf(es[k])
  PROVE  Match(fs, sh, p)
  BY DEF Match

\* The same blobs make the same shelf.
LEMMA ShelfSame ==
  ASSUME NEW e, NEW f, f.raw_name = e.raw_name,
         \A k \in Kinds : Slot(f.blobs[k]) = Slot(e.blobs[k])
  PROVE  Shelf(f) = Shelf(e)
  BY DEF Shelf

\* add_blob, on the record of the array and on the shelf.
SlotSet(th, sh, i, kind, slot) == th = [sh EXCEPT ![i].slots[kind] = slot]

WithSlot(x, kind, slot) ==
  [raw_name |-> x.raw_name, slots |-> [k \in Kinds |-> IF k = kind THEN slot ELSE x.slots[k]]]

SlotType == SUBSET [source: Sources, type: Strings]

LEMMA SlotReplaced ==
  ASSUME NEW sh \in Seq(ShelfEntry), NEW i \in 1..Len(sh), NEW kind \in Kinds,
         NEW slot \in SlotType,
         NEW th, SlotSet(th, sh, i, kind, slot)
  PROVE  /\ th \in Seq(ShelfEntry) /\ Len(th) = Len(sh)
         /\ \A j \in 1..Len(sh) : j # i => th[j] = sh[j]
         /\ th[i] = WithSlot(sh[i], kind, slot)
<1> DEFINE Slots == SUBSET [source: Sources, type: Strings]
<1> USE DEF SlotSet, SlotType
<1>1. \A j \in 1..Len(sh) : sh[j] \in ShelfEntry
  OBVIOUS
<1>2. Len(th) = Len(sh) /\ DOMAIN th = 1..Len(sh)
  OBVIOUS
<1>3. \A j \in 1..Len(sh) : j # i => th[j] = sh[j]
  OBVIOUS
<1>4. th[i] = [sh[i] EXCEPT !.slots = [@ EXCEPT ![kind] = slot]]
  OBVIOUS
<1>5. sh[i] \in ShelfEntry /\ sh[i].raw_name \in Nat /\ sh[i].slots \in [Kinds -> Slots]
  BY <1>1 DEF ShelfEntry
<1> HIDE DEF SlotSet
<1> DEFINE ss == [k \in Kinds |-> IF k = kind THEN slot ELSE sh[i].slots[k]]
<1>6. [sh[i].slots EXCEPT ![kind] = slot] = ss
  BY <1>5
<1>7. ss \in [Kinds -> Slots]
  BY <1>5
<1>8. th[i] = [raw_name |-> sh[i].raw_name, slots |-> ss]
  <2> HIDE DEF ss, Slots
  <2> QED
    BY <1>4, <1>5, <1>6 DEF ShelfEntry
<1>9. th[i] \in ShelfEntry
  <2> DEFINE raw == sh[i].raw_name
             t == th[i]
  <2>1. raw \in Nat /\ t = [raw_name |-> raw, slots |-> ss]
    BY <1>5, <1>8
  <2> HIDE DEF raw, t, ss
  <2>2. t \in ShelfEntry
    BY <1>7, <2>1 DEF ShelfEntry
  <2> QED
    BY <2>2 DEF t
<1>10. th \in Seq(ShelfEntry)
  <2>1. \A j \in 1..Len(sh) : th[j] \in ShelfEntry
    BY <1>1, <1>3, <1>9
  <2>2. th = [j \in 1..Len(sh) |-> th[j]]
    BY <1>2 DEF SlotSet
  <2> QED
    BY <2>1, <2>2
<1> QED
  BY <1>2, <1>3, <1>8, <1>10 DEF WithSlot
LEMMA MatchLast ==
  ASSUME NEW es \in Seq(RecordEntry), NEW sh \in Seq(ShelfEntry), NEW p, Match(es, sh, p),
         NEW n, n = Len(es), n # 0, p[n] = n,
         NEW kind \in Kinds, NEW s \in Sources, NEW type \in Strings,
         NEW b \in BlobEntry, b.file = {s}, b.content_type = type,
         NEW fs, BlobSet(fs, es, n, kind, b),
         NEW th, SlotSet(th, sh, n, kind, {[source |-> s, type |-> type]})
  PROVE  Match(fs, th, p) /\ th \in Seq(ShelfEntry)
<1> DEFINE slot == {[source |-> s, type |-> type]}
<1>1. /\ n \in Nat /\ n \in 1..n /\ Len(sh) = n
      /\ p \in [1..n -> 1..n] /\ \A i, j \in 1..n : i # j => p[i] # p[j]
  BY ReordersType DEF Match
<1>2. /\ fs \in Seq(RecordEntry) /\ Len(fs) = n
      /\ \A j \in 1..n : fs[j].raw_name = es[j].raw_name
      /\ \A j \in 1..n, k \in Kinds : j # n \/ k # kind => fs[j].blobs[k] = es[j].blobs[k]
      /\ fs[n].blobs[kind] = b
  <2> HIDE DEF RecordEntry, BlobEntry
  <2> QED
    BY <1>1, BlobReplaced
<1>3. /\ th \in Seq(ShelfEntry) /\ Len(th) = n
      /\ \A j \in 1..n : j # n => th[j] = sh[j]
      /\ th[n] = WithSlot(sh[n], kind, slot)
  <2>1. slot \in SlotType
    BY DEF SlotType
  <2>2. SlotSet(th, sh, n, kind, slot)
    OBVIOUS
  <2>3. n \in 1..Len(sh) /\ Len(sh) = n
    BY <1>1
  <2> HIDE DEF slot, ShelfEntry
  <2>4. /\ th \in Seq(ShelfEntry) /\ Len(th) = Len(sh)
        /\ \A j \in 1..Len(sh) : j # n => th[j] = sh[j]
        /\ th[n] = WithSlot(sh[n], kind, slot)
    BY <2>1, <2>2, <2>3, SlotReplaced
  <2> QED
    BY <2>3, <2>4
<1>4. Slot(b) = slot
  BY DEF Slot
<1>5. ASSUME NEW k \in 1..n
      PROVE  th[p[k]] = Shelf(fs[k])
  <2>1. CASE k = n
    <3>1. sh[n] = Shelf(es[n])
      BY <1>1 DEF Match
    <3>2. \A kk \in Kinds : sh[n].slots[kk] = Slot(es[n].blobs[kk])
      BY <3>1 DEF Shelf
    <3>3. sh[n].raw_name = fs[n].raw_name
      BY <1>1, <1>2, <3>1 DEF Shelf
    <3>4. ASSUME NEW kk \in Kinds
          PROVE  (IF kk = kind THEN slot ELSE sh[n].slots[kk]) = Slot(fs[n].blobs[kk])
      <4>1. CASE kk = kind
        BY <1>2, <1>4, <4>1
      <4>2. CASE kk # kind
        BY <1>1, <1>2, <3>2, <4>2
      <4> QED
        BY <4>1, <4>2
    <3> HIDE DEF slot
    <3>5. [kk \in Kinds |-> IF kk = kind THEN slot ELSE sh[n].slots[kk]] = [kk \in Kinds |-> Slot(fs[n].blobs[kk])]
      BY <3>4
    <3> QED
      BY <1>3, <2>1, <3>3, <3>5 DEF Shelf, WithSlot
  <2>2. CASE k # n
    <3>1. p[k] \in 1..n /\ p[k] # n
      BY <1>1, <2>2
    <3>2. th[p[k]] = Shelf(es[k])
      <4>1. th[p[k]] = sh[p[k]]
        BY <1>3, <3>1
      <4> QED
        BY <4>1 DEF Match
    <3>3. fs[k].raw_name = es[k].raw_name /\ \A kk \in Kinds : Slot(fs[k].blobs[kk]) = Slot(es[k].blobs[kk])
      BY <1>2, <2>2
    <3>4. Shelf(fs[k]) = Shelf(es[k])
      BY <3>3, ShelfSame
    <3> QED
      BY <3>2, <3>4
  <2> QED
    BY <2>1, <2>2
<1> QED
  BY <1>1, <1>2, <1>3, <1>5 DEF Match

\* What write_blob changes in the array: three fields of one blob.
HasFields(b, c, pos) == b.offs = ALIGN(pos) /\ b.size = total_size(SizeOf[c]) /\ b.checksum = {c}

LEMMA CopiedBlob ==
  ASSUME TypeOK, NEW i \in 1..Len(entries), NEW kind \in Kinds, NEW s \in Sources, NEW c \in Contents,
         Copied(i, kind, s, c),
         NEW old, old = entries[i].blobs[kind],
         NEW b, b = entries'[i].blobs[kind]
  PROVE  /\ entries' \in Seq(RecordEntry) /\ Len(entries') = Len(entries)
         /\ \A j \in 1..Len(entries) : entries'[j].raw_name = entries[j].raw_name
         /\ \A j \in 1..Len(entries), k \in Kinds :
              j # i \/ k # kind => entries'[j].blobs[k] = entries[j].blobs[k]
         /\ b \in BlobEntry
         /\ b.file = old.file /\ b.content_type = old.content_type /\ b.flags = old.flags
         /\ HasFields(b, c, out.pos)
<1> DEFINE new == Stored(old, c, out.pos)
<1>1. entries \in Seq(RecordEntry) /\ old \in BlobEntry /\ out.pos \in Nat
  BY BlobType DEF TypeOK
<1>2. BlobSet(entries', entries, i, kind, new)
  BY DEF Copied, BlobSet
<1>3. /\ new \in BlobEntry
      /\ new.file = old.file /\ new.content_type = old.content_type /\ new.flags = old.flags
      /\ new.offs = ALIGN(out.pos) /\ new.size = total_size(SizeOf[c]) /\ new.checksum = {c}
  <2>1. new = Stored(old, c, out.pos)
    OBVIOUS
  <2> HIDE DEF new, BlobEntry
  <2> QED
    BY <1>1, <2>1, StoredBlob
<1> HIDE DEF new
<1>4. /\ entries' \in Seq(RecordEntry) /\ Len(entries') = Len(entries)
      /\ \A j \in 1..Len(entries) : entries'[j].raw_name = entries[j].raw_name
      /\ \A j \in 1..Len(entries), k \in Kinds : j # i \/ k # kind => entries'[j].blobs[k] = entries[j].blobs[k]
      /\ entries'[i].blobs[kind] = new
  <2> HIDE DEF RecordEntry, BlobEntry
  <2> QED
    BY <1>1, <1>2, <1>3, BlobReplaced
<1> QED
  BY <1>3, <1>4 DEF HasFields

LEMMA CopiedShelves ==
  ASSUME TypeOK, NEW i \in 1..Len(entries), NEW kind \in Kinds, NEW s \in Sources, NEW c \in Contents,
         Copied(i, kind, s, c)
  PROVE  \A k \in 1..Len(entries) : Shelf(entries'[k]) = Shelf(entries[k])
<1> DEFINE old == entries[i].blobs[kind]
           b == entries'[i].blobs[kind]
<1>1. /\ \A j \in 1..Len(entries) : entries'[j].raw_name = entries[j].raw_name
      /\ \A j \in 1..Len(entries), k \in Kinds : j # i \/ k # kind => entries'[j].blobs[k] = entries[j].blobs[k]
      /\ b.file = old.file /\ b.content_type = old.content_type
  BY CopiedBlob
<1>2. Slot(b) = Slot(old)
  BY <1>1 DEF Slot
<1>3. ASSUME NEW j \in 1..Len(entries)
      PROVE  Shelf(entries'[j]) = Shelf(entries[j])
  <2>1. \A k \in Kinds : Slot(entries'[j].blobs[k]) = Slot(entries[j].blobs[k])
    BY <1>1, <1>2
  <2> QED
    BY <1>1, <2>1, ShelfSame
<1> QED
  BY <1>3

----------------------------------------------------------------------------
\* The history: what a source has held since write began, what is on the
\* shelves, and what was on them when write began.
Had ==
  /\ had = [s \in Sources |-> had[s]]
  /\ \A s \in Sources : disk[s] \in had[s] /\ had[s] \subseteq Versions[s]
  /\ ReadFrom(had)

MatchedBy(p) ==
  /\ Match(entries, shelves, p)
  /\ latest => Len(entries) # 0 /\ p[Len(entries)] = Len(entries)

Shelved == shelves \in Seq(ShelfEntry) /\ \E p : MatchedBy(p)

Begun == out.pc # "open" => written = shelves /\ Sorted(entries)

LEMMA ShardCases == ASSUME [ShardNext]_allVars PROVE [Next]_vars
  BY DEF ShardNext, Call, SetBlob, PutRecord, PutBlob, EditSource, BeginWrite, Quietly,
         Next, Write, allVars, vars

LEMMA NextHad ==
  ASSUME TypeOK, Versioned, AllGiven, Had, [ShardNext]_allVars
  PROVE  Had'
<1>0. Versioned' /\ disk \in [Sources -> Contents]
  BY ShardCases, NextVersioned DEF TypeOK
<1> DEFINE HadOK == /\ had' = [s \in Sources |-> had'[s]]
                    /\ \A s \in Sources : had[s] \subseteq had'[s] /\ disk'[s] \in had'[s]
                                         /\ had'[s] \subseteq Versions[s]
<1>1. ASSUME NEW s \in Sources, EditSource(s)
      PROVE  HadOK
  <2>1. had' = [had EXCEPT ![s] = @ \cup {disk'[s]}] /\ \A t \in Sources : t # s => disk'[t] = disk[t]
    BY <1>0, <1>1 DEF EditSource, Edit
  <2>2. had'[s] = had[s] \cup {disk'[s]} /\ \A t \in Sources : t # s => had'[t] = had[t]
    BY <2>1 DEF Had
  <2>3. had' = [t \in Sources |-> had'[t]]
    BY <2>1 DEF Had
  <2>4. ASSUME NEW t \in Sources
        PROVE  had[t] \subseteq had'[t] /\ disk'[t] \in had'[t] /\ had'[t] \subseteq Versions[t]
    <3>1. CASE t = s
      BY <1>0, <2>2, <3>1 DEF Had, Versioned
    <3>2. CASE t # s
      BY <2>1, <2>2, <3>2 DEF Had
    <3> QED
      BY <3>1, <3>2
  <2> QED
    BY <2>3, <2>4
<1>2. CASE BeginWrite
  <2>1. had' = [s \in Sources |-> {disk[s]}] /\ disk' = disk
    BY <1>2 DEF BeginWrite, WriteStart
  <2>2. \A s \in Sources : had'[s] = {disk[s]} /\ disk[s] \in Versions[s]
    BY <2>1 DEF Versioned
  <2>3. had' = [s \in Sources |-> had'[s]]
    BY <2>1
  <2>4. got' = <<>>
    BY <1>2 DEF BeginWrite, WriteStart
  <2>5. Len(<<>>) = 0
    OBVIOUS
  <2>6. ReadBy(Copying', Blob', got', had')
    BY <2>4, <2>5 DEF ReadBy, PiecesOf
  <2> QED
    BY <2>1, <2>2, <2>3, <2>6 DEF Had, ReadFrom
<1>3. had' = had /\ disk' = disk => HadOK
  BY DEF Had
<1>4. ASSUME NEW h \in HexNames, PutRecord(h)
      PROVE  had' = had /\ disk' = disk
  BY <1>4 DEF PutRecord, AddRecord
<1>5. ASSUME NEW kind \in Kinds, NEW s \in Sources, NEW type \in Types, NEW zlib \in BOOLEAN,
             PutBlob(kind, s, type, zlib)
      PROVE  had' = had /\ disk' = disk
  BY <1>5 DEF PutBlob, AddBlob
<1>6. Quietly => had' = had /\ disk' = disk
  BY DEF Quietly, WriteBlob, SkipBlob, ReadPiece, StoreBlob, WriteSize, WriteHeader, Abort
<1>7. UNCHANGED allVars => had' = had /\ disk' = disk
  BY DEF allVars, vars
<1>8. BeginWrite \/ HadOK
  <2> HIDE DEF HadOK
  <2> QED
    BY <1>1, <1>3, <1>4, <1>5, <1>6, <1>7 DEF ShardNext, Call, SetBlob
<1>9. CASE HadOK
  <2>1. \A s \in Sources : had[s] \subseteq had'[s] /\ disk[s] \in had'[s]
    BY <1>9 DEF Had
  <2>2. ReadFrom(had) /\ [Next]_vars
    BY ShardCases DEF Had
  <2>3. ReadBy(Copying', Blob', got', had')
    BY <2>1, <2>2, NextRead
  <2> QED
    BY <1>9, <2>3 DEF Had, ReadFrom
<1> QED
  BY <1>2, <1>8, <1>9

LEMMA NextShelved ==
  ASSUME TypeOK, Versioned, AllGiven, Shelved, [ShardNext]_allVars
  PROVE  Shelved'
<1>0. entries \in Seq(RecordEntry) /\ shelves \in Seq(ShelfEntry)
  BY DEF TypeOK, Shelved
<1>1. PICK p : MatchedBy(p)
  BY DEF Shelved
<1>2. ASSUME NEW h \in HexNames, PutRecord(h)
      PROVE  Shelved'
  <2> DEFINE r == [raw_name |-> HexToRaw[h], blobs |-> [k \in Kinds |-> blob_entry_init]]
             x == [raw_name |-> HexToRaw[h], slots |-> [k \in Kinds |-> {}]]
  <2>1. r \in RecordEntry /\ r.raw_name = HexToRaw[h] /\ \A k \in Kinds : r.blobs[k] = blob_entry_init
    BY NewRecordType
  <2>2. Slot(blob_entry_init) = {}
    BY DEF Slot, blob_entry_init
  <2>3. x = Shelf(r)
    <3>1. \A k \in Kinds : Slot(r.blobs[k]) = {}
      BY <2>1, <2>2
    <3>2. [k \in Kinds |-> Slot(r.blobs[k])] = [k \in Kinds |-> {}]
      BY <3>1
    <3> QED
      BY <2>1, <3>2 DEF Shelf
  <2>4. x \in ShelfEntry
    BY NamesAssumption DEF ShelfEntry
  <2>5. entries' = Append(entries, r) /\ shelves' = Append(shelves, x)
    BY <1>2 DEF PutRecord, AddRecord
  <2> HIDE DEF r, x, RecordEntry, ShelfEntry
  <2>6. PICK q : Match(entries', shelves', q) /\ q[Len(entries) + 1] = Len(entries) + 1
    BY <1>0, <1>1, <2>1, <2>3, <2>4, <2>5, MatchAppend DEF MatchedBy
  <2>7. shelves' \in Seq(ShelfEntry) /\ Len(entries') = Len(entries) + 1 /\ Len(entries) \in Nat
    BY <1>0, <2>1, <2>4, <2>5
  <2>8. MatchedBy(q)'
    BY <2>6, <2>7 DEF MatchedBy
  <2> QED
    BY <2>7, <2>8 DEF Shelved
<1>3. ASSUME latest, NEW kind \in Kinds, NEW s \in Sources, NEW type \in Types, NEW zlib \in BOOLEAN,
             PutBlob(kind, s, type, zlib)
      PROVE  Shelved'
  <2>1. AddBlob(kind, s, type, zlib) /\ latest' = latest
    BY <1>3 DEF PutBlob
  <2>2. PICK b \in BlobEntry :
          /\ b.file = {s} /\ b.content_type = type /\ b.flags = zlib
          /\ b.uncompressed_size = SizeOf[disk[s]]
          /\ BlobSet(entries', entries, Len(entries), kind, b)
    BY <2>1, AddBlobCases
  <2>3. Len(shelves) = Len(entries)
    BY <1>1 DEF MatchedBy, Match
  <2>4. SlotSet(shelves', shelves, Len(entries), kind, {[source |-> s, type |-> type]})
    BY <1>3, <2>3 DEF PutBlob, SlotSet
  <2>5. type \in Strings
    BY TypesAssumption
  <2> DEFINE n == Len(entries)
  <2>6. n = Len(entries) /\ n # 0 /\ p[n] = n /\ n \in 1..n
    BY <1>0, <1>1, <1>3 DEF MatchedBy
  <2> HIDE DEF RecordEntry, BlobEntry, ShelfEntry
  <2>7. Match(entries', shelves', p) /\ shelves' \in Seq(ShelfEntry)
    <3> HIDE DEF n
    <3>1. BlobSet(entries', entries, n, kind, b) /\ SlotSet(shelves', shelves, n, kind, {[source |-> s, type |-> type]})
      BY <2>2, <2>4, <2>6
    <3>2. Match(entries, shelves, p)
      BY <1>1 DEF MatchedBy
    <3> QED
      BY <1>0, <2>2, <2>5, <2>6, <3>1, <3>2, MatchLast
  <2>8. Len(entries') = Len(entries)
    BY <1>0, <2>2, <2>6, BlobReplaced
  <2>9. MatchedBy(p)'
    BY <2>6, <2>7, <2>8 DEF MatchedBy
  <2> QED
    BY <2>7, <2>9 DEF Shelved
<1>4. CASE BeginWrite
  <2>1. WriteStart /\ shelves' = shelves /\ latest' = FALSE
    BY <1>4 DEF BeginWrite
  <2>2. PICK q \in Reorders(Len(entries)) : entries' = Reordered(entries, q)
    BY <2>1, WriteStartCases
  <2>3. Match(entries, shelves, p)
    BY <1>1 DEF MatchedBy
  <2>4. PICK r : Match(entries', shelves, r)
    BY <1>0, <2>2, <2>3, MatchReorder
  <2> QED
    BY <1>0, <2>1, <2>4 DEF Shelved, MatchedBy
<1>5. CASE EndBlob /\ shelves' = shelves /\ latest' = latest
  <2>1. PICK i \in 1..Len(entries), kind \in Kinds :
          Skipped(i, kind) \/ \E s \in Sources, c \in Contents : Copied(i, kind, s, c)
    BY <1>5, WriteBlobCases
  <2>2. CASE Skipped(i, kind)
    BY <1>0, <1>1, <1>5, <2>2 DEF Skipped, Shelved, MatchedBy
  <2>3. ASSUME NEW s \in Sources, NEW c \in Contents, Copied(i, kind, s, c)
        PROVE  Shelved'
    <3>1. Len(entries') = Len(entries) /\ \A k \in 1..Len(entries) : Shelf(entries'[k]) = Shelf(entries[k])
      BY <2>3, CopiedSizes, CopiedShelves
    <3>2. Match(entries', shelves', p)
      BY <1>1, <1>5, <3>1, MatchSame DEF MatchedBy
    <3> QED
      BY <1>0, <1>1, <1>5, <3>1, <3>2 DEF Shelved, MatchedBy
  <2> QED
    BY <2>1, <2>2, <2>3
<1>6. CASE UNCHANGED <<entries, shelves, latest>>
  BY <1>0, <1>1, <1>6 DEF Shelved, MatchedBy
<1>7. ASSUME NEW s \in Sources, EditSource(s)
      PROVE  UNCHANGED <<entries, shelves, latest>>
  BY <1>7 DEF EditSource, Edit
<1>8. Quietly => \/ EndBlob /\ shelves' = shelves /\ latest' = latest
                 \/ UNCHANGED <<entries, shelves, latest>>
  BY DEF Quietly, WriteBlob, EndBlob, ReadPiece, WriteSize, WriteHeader, Abort
<1>9. UNCHANGED allVars => UNCHANGED <<entries, shelves, latest>>
  BY DEF allVars, vars
<1> QED
  BY <1>2, <1>3, <1>4, <1>5, <1>6, <1>7, <1>8, <1>9 DEF ShardNext, Call, SetBlob

LEMMA SortedStart ==
  ASSUME TypeOK, WriteStart
  PROVE  Sorted(entries')
<1> DEFINE n == Len(entries)
           key == [i \in 1..n |-> entries[i].raw_name]
<1>1. PICK p \in SortedBy(n, key) : p \in Reorders(n) /\ entries' = Reordered(entries, p)
  BY WriteStartCases
<1>2. entries \in Seq(RecordEntry) /\ n \in Nat
  BY DEF TypeOK
<1>3. Len(entries') = n /\ \A j \in 1..n : entries'[j] = entries[p[j]] /\ p[j] \in 1..n
  BY <1>1, <1>2, ReorderedSeq
<1>4. \A j \in 1..n : key[j] = entries[j].raw_name /\ key[j] \in Nat
  <2>1. \A j \in 1..n : entries[j] \in RecordEntry
    BY <1>2
  <2> QED
    BY <2>1 DEF RecordEntry
<1> HIDE DEF key, n
<1>5. ASSUME NEW i \in 1..n, NEW j \in 1..n, i < j
      PROVE  entries'[i].raw_name <= entries'[j].raw_name
  <2>1. key[p[i]] < key[p[j]] \/ key[p[i]] = key[p[j]]
    BY <1>1, <1>5 DEF SortedBy
  <2>2. key[p[i]] \in Nat /\ key[p[j]] \in Nat /\ key[p[i]] = entries'[i].raw_name /\ key[p[j]] = entries'[j].raw_name
    BY <1>3, <1>4
  <2> QED
    BY <2>1, <2>2
<1> QED
  BY <1>3, <1>5 DEF Sorted

LEMMA NextBegun ==
  ASSUME TypeOK, Versioned, AllGiven, Begun, [ShardNext]_allVars
  PROVE  Begun'
<1>1. CASE BeginWrite
  <2>1. written' = shelves /\ shelves' = shelves /\ WriteStart
    BY <1>1 DEF BeginWrite
  <2> QED
    BY <2>1, SortedStart DEF Begun
<1>2. CASE EndBlob /\ written' = written /\ shelves' = shelves
  <2>1. out.pc = "blobs"
    BY <1>2, WriteBlobCases
  <2>2. PICK i \in 1..Len(entries), kind \in Kinds :
          Skipped(i, kind) \/ \E s \in Sources, c \in Contents : Copied(i, kind, s, c)
    BY <1>2, WriteBlobCases
  <2>3. CASE Skipped(i, kind)
    BY <1>2, <2>1, <2>3 DEF Skipped, Begun
  <2>4. ASSUME NEW s \in Sources, NEW c \in Contents, Copied(i, kind, s, c)
        PROVE  Begun'
    <3>1. Len(entries') = Len(entries) /\ \A j \in 1..Len(entries) : entries'[j].raw_name = entries[j].raw_name
      BY <2>4, CopiedBlob
    <3>2. Sorted(entries')
      BY <2>1, <3>1 DEF Begun, Sorted
    <3> QED
      BY <1>2, <2>1, <3>2 DEF Begun
  <2> QED
    BY <2>2, <2>3, <2>4
<1>3. CASE out.pc # "open" /\ UNCHANGED <<entries, written, shelves>>
  BY <1>3 DEF Begun
<1>4. CASE out'.pc = "open"
  BY <1>4 DEF Begun
<1>5. ASSUME NEW h \in HexNames, PutRecord(h)
      PROVE  out'.pc = "open"
  BY <1>5 DEF PutRecord, AddRecord
<1>6. ASSUME NEW kind \in Kinds, NEW s \in Sources, NEW type \in Types, NEW zlib \in BOOLEAN,
             PutBlob(kind, s, type, zlib)
      PROVE  out'.pc = "open"
  BY <1>6 DEF PutBlob, AddBlob
<1>7. ASSUME NEW s \in Sources, EditSource(s)
      PROVE  UNCHANGED <<entries, out, written, shelves>>
  BY <1>7 DEF EditSource, Edit
<1>8. ASSUME Quietly
      PROVE  \/ EndBlob /\ written' = written /\ shelves' = shelves
             \/ out'.pc = "open"
             \/ out.pc # "open" /\ UNCHANGED <<entries, written, shelves>>
             \/ UNCHANGED <<entries, out, written, shelves>>
  <2>1. WriteHeader => out'.pc = "open"
    BY DEF WriteHeader, TypeOK
  <2> QED
    BY <1>8, <2>1 DEF Quietly, WriteBlob, EndBlob, ReadPiece, WriteSize, Abort
<1>9. UNCHANGED allVars => UNCHANGED <<entries, out, written, shelves>>
  BY DEF allVars, vars
<1>10. CASE UNCHANGED <<entries, out, written, shelves>>
  BY <1>10 DEF Begun
<1> QED
  BY <1>1, <1>2, <1>3, <1>4, <1>5, <1>6, <1>7, <1>8, <1>9, <1>10 DEF ShardNext, Call, SetBlob

----------------------------------------------------------------------------
\* How far write has come: the blobs it has passed are in the file.
Number(k, kind) == IF kind = METADATA THEN 2 * k - 1 ELSE 2 * k

Past(k, kind) == out.pc = "header" \/ (out.pc = "blobs" /\ Number(k, kind) < out.i)

\* The contents of a blob are what its file may have come to, read during the
\* write.
FromHad(b) == \A s \in b.file : \E v \in Blend(had[s]) : b.checksum = {IF b.flags THEN Zlib[v] ELSE v}

PassedOK(k, kind) == Landed(file, entries[k].blobs[kind]) /\ FromHad(entries[k].blobs[kind])

Progress == \A k \in 1..Len(entries), kind \in Kinds : Past(k, kind) => PassedOK(k, kind)

LEMMA NumberNth ==
  ASSUME NEW n \in Nat, NEW k \in 1..n, NEW kind \in Kinds
  PROVE  /\ Number(k, kind) \in 1..2 * n
         /\ Nth(Number(k, kind)) = <<k, kind>>
<1>1. CASE kind = METADATA
  <2>1. Number(k, kind) = 2 * k - 1
    BY <1>1 DEF Number
  <2>2. ((2 * k - 1) + 1) \div 2 = k /\ (2 * k - 1) % 2 = 1
    OBVIOUS
  <2> QED
    BY <1>1, <2>1, <2>2 DEF Nth
<1>2. CASE kind = DATA
  <2>1. Number(k, kind) = 2 * k
    BY <1>2, KindsAssumption DEF Number
  <2>2. (2 * k + 1) \div 2 = k /\ (2 * k) % 2 = 0
    OBVIOUS
  <2> QED
    BY <1>2, <2>1, <2>2 DEF Nth
<1> QED
  BY <1>1, <1>2 DEF Kinds

LEMMA LandedKeeps ==
  ASSUME NEW f, NEW g, f \subseteq g, NEW b, Landed(f, b)
  PROVE  Landed(g, b)
  BY DEF Landed, LandedAs

LEMMA HadGrows ==
  ASSUME NEW b, b.file \subseteq Sources, FromHad(b), \A s \in Sources : had[s] \subseteq had'[s]
  PROVE  \A s \in b.file : \E v \in Blend(had'[s]) : b.checksum = {IF b.flags THEN Zlib[v] ELSE v}
<1>1. \A s \in b.file : Blend(had[s]) \subseteq Blend(had'[s])
  BY BlendGrows
<1> QED
  BY <1>1 DEF FromHad

\* A blob that was just copied.
LEMMA CopiedPassed ==
  ASSUME TypeOK, Versioned, AllGiven, Layout, Had, out.pc = "blobs",
         NEW i \in 1..Len(entries), NEW kind \in Kinds, NEW s \in Sources, NEW c \in Contents,
         Copied(i, kind, s, c), NEW b, b = entries'[i].blobs[kind]
  PROVE  /\ Landed(file', b)
         /\ \A t \in b.file : \E v \in Blend(had[t]) : b.checksum = {IF b.flags THEN Zlib[v] ELSE v}
<1> DEFINE old == entries[i].blobs[kind]
           w == At(ALIGN(out.pos), SizeOf[c], Data(c))
<1>1. /\ b.file = old.file /\ b.flags = old.flags
      /\ b.offs = ALIGN(out.pos) /\ b.size = total_size(SizeOf[c]) /\ b.checksum = {c}
  <2>1. b.file = old.file /\ b.flags = old.flags /\ HasFields(b, c, out.pos)
    BY CopiedBlob
  <2> QED
    BY <2>1 DEF HasFields
<1>2. s \in old.file /\ file' = pwrite(file, w)
  BY DEF Copied
<1>3. old.file = {s} /\ (old.flags => Blend(Versions[s]) \subseteq Plain)
  BY <1>2 DEF AllGiven, Given
<1>4. PICK d \in Contents : Taken(s, d) /\ c = IF old.flags THEN Zlib[d] ELSE d
  BY DEF Copied
<1>10. d \in Blend(had[s]) /\ d \in Blend(Versions[s])
  <2>1. Copying /\ Blob = old
    BY DEF Copied, Blob
  <2>2. PiecesOf(had[s], got) /\ disk[s] \in had[s]
    BY <1>2, <2>1 DEF Had, ReadFrom, ReadBy
  <2>3. PiecesOf(Versions[s], got) /\ disk[s] \in Versions[s]
    BY <1>2, <2>1 DEF Versioned, ReadFrom, ReadBy
  <2> QED
    BY <1>4, <2>2, <2>3, PieceLengths, TakenBlend
<1>5. b.offs # 0
  <2>1. entries \in Seq(RecordEntry) /\ out.pos \in Nat
    BY DEF TypeOK
  <2>2. HeaderSize(entries) \in Nat /\ DataStart(entries) \in Nat /\ 8 + HeaderSize(entries) <= DataStart(entries)
    BY <2>1, DataStartBound
  <2>3. DataStart(entries) <= out.pos
    BY DEF Layout
  <2>4. ALIGN(out.pos) \in Nat /\ ALIGN(out.pos) >= out.pos
    BY <2>1, AlignUp
  <2> QED
    BY <1>1, <2>1, <2>2, <2>3, <2>4
<1>6. SizeOf[c] = 0 \/ w \in file'
  <2>1. w.len = SizeOf[c]
    BY DEF At
  <2> HIDE DEF w
  <2> QED
    BY <1>2, <2>1, WriteKeeps
<1>7. b.flags => \E x \in Plain : Zlib[x] = c
  BY <1>1, <1>3, <1>4, <1>10
<1>8. LandedAs(file', b, c)
  BY <1>1, <1>5, <1>6, <1>7 DEF LandedAs
<1>9. \A t \in b.file : \E v \in Blend(had[t]) : b.checksum = {IF b.flags THEN Zlib[v] ELSE v}
  BY <1>1, <1>3, <1>4, <1>10
<1> QED
  BY <1>8, <1>9 DEF Landed

LEMMA NextProgress ==
  ASSUME TypeOK, Versioned, AllGiven, Layout, Had, Progress, [ShardNext]_allVars
  PROVE  Progress'
<1>0. entries \in Seq(RecordEntry) /\ Len(entries) \in Nat /\ out.i \in Nat
  BY DEF TypeOK
<1>1. CASE BeginWrite
  <2>1. out' = [pc |-> "blobs", i |-> 1, pos |-> DataStart(entries')]
    BY <1>1, WriteStartCases DEF BeginWrite
  <2>2. Len(entries') \in Nat
    BY <1>1, NextEntries DEF BeginWrite, EntriesOK, Next, Write
  <2>3. ASSUME NEW k \in 1..Len(entries'), NEW kind \in Kinds
        PROVE  ~Past(k, kind)'
    <3>1. Number(k, kind) \in 1..2 * Len(entries')
      BY <2>2, NumberNth
    <3>2. out'.pc = "blobs" /\ out'.i = 1
      BY <2>1
    <3>3. ~(Number(k, kind) < 1)
      BY <2>2, <3>1
    <3> QED
      BY <3>2, <3>3 DEF Past
  <2> QED
    BY <2>3 DEF Progress
<1>2. CASE EndBlob /\ had' = had
  <2>1. out.pc = "blobs" /\ out'.pc = "blobs"
    BY <1>2, WriteBlobCases
  <2>2. PICK i \in 1..Len(entries), kind \in Kinds :
          /\ Nth(out.i) = <<i, kind>>
          /\ Skipped(i, kind) \/ \E s \in Sources, c \in Contents : Copied(i, kind, s, c)
    BY <1>2, WriteBlobCases
  <2>3. file \subseteq file' /\ out'.i = out.i + 1
    <3>1. file \subseteq file'
      BY <1>2, <2>1, NextLayout DEF Next, Write, WriteBlob, EndBlob
    <3> QED
      BY <2>2, <3>1 DEF Skipped, Copied
  <2>4. ASSUME NEW k \in 1..Len(entries), NEW kk \in Kinds, Past(k, kk)', k # i \/ kk # kind
        PROVE  Past(k, kk)
    <3>1. Number(k, kk) \in Nat /\ Nth(Number(k, kk)) = <<k, kk>>
      <4>1. Number(k, kk) \in 1..2 * Len(entries) /\ Nth(Number(k, kk)) = <<k, kk>>
        BY <1>0, NumberNth
      <4> QED
        BY <1>0, <4>1
    <3>2. Number(k, kk) # out.i
      BY <2>2, <2>4, <3>1
    <3>3. Number(k, kk) < out.i + 1
      BY <2>1, <2>3, <2>4 DEF Past
    <3> QED
      BY <1>0, <2>1, <3>1, <3>2, <3>3 DEF Past
  <2>5. CASE Skipped(i, kind)
    <3>1. entries' = entries /\ entries[i].blobs[kind].file = {}
      BY <2>5 DEF Skipped
    <3>2. PassedOK(i, kind)'
      BY <3>1 DEF PassedOK, Landed, FromHad
    <3>3. ASSUME NEW k \in 1..Len(entries), NEW kk \in Kinds, Past(k, kk)
          PROVE  PassedOK(k, kk)'
      BY <1>2, <2>3, <3>1, <3>3, LandedKeeps DEF Progress, PassedOK, FromHad
    <3> QED
      BY <2>4, <3>1, <3>2, <3>3 DEF Progress
  <2>6. ASSUME NEW s \in Sources, NEW c \in Contents, Copied(i, kind, s, c)
        PROVE  Progress'
    <3>1. /\ Len(entries') = Len(entries)
          /\ \A j \in 1..Len(entries), k \in Kinds :
               j # i \/ k # kind => entries'[j].blobs[k] = entries[j].blobs[k]
      BY <2>6, CopiedBlob
    <3>2. PassedOK(i, kind)'
      <4> DEFINE b == entries'[i].blobs[kind]
      <4>1. /\ Landed(file', b)
            /\ \A t \in b.file : \E v \in Blend(had[t]) : b.checksum = {IF b.flags THEN Zlib[v] ELSE v}
        BY <2>1, <2>6, CopiedPassed
      <4> QED
        BY <1>2, <4>1 DEF PassedOK, FromHad
    <3>3. ASSUME NEW k \in 1..Len(entries), NEW kk \in Kinds, Past(k, kk), k # i \/ kk # kind
          PROVE  PassedOK(k, kk)'
      <4>1. entries'[k].blobs[kk] = entries[k].blobs[kk]
        BY <3>1, <3>3
      <4>2. PassedOK(k, kk)
        BY <3>3 DEF Progress
      <4> QED
        BY <1>2, <2>3, <4>1, <4>2, LandedKeeps DEF PassedOK, FromHad
    <3> QED
      BY <2>4, <3>1, <3>2, <3>3 DEF Progress
  <2> QED
    BY <2>2, <2>5, <2>6
<1>3. CASE WriteSize /\ had' = had
  <2>1. out.pc = "blobs" /\ out.i > 2 * Len(entries) /\ entries' = entries
    BY <1>3 DEF WriteSize
  <2>2. file \subseteq file'
    BY <1>3, <2>1, NextLayout DEF Next, Write
  <2>3. ASSUME NEW k \in 1..Len(entries), NEW kind \in Kinds
        PROVE  PassedOK(k, kind)'
    <3>1. Number(k, kind) \in 1..2 * Len(entries)
      BY <1>0, NumberNth
    <3>2. Past(k, kind)
      BY <1>0, <2>1, <3>1 DEF Past
    <3>3. PassedOK(k, kind)
      BY <3>2 DEF Progress
    <3> QED
      BY <1>3, <2>1, <2>2, <3>3, LandedKeeps DEF PassedOK, FromHad
  <2> QED
    BY <2>1, <2>3 DEF Progress
<1>4. CASE out'.pc = "open"
  BY <1>4 DEF Progress, Past
<1>5. CASE UNCHANGED <<entries, out, file>> /\ \A s \in Sources : had[s] \subseteq had'[s]
  <2>1. ASSUME NEW k \in 1..Len(entries), NEW kind \in Kinds, Past(k, kind)
        PROVE  PassedOK(k, kind)'
    <3>1. PassedOK(k, kind)
      BY <2>1 DEF Progress
    <3>2. entries[k].blobs[kind] \in BlobEntry
      BY BlobType
    <3>3. entries[k].blobs[kind].file \subseteq Sources
      BY <3>2 DEF BlobEntry
    <3>4. FromHad(entries[k].blobs[kind])'
      <4> DEFINE b == entries[k].blobs[kind]
      <4>1. \A s \in b.file : \E v \in Blend(had'[s]) : b.checksum = {IF b.flags THEN Zlib[v] ELSE v}
        <5>1. FromHad(b) /\ b.file \subseteq Sources
          BY <3>1, <3>3 DEF PassedOK
        <5> HIDE DEF b
        <5> QED
          BY <1>5, <5>1, HadGrows
      <4> QED
        BY <1>5, <4>1 DEF FromHad
    <3> QED
      BY <1>5, <3>1, <3>4 DEF PassedOK
  <2> QED
    BY <1>5, <2>1 DEF Progress, Past
<1>6. ASSUME NEW h \in HexNames, PutRecord(h)
      PROVE  out'.pc = "open"
  BY <1>6 DEF PutRecord, AddRecord
<1>7. ASSUME NEW kind \in Kinds, NEW s \in Sources, NEW type \in Types, NEW zlib \in BOOLEAN,
             PutBlob(kind, s, type, zlib)
      PROVE  out'.pc = "open"
  BY <1>7 DEF PutBlob, AddBlob
<1>8. ASSUME NEW s \in Sources, EditSource(s)
      PROVE  UNCHANGED <<entries, out, file>> /\ \A t \in Sources : had[t] \subseteq had'[t]
  <2>1. UNCHANGED <<entries, out, file>> /\ had' = [had EXCEPT ![s] = @ \cup {disk'[s]}]
    BY <1>8 DEF EditSource, Edit
  <2>2. had'[s] = had[s] \cup {disk'[s]} /\ \A t \in Sources : t # s => had'[t] = had[t]
    BY <2>1 DEF Had
  <2> QED
    BY <2>1, <2>2
<1>9. ASSUME Quietly
      PROVE  \/ EndBlob /\ had' = had
             \/ WriteSize /\ had' = had
             \/ out'.pc = "open"
             \/ UNCHANGED <<entries, out, file, had>>
  <2>1. WriteHeader => out'.pc = "open"
    BY DEF WriteHeader, TypeOK
  <2> QED
    BY <1>9, <2>1 DEF Quietly, WriteBlob, EndBlob, ReadPiece, Abort
<1>10. UNCHANGED allVars => UNCHANGED <<entries, out, file, had>>
  BY DEF allVars, vars
<1> QED
  BY <1>1, <1>2, <1>3, <1>4, <1>5, <1>6, <1>7, <1>8, <1>9, <1>10 DEF ShardNext, Call, SetBlob

----------------------------------------------------------------------------
\* The headers in the file: there is none while write is under way, and one
\* that is there has all its data, and the records that were asked for.
AllFromHad(rs) == \A k \in 1..Len(rs), kind \in Kinds : FromHad(rs[k].blobs[kind])

HeaderOK(rs) ==
  RecordsOK(rs) /\ AllLanded(file, rs) /\ AllFromHad(rs) /\ \E p : Match(rs, written, p)

HeadersOK ==
  \A e \in file : e.val.kind = "header" => out.pc = "open" /\ HeaderOK(e.val.records)

SizeWritten ==
  out.pc = "header" => At(0, 8, [kind |-> "size", size |-> HeaderSize(entries)]) \in file

LEMMA ShapedWrite ==
  ASSUME NEW f, DataShaped(f), NEW w, \A c \in Contents : w.val = Data(c) => w.len = SizeOf[c]
  PROVE  DataShaped(pwrite(f, w))
  BY WriteKeeps DEF DataShaped

\* What a step writes: a blob, the size of the header, or the header.
LEMMA FileSteps ==
  ASSUME TypeOK, Versioned, AllGiven, [Next]_vars
  PROVE  \/ file' = {}
         \/ file' = file
         \/ /\ out.pc # "open"
            /\ \E w : /\ file' = pwrite(file, w)
                      /\ \A c \in Contents : w.val = Data(c) => w.len = SizeOf[c]
                      /\ w.val.kind = "header" => out.pc = "header" /\ w.val.records = entries
<1>1. CASE WriteStart
  BY <1>1, WriteStartCases
<1>2. CASE EndBlob
  <2>1. out.pc = "blobs"
    BY <1>2, WriteBlobCases
  <2>2. PICK i \in 1..Len(entries), kind \in Kinds :
          Skipped(i, kind) \/ \E s \in Sources, c \in Contents : Copied(i, kind, s, c)
    BY <1>2, WriteBlobCases
  <2>3. ASSUME NEW s \in Sources, NEW c \in Contents, Copied(i, kind, s, c)
        PROVE  \E w : /\ file' = pwrite(file, w)
                      /\ \A d \in Contents : w.val = Data(d) => w.len = SizeOf[d]
                      /\ w.val.kind = "header" => out.pc = "header" /\ w.val.records = entries
    <3> DEFINE w == At(ALIGN(out.pos), SizeOf[c], Data(c))
    <3>1. file' = pwrite(file, w)
      BY <2>3 DEF Copied
    <3>2. w.val = Data(c) /\ w.len = SizeOf[c] /\ Data(c).kind = "data"
      BY DEF At, Data
    <3>3. \A d \in Contents : Data(c) = Data(d) => c = d
      BY DEF Data
    <3> HIDE DEF w
    <3> QED
      BY <3>1, <3>2, <3>3
  <2> QED
    BY <2>1, <2>2, <2>3 DEF Skipped
<1>3. CASE WriteSize
  <2> DEFINE v == [kind |-> "size", size |-> HeaderSize(entries)]
             w == At(0, 8, v)
  <2>1. out.pc = "blobs" /\ file' = pwrite(file, w)
    BY <1>3 DEF WriteSize
  <2>2. w.val = v /\ v.kind = "size" /\ \A c \in Contents : v # Data(c)
    BY DEF At, Data
  <2> HIDE DEF v, w
  <2> QED
    BY <2>1, <2>2
<1>4. CASE WriteHeader
  <2> DEFINE v == [kind |-> "header", records |-> entries]
             w == At(8, HeaderSize(entries), v)
  <2>1. out.pc = "header" /\ (file' = pwrite(file, w) \/ file' = file)
    BY <1>4 DEF WriteHeader
  <2>2. w.val = v /\ v.kind = "header" /\ v.records = entries /\ \A c \in Contents : v # Data(c)
    BY DEF At, Data
  <2> HIDE DEF v, w
  <2> QED
    BY <2>1, <2>2
<1>5. CASE file' = file
  BY <1>5
<1> QED
  BY <1>1, <1>2, <1>3, <1>4, <1>5 DEF Next, vars, Write, WriteBlob, EndBlob, ReadPiece, AddRecord, AddBlob, Edit, Abort

LEMMA NextShaped ==
  ASSUME TypeOK, Versioned, AllGiven, DataShaped(file), [Next]_vars
  PROVE  DataShaped(file')
<1>1. CASE file' = {}
  BY <1>1 DEF DataShaped
<1>2. CASE file' = file
  BY <1>2
<1>3. ASSUME NEW w, file' = pwrite(file, w), \A c \in Contents : w.val = Data(c) => w.len = SizeOf[c]
      PROVE  DataShaped(file')
  BY <1>3, ShapedWrite
<1> QED
  BY <1>1, <1>2, <1>3, FileSteps

\* The header that is written: all blobs have been passed.
LEMMA HeaderReady ==
  ASSUME TypeOK, AllGiven, Shelved, Begun, Progress, out.pc = "header"
  PROVE  HeaderOK(entries)
<1>1. entries \in Seq(RecordEntry) /\ Sorted(entries) /\ written = shelves
  BY DEF TypeOK, Begun
<1>2. ASSUME NEW k \in 1..Len(entries), NEW kind \in Kinds
      PROVE  /\ Given(entries[k].blobs[kind]) /\ Landed(file, entries[k].blobs[kind])
             /\ OneSum(entries[k].blobs[kind]) /\ FromHad(entries[k].blobs[kind])
  <2>1. /\ Given(entries[k].blobs[kind]) /\ Landed(file, entries[k].blobs[kind])
        /\ FromHad(entries[k].blobs[kind])
    BY DEF AllGiven, Progress, Past, PassedOK
  <2> QED
    BY <2>1 DEF OneSum, Given, Landed, LandedAs
<1>3. PICK p : Match(entries, shelves, p)
  BY DEF Shelved, MatchedBy
<1> QED
  BY <1>1, <1>2, <1>3 DEF HeaderOK, RecordsOK, AllLanded, AllFromHad

LEMMA HeaderKeeps ==
  ASSUME NEW rs, HeaderOK(rs), file \subseteq file', written' = written,
         \A s \in Sources : had[s] \subseteq had'[s]
  PROVE  HeaderOK(rs)'
<1>2. ASSUME NEW k \in 1..Len(rs), NEW kind \in Kinds
      PROVE  FromHad(rs[k].blobs[kind])'
  <2> DEFINE b == rs[k].blobs[kind]
  <2>1. FromHad(b)
    BY DEF HeaderOK, AllFromHad
  <2>2. rs[k] \in RecordEntry
    BY DEF HeaderOK, RecordsOK
  <2>3. b.file \subseteq Sources
    BY <2>2 DEF RecordEntry, BlobEntry
  <2>4. \A s \in b.file : \E v \in Blend(had'[s]) : b.checksum = {IF b.flags THEN Zlib[v] ELSE v}
    <3> HIDE DEF b
    <3> QED
      BY <2>1, <2>3, HadGrows
  <2> QED
    BY <2>4 DEF FromHad
<1>1. ASSUME NEW k \in 1..Len(rs), NEW kind \in Kinds
      PROVE  Given(rs[k].blobs[kind]) /\ Landed(file', rs[k].blobs[kind])
  BY LandedKeeps DEF HeaderOK, AllLanded
<1> QED
  BY <1>1, <1>2 DEF HeaderOK, AllLanded, AllFromHad

HadKept == \A s \in Sources : had[s] \subseteq had'[s]

LEMMA ShardFileSteps ==
  ASSUME TypeOK, Had, [ShardNext]_allVars
  PROVE  \/ WriteStart
         \/ written' = written /\ HadKept /\ (out.pc = "open" => out'.pc = "open" /\ file' = file)
<1>1. CASE BeginWrite
  BY <1>1 DEF BeginWrite
<1>2. ASSUME NEW h \in HexNames, PutRecord(h)
      PROVE  written' = written /\ HadKept /\ out' = out /\ file' = file
  BY <1>2 DEF PutRecord, AddRecord, HadKept
<1>3. ASSUME NEW kind \in Kinds, NEW s \in Sources, NEW type \in Types, NEW zlib \in BOOLEAN,
             PutBlob(kind, s, type, zlib)
      PROVE  written' = written /\ HadKept /\ out' = out /\ file' = file
  BY <1>3 DEF PutBlob, AddBlob, HadKept
<1>4. ASSUME NEW s \in Sources, EditSource(s)
      PROVE  written' = written /\ HadKept /\ out' = out /\ file' = file
  <2>1. written' = written /\ out' = out /\ file' = file /\ had' = [had EXCEPT ![s] = @ \cup {disk'[s]}]
    BY <1>4 DEF EditSource, Edit
  <2>2. had'[s] = had[s] \cup {disk'[s]} /\ \A t \in Sources : t # s => had'[t] = had[t]
    BY <2>1 DEF Had
  <2> QED
    BY <2>1, <2>2 DEF HadKept
<1>5. ASSUME Quietly
      PROVE  written' = written /\ HadKept /\ (out.pc = "open" => out' = out /\ file' = file)
  <2>1. written' = written /\ HadKept
    BY <1>5 DEF Quietly, HadKept
  <2>2. out.pc = "open" => out' = out /\ file' = file
    BY <1>5 DEF Quietly, WriteBlob, SkipBlob, ReadPiece, StoreBlob, Copying, WriteSize, WriteHeader, Abort
  <2> QED
    BY <2>1, <2>2
<1>6. UNCHANGED allVars => written' = written /\ HadKept /\ out' = out /\ file' = file
  BY DEF allVars, vars, HadKept
<1> QED
  BY <1>1, <1>2, <1>3, <1>4, <1>5, <1>6 DEF ShardNext, Call, SetBlob

\* A header appears when write is over.
LEMMA HeaderLast ==
  ASSUME TypeOK, [Next]_vars, out.pc = "header"
  PROVE  file' = file \/ out'.pc = "open"
  BY DEF Next, vars, Write, AddRecord, AddBlob, Edit, Abort, WriteStart, WriteBlob, SkipBlob,
         ReadPiece, StoreBlob, Copying, WriteSize, WriteHeader, TypeOK

LEMMA NextHeaders ==
  ASSUME TypeOK, Versioned, AllGiven, Layout, Had, Shelved, Begun, Progress, HeadersOK, [ShardNext]_allVars
  PROVE  HeadersOK'
<1>0. [Next]_vars
  BY ShardCases
<1>1. CASE WriteStart
  BY <1>1, WriteStartCases DEF HeadersOK
<1>2. CASE file' = file /\ written' = written /\ HadKept /\ (out.pc = "open" => out'.pc = "open")
  <2>1. ASSUME NEW e \in file, e.val.kind = "header"
        PROVE  out'.pc = "open" /\ HeaderOK(e.val.records)'
    <3>1. out.pc = "open" /\ HeaderOK(e.val.records)
      BY <2>1 DEF HeadersOK
    <3>2. file \subseteq file'
      BY <1>2
    <3> QED
      BY <1>2, <3>1, <3>2, HeaderKeeps DEF HadKept
  <2> QED
    BY <1>2, <2>1 DEF HeadersOK
<1>3. ASSUME out.pc # "open", written' = written, HadKept,
             NEW w, file' = pwrite(file, w),
             w.val.kind = "header" => out.pc = "header" /\ w.val.records = entries
      PROVE  HeadersOK'
  <2>1. file \subseteq file' /\ file' \subseteq file \cup {w}
    BY <1>0, <1>3, NextLayout, WriteKeeps
  <2>2. \A e \in file : e.val.kind # "header"
    BY <1>3 DEF HeadersOK
  <2>3. ASSUME NEW e \in file', e.val.kind = "header"
        PROVE  out'.pc = "open" /\ HeaderOK(e.val.records)'
    <3>1. e = w /\ e \notin file
      BY <2>1, <2>2, <2>3
    <3>2. out.pc = "header" /\ e.val.records = entries
      BY <1>3, <2>3, <3>1
    <3>3. out'.pc = "open"
      BY <1>0, <3>1, <3>2, HeaderLast
    <3>4. HeaderOK(e.val.records)
      BY <3>2, HeaderReady
    <3>5. HeaderOK(e.val.records)'
      BY <1>3, <2>1, <3>4, HeaderKeeps DEF HadKept
    <3> QED
      BY <3>3, <3>5
  <2> QED
    BY <2>3 DEF HeadersOK
<1>4. \/ WriteStart
      \/ written' = written /\ HadKept /\ (out.pc = "open" => out'.pc = "open" /\ file' = file)
  BY ShardFileSteps
<1>5. CASE WriteStart \/ file' = file
  BY <1>1, <1>2, <1>4, <1>5
<1>6. CASE file' = {}
  BY <1>6 DEF HeadersOK
<1> QED
  BY <1>0, <1>1, <1>3, <1>4, <1>5, <1>6, FileSteps

LEMMA HeaderStep ==
  ASSUME TypeOK, Versioned, AllGiven, [Next]_vars, out'.pc = "header"
  PROVE  WriteSize \/ (out.pc = "header" /\ UNCHANGED <<file, entries>>)
<1>1. WriteStart => out'.pc = "blobs"
  BY WriteStartCases
<1>2. EndBlob => out'.pc = "blobs"
  BY WriteBlobCases
<1>6. ReadPiece => out'.pc = "blobs"
  BY DEF ReadPiece, Copying
<1>3. WriteHeader => out'.pc = "open"
  BY DEF WriteHeader, TypeOK
<1>4. ASSUME NEW h \in HexNames, AddRecord(h)
      PROVE  out'.pc = "open"
  BY <1>4 DEF AddRecord
<1>5. ASSUME NEW kind \in Kinds, NEW s \in Sources, NEW type \in Types, NEW zlib \in BOOLEAN,
             AddBlob(kind, s, type, zlib)
      PROVE  out'.pc = "open"
  BY <1>5 DEF AddBlob
<1> QED
  BY <1>1, <1>2, <1>3, <1>4, <1>5, <1>6 DEF Next, vars, Write, WriteBlob, EndBlob, Edit, Abort

LEMMA NextSize ==
  ASSUME TypeOK, Versioned, AllGiven, SizeWritten, [Next]_vars
  PROVE  SizeWritten'
<1> SUFFICES ASSUME out'.pc = "header"
             PROVE  At(0, 8, [kind |-> "size", size |-> HeaderSize(entries')]) \in file'
  BY DEF SizeWritten
<1>1. CASE WriteSize
  <2> DEFINE w == At(0, 8, [kind |-> "size", size |-> HeaderSize(entries)])
  <2>1. file' = pwrite(file, w) /\ entries' = entries
    BY <1>1 DEF WriteSize
  <2>2. w.len = 8
    BY DEF At
  <2>3. w \in file'
    <3> HIDE DEF w
    <3> QED
      BY <2>1, <2>2, WriteKeeps
  <2> QED
    BY <2>1, <2>3
<1>2. CASE out.pc = "header" /\ UNCHANGED <<file, entries>>
  BY <1>2 DEF SizeWritten
<1> QED
  BY <1>1, <1>2, HeaderStep

\* Readers, when they open the file and later.
Readers == \A o \in opened : ReaderOK(o)

LEMMA OpenedHeader ==
  ASSUME HeadersOK, NEW rs \in impl_v1_new(file)
  PROVE  HeaderOK(rs) /\ out.pc = "open"
<1>1. \E e \in file : e.val.kind = "header" /\ rs = e.val.records
  BY DEF impl_v1_new, preads
<1> QED
  BY <1>1 DEF HeadersOK

LEMMA NextReaders ==
  ASSUME Readers, HeadersOK', DataShaped(file'), [ShardNext]_allVars
  PROVE  Readers'
<1>1. CASE UNCHANGED allVars
  BY <1>1 DEF allVars, Readers
<1>2. CASE Open
  <2>1. ASSUME NEW rs \in impl_v1_new(file')
        PROVE  ReaderOK([records |-> rs, seen |-> SeenIn(file', rs)])
    <3>1. \E e \in file' : e.val.kind = "header" /\ rs = e.val.records
      BY DEF impl_v1_new, preads
    <3>2. RecordsOK(rs) /\ AllLanded(file', rs)
      BY <3>1 DEF HeadersOK, HeaderOK
    <3>3. SeenIn(file', rs) = SeenKept(rs)
      BY <3>2, SeenIsKept
    <3> QED
      BY <3>2, <3>3 DEF ReaderOK
  <2>2. \A o \in opened' : o \in opened \/ ReaderOK(o)
    BY <1>2, <2>1 DEF Open
  <2> QED
    BY <2>2 DEF Readers
<1> QED
  BY <1>1, <1>2 DEF ShardNext

----------------------------------------------------------------------------
\* The inductive invariant of the writer, its callers and the readers.
History == Had /\ Shelved /\ Begun /\ Progress
FileInvariant == DataShaped(file) /\ HeadersOK /\ SizeWritten /\ Readers
ShardInvariant == WriterInvariant /\ History /\ FileInvariant

LEMMA ShardStart == ShardInit => ShardInvariant
<1> SUFFICES ASSUME ShardInit PROVE ShardInvariant
  OBVIOUS
<1>1. WriterInvariant
  BY WriterInit DEF ShardInit
<1>2. /\ entries = <<>> /\ file = {} /\ out = [pc |-> "open", i |-> 1, pos |-> 0]
      /\ shelves = <<>> /\ opened = {} /\ latest = FALSE /\ had = [s \in Sources |-> {disk[s]}]
  BY DEF ShardInit, Init
<1>3. Had
  BY <1>1, <1>2 DEF Had, WriterInvariant, Versioned, ReadFrom, ReadBy, Copying
<1>4. Shelved
  <2> DEFINE p == [k \in 1..0 |-> k]
  <2>1. Len(entries) = 0 /\ Len(shelves) = 0 /\ shelves \in Seq(ShelfEntry)
    BY <1>2
  <2>2. p \in Reorders(0)
    BY DEF Reorders
  <2>3. Match(entries, shelves, p)
    BY <2>1, <2>2 DEF Match
  <2> QED
    BY <1>2, <2>1, <2>3 DEF Shelved, MatchedBy
<1>5. Begun /\ Progress
  <2>1. Len(entries) = 0
    BY <1>2
  <2> QED
    BY <1>2, <2>1 DEF Begun, Progress
<1>6. FileInvariant
  BY <1>2 DEF FileInvariant, DataShaped, HeadersOK, SizeWritten, Readers
<1> QED
  BY <1>1, <1>3, <1>4, <1>5, <1>6 DEF ShardInvariant, History

LEMMA ShardStep == ShardInvariant /\ [ShardNext]_allVars => ShardInvariant'
<1> SUFFICES ASSUME ShardInvariant, [ShardNext]_allVars PROVE ShardInvariant'
  OBVIOUS
<1>0. /\ TypeOK /\ Versioned /\ AllGiven /\ Layout /\ Had /\ Shelved /\ Begun /\ Progress
      /\ DataShaped(file) /\ HeadersOK /\ SizeWritten /\ Readers /\ [Next]_vars /\ WriterInvariant
  BY ShardCases DEF ShardInvariant, WriterInvariant, History, FileInvariant
<1>1. WriterInvariant'
  BY <1>0, WriterStep
<1>2. Had' /\ Shelved' /\ Begun' /\ Progress'
  BY <1>0, NextHad, NextShelved, NextBegun, NextProgress
<1>3. DataShaped(file') /\ HeadersOK' /\ SizeWritten'
  BY <1>0, NextShaped, NextHeaders, NextSize
<1>4. Readers'
  BY <1>0, <1>3, NextReaders
<1> QED
  BY <1>1, <1>2, <1>3, <1>4 DEF ShardInvariant, History, FileInvariant

LEMMA ShardAlways == ShardSpec => []ShardInvariant
<1> QED
  BY ShardStart, ShardStep, PTL DEF ShardSpec

\* A reader that opened the file keeps its header while the file is written
\* again: what it loads from then on is what it would have loaded before, or
\* nothing.  The checksum decides: other data at the offset have another one,
\* and data with that checksum are there in full length.
THEOREM OldReaders == ShardSpec => []OldReadersSafe
<1>1. ShardInvariant => OldReadersSafe
  <2> SUFFICES ASSUME ShardInvariant,
                      NEW o \in opened, NEW raw \in RawNames, NEW r \in o.seen[raw], NEW k \in Kinds,
                      NEW b \in r[k]
               PROVE  \E n \in SeenIn(file, o.records)[raw] : \A x \in n[k] : x.contents \subseteq b.contents
    BY DEF OldReadersSafe
  <2>1. ReaderOK(o) /\ DataShaped(file)
    BY DEF ShardInvariant, FileInvariant, Readers
  <2> QED
    BY <2>1, LaterWithin
<1> QED
  BY <1>1, ShardAlways, PTL

----------------------------------------------------------------------------
\* A blob in the header and the slot on the shelf: both are empty, or what a
\* reader finds is the blob that was asked for.
SameBlob(bs, slot) ==
  \/ bs = {} /\ slot = {}
  \/ slot # {} /\ \E b : bs = {b} /\ OfSlot(b, slot)

LEMMA SlotSeen ==
  ASSUME NEW f, NEW b, OneSum(b), Given(b), Landed(f, b), FromHad(b)
  PROVE  SameBlob(blob_new_for_variant(b), Slot(b))
<1>1. CASE b.file = {}
  <2>1. b.offs = 0
    BY <1>1 DEF Given
  <2>2. blob_new_for_variant(b) = {}
    BY <2>1, ReaderBlob
  <2>3. Slot(b) = {}
    BY <1>1 DEF Slot
  <2> QED
    BY <2>2, <2>3 DEF SameBlob
<1>2. CASE b.file # {}
  <2>1. PICK s \in b.file : b.file = {s}
    BY <1>2 DEF Given
  <2>3. b.offs # 0
    BY <1>2 DEF Landed, LandedAs
  <2>4. PICK rb \in blob_new_for_variant(b) : TRUE
    BY <2>3, ReaderBlob
  <2>5. blob_new_for_variant(b) = {rb} /\ rb.content_type = b.content_type
        /\ rb.flags = b.flags /\ b.checksum = {rb.checksum}
    BY ReaderBlob
  <2> DEFINE x == [source |-> s, type |-> b.content_type]
  <2>6. x.type = b.content_type /\ x.source = s
    OBVIOUS
  <2>7. Slot(b) = {x}
    BY <2>1 DEF Slot
  <2> HIDE DEF x
  <2>8. PICK v \in Blend(had[s]) : b.checksum = {IF b.flags THEN Zlib[v] ELSE v}
    BY DEF FromHad
  <2>9. rb.checksum = IF rb.flags THEN Zlib[v] ELSE v
    BY <2>5, <2>8
  <2>10. OfSlot(rb, {x})
    BY <2>5, <2>6, <2>8, <2>9 DEF OfSlot
  <2> QED
    BY <2>5, <2>7, <2>10 DEF SameBlob
<1> QED
  BY <1>1, <1>2

\* The number of blobs on a shelf.
LEMMA ShelfCount ==
  ASSUME NEW slots
  PROVE  Cardinality({k \in Kinds : slots[k] # {}})
           = (IF slots[DATA] = {} THEN 0 ELSE 1) + (IF slots[METADATA] = {} THEN 0 ELSE 1)
<1> DEFINE S == {k \in Kinds : slots[k] # {}}
<1> SUFFICES Cardinality(S) = (IF slots[DATA] = {} THEN 0 ELSE 1) + (IF slots[METADATA] = {} THEN 0 ELSE 1)
  OBVIOUS
<1>1. DATA # METADATA /\ Kinds = {METADATA, DATA}
  BY KindsAssumption DEF Kinds
<1>2. Cardinality({}) = 0 /\ Cardinality({DATA}) = 1 /\ Cardinality({METADATA}) = 1
  BY FS_EmptySet, FS_Singleton
<1>3. Cardinality({DATA, METADATA}) = 2
  <2>1. IsFiniteSet({DATA}) /\ METADATA \notin {DATA} /\ {DATA} \cup {METADATA} = {DATA, METADATA}
    BY <1>1, FS_Singleton
  <2>2. Cardinality({DATA} \cup {METADATA}) = Cardinality({DATA}) + 1
    BY <2>1, FS_AddElement
  <2> QED
    BY <1>2, <2>1, <2>2
<1>4. CASE slots[DATA] = {} /\ slots[METADATA] = {}
  <2>1. S = {}
    BY <1>1, <1>4
  <2> HIDE DEF S
  <2> QED
    BY <1>2, <1>4, <2>1
<1>5. CASE slots[DATA] # {} /\ slots[METADATA] = {}
  <2>1. S = {DATA}
    BY <1>1, <1>5
  <2> HIDE DEF S
  <2> QED
    BY <1>2, <1>5, <2>1
<1>6. CASE slots[DATA] = {} /\ slots[METADATA] # {}
  <2>1. S = {METADATA}
    BY <1>1, <1>6
  <2> HIDE DEF S
  <2> QED
    BY <1>2, <1>6, <2>1
<1>7. CASE slots[DATA] # {} /\ slots[METADATA] # {}
  <2>1. S = {DATA, METADATA}
    BY <1>1, <1>7
  <2> HIDE DEF S
  <2> QED
    BY <1>3, <1>7, <2>1
<1> QED
  BY <1>4, <1>5, <1>6, <1>7

\* list_blobs yields the blobs of a record as the shelf has them.
LEMMA ListedAsAsked ==
  ASSUME NEW r, NEW slots, SameBlob(r.data, slots[DATA]), SameBlob(r.metadata, slots[METADATA])
  PROVE  ListOf(list_blobs(r), slots)
<1> DEFINE n == Cardinality(r.data) + Cardinality(r.metadata)
           blob(k) == IF k = 1 /\ r.data # {} THEN CHOOSE b \in r.data : TRUE
                      ELSE CHOOSE b \in r.metadata : TRUE
           L == [k \in 1..n |-> blob(k)]
<1>1. list_blobs(r) = L
  BY DEF list_blobs
<1>2. \A S, x : S = {x} => Cardinality(S) = 1 /\ (CHOOSE y \in S : TRUE) = x
  BY FS_Singleton
<1>3. Cardinality({}) = 0
  BY FS_EmptySet
<1>4. ASSUME n \in Nat
      PROVE  Len(list_blobs(r)) = n /\ \A k \in 1..n : list_blobs(r)[k] = blob(k)
  <2> HIDE DEF n
  <2> QED
    BY <1>1, <1>4
<1>5. Cardinality({k \in Kinds : slots[k] # {}})
        = (IF slots[DATA] = {} THEN 0 ELSE 1) + (IF slots[METADATA] = {} THEN 0 ELSE 1)
  BY ShelfCount
<1>6. CASE r.data = {} /\ slots[DATA] = {} /\ r.metadata = {} /\ slots[METADATA] = {}
  <2>1. n = 0
    BY <1>3, <1>6
  <2>2. Len(list_blobs(r)) = 0
    BY <1>4, <2>1
  <2> QED
    BY <1>5, <1>6, <2>2 DEF ListOf
<1>7. ASSUME r.data = {}, slots[DATA] = {},
             NEW b, r.metadata = {b}, slots[METADATA] # {}, OfSlot(b, slots[METADATA])
      PROVE  ListOf(list_blobs(r), slots)
  <2>1. n = 1 /\ blob(1) = b
    BY <1>2, <1>3, <1>7
  <2>2. Len(list_blobs(r)) = 1 /\ list_blobs(r)[1] = b
    <3> HIDE DEF n, blob
    <3> QED
      BY <1>4, <2>1
  <2> QED
    BY <1>5, <1>7, <2>2 DEF ListOf
<1>8. ASSUME r.metadata = {}, slots[METADATA] = {},
             NEW b, r.data = {b}, slots[DATA] # {}, OfSlot(b, slots[DATA])
      PROVE  ListOf(list_blobs(r), slots)
  <2>1. n = 1 /\ blob(1) = b
    BY <1>2, <1>3, <1>8
  <2>2. Len(list_blobs(r)) = 1 /\ list_blobs(r)[1] = b
    <3> HIDE DEF n, blob
    <3> QED
      BY <1>4, <2>1
  <2> QED
    BY <1>5, <1>8, <2>2 DEF ListOf
<1>9. ASSUME NEW b, r.data = {b}, slots[DATA] # {}, OfSlot(b, slots[DATA]),
             NEW c, r.metadata = {c}, slots[METADATA] # {}, OfSlot(c, slots[METADATA])
      PROVE  ListOf(list_blobs(r), slots)
  <2>1. n = 2 /\ blob(1) = b /\ blob(2) = c
    <3>1. Cardinality(r.data) = 1 /\ (CHOOSE z \in r.data : TRUE) = b /\ r.data # {}
      BY <1>2, <1>9
    <3>2. Cardinality(r.metadata) = 1 /\ (CHOOSE z \in r.metadata : TRUE) = c
      BY <1>2, <1>9
    <3> QED
      BY <3>1, <3>2
  <2>2. Len(list_blobs(r)) = 2 /\ list_blobs(r)[1] = b /\ list_blobs(r)[2] = c
    <3> HIDE DEF n, blob
    <3> QED
      BY <1>4, <2>1
  <2> QED
    BY <1>5, <1>9, <2>2 DEF ListOf
<1> QED
  BY <1>6, <1>7, <1>8, <1>9 DEF SameBlob

\* The records of a header, as they are listed.
LEMMA ListRecords ==
  ASSUME NEW rs \in Seq(RecordEntry)
  PROVE  /\ Len(list_records(rs)) = Len(rs)
         /\ \A k \in 1..Len(rs) : list_records(rs)[k] = record_new_for_variant(rs[k])
<1> DEFINE n == Len(rs)
<1>1. n \in Nat
  OBVIOUS
<1>2. list_records(rs) = [k \in 1..n |-> record_new_for_variant(rs[k])]
  BY DEF list_records
<1> HIDE DEF n
<1>3. Len(list_records(rs)) = n /\ \A k \in 1..n : list_records(rs)[k] = record_new_for_variant(rs[k])
  BY <1>1, <1>2
<1> QED
  BY <1>3 DEF n

\* list_records yields every record once, and list_blobs of each the blobs
\* that were set when write was called, once, the data first, each with the
\* type and the bytes of its own source file: of a moment of the write, or in
\* pieces of several.
THEOREM ListsAreComplete == ShardSpec => []ListsComplete
<1>1. ASSUME ShardInvariant, NEW rs \in impl_v1_new(file),
             NEW p, Match(rs, written, p), NEW k \in 1..Len(rs), HeaderOK(rs),
             NEW r, r = record_new_for_variant(rs[k])
      PROVE  /\ r.raw_name = written[p[k]].raw_name
             /\ ListOf(list_blobs(r), written[p[k]].slots)
  <2>1. written[p[k]] = Shelf(rs[k])
    BY <1>1 DEF Match
  <2>2. r.raw_name = rs[k].raw_name /\ r.data = blob_new_for_variant(rs[k].blobs[DATA])
        /\ r.metadata = blob_new_for_variant(rs[k].blobs[METADATA])
    BY <1>1 DEF record_new_for_variant
  <2>3. \A kind \in Kinds : /\ OneSum(rs[k].blobs[kind]) /\ Given(rs[k].blobs[kind])
                            /\ Landed(file, rs[k].blobs[kind]) /\ FromHad(rs[k].blobs[kind])
    BY <1>1 DEF HeaderOK, RecordsOK, AllLanded, AllFromHad
  <2>4. \A kind \in Kinds : SameBlob(blob_new_for_variant(rs[k].blobs[kind]), Slot(rs[k].blobs[kind]))
    BY <2>3, SlotSeen
  <2>5. \A kind \in Kinds : written[p[k]].slots[kind] = Slot(rs[k].blobs[kind])
    BY <2>1 DEF Shelf
  <2>6. written[p[k]].raw_name = rs[k].raw_name
    BY <2>1 DEF Shelf
  <2>7. SameBlob(r.data, written[p[k]].slots[DATA]) /\ SameBlob(r.metadata, written[p[k]].slots[METADATA])
    BY <2>2, <2>4, <2>5 DEF Kinds
  <2> QED
    BY <2>2, <2>6, <2>7, ListedAsAsked
<1>2. ShardInvariant => ListsComplete
  <2> SUFFICES ASSUME ShardInvariant, NEW rs \in impl_v1_new(file)
               PROVE  LET listed == list_records(rs)
                      IN  /\ Len(listed) = Len(written)
                          /\ \E p \in Reorders(Len(written)) :
                               \A k \in 1..Len(written) :
                                 /\ listed[k].raw_name = written[p[k]].raw_name
                                 /\ ListOf(list_blobs(listed[k]), written[p[k]].slots)
    BY DEF ListsComplete
  <2> DEFINE listed == list_records(rs)
  <2>1. HeaderOK(rs)
    BY OpenedHeader DEF ShardInvariant, FileInvariant
  <2>2. PICK p : Match(rs, written, p)
    BY <2>1 DEF HeaderOK
  <2>3. Len(written) = Len(rs) /\ p \in Reorders(Len(rs)) /\ Len(listed) = Len(rs)
    BY <2>1, <2>2, ListRecords DEF Match, HeaderOK, RecordsOK
  <2>4. \A k \in 1..Len(rs) : listed[k] = record_new_for_variant(rs[k])
    BY <2>1, ListRecords DEF HeaderOK, RecordsOK
  <2> HIDE DEF listed
  <2>5. ASSUME NEW k \in 1..Len(rs)
        PROVE  /\ listed[k].raw_name = written[p[k]].raw_name
               /\ ListOf(list_blobs(listed[k]), written[p[k]].slots)
    BY <1>1, <2>1, <2>2, <2>4
  <2>6. Len(listed) = Len(written) /\ \E q \in Reorders(Len(written)) :
          \A k \in 1..Len(written) : /\ listed[k].raw_name = written[q[k]].raw_name
                                     /\ ListOf(list_blobs(listed[k]), written[q[k]].slots)
    BY <2>3, <2>5
  <2> QED
    BY <2>6 DEF listed
<1> QED
  BY <1>2, ShardAlways, PTL

----------------------------------------------------------------------------
\* No contents are so long that the int they are counted in goes negative.
SmallFiles == \A c \in Contents : SizeOf[c] < INT_MOD \div 2

LEMMA LandedLoads ==
  ASSUME SmallFiles, NEW f, DataShaped(f), NEW b, OneSum(b), Given(b), Landed(f, b),
         NEW rb \in blob_new_for_variant(b)
  PROVE  load_blob(f, rb) = Unpacked(rb) /\ load_blob(f, rb) # {}
<1>1. /\ b.offs # 0 /\ rb.checksum \in Contents /\ b.checksum = {rb.checksum}
      /\ rb.size = b.size /\ rb.flags = b.flags
  BY ReaderBlob
<1>2. PICK c \in Contents : LandedAs(f, b, c)
  BY <1>1 DEF Landed, Given
<1>3. c = rb.checksum
  BY <1>1, <1>2 DEF LandedAs
<1>4. rb.size = SizeOf[rb.checksum]
  <2>1. SizeOf[c] \in Nat /\ SizeOf[c] < INT_MOD \div 2
    BY ContentsAssumption DEF SmallFiles
  <2>2. total_size(SizeOf[c]) = SizeOf[c]
    BY <2>1, TotalSize
  <2> QED
    BY <1>1, <1>2, <1>3, <2>2 DEF LandedAs
<1>5. load_blob(f, rb) = Unpacked(rb)
  BY <1>4, LandedReads DEF Kept
<1>6. Unpacked(rb) # {}
  <2>1. CASE ~rb.flags
    BY <2>1 DEF Unpacked
  <2>2. CASE rb.flags
    <3>1. PICK x \in Plain : Zlib[x] = rb.checksum
      BY <1>1, <1>2, <1>3, <2>2 DEF LandedAs
    <3>2. [content |-> x, whole |-> rb.size <= GIO_BUFFER /\ SizeOf[x] <= rb.uncompressed_size] \in Unpacked(rb)
      BY <2>2, <3>1 DEF Unpacked
    <3> QED
      BY <3>2
  <2> QED
    BY <2>1, <2>2
<1> QED
  BY <1>5, <1>6

\* Every blob of every record that can be read loads, if its size, counted in
\* an int, is the size of its file.
THEOREM BlobsAlwaysLoad == ASSUME SmallFiles PROVE ShardSpec => []BlobsLoad
<1>1. ShardInvariant => BlobsLoad
  <2> SUFFICES ASSUME ShardInvariant, NEW rs \in impl_v1_new(file), NEW k \in 1..Len(rs)
               PROVE  LET r == list_records(rs)[k]
                      IN  \A b \in r.metadata \cup r.data : load_blob(file, b) # {}
    BY DEF BlobsLoad
  <2>1. HeaderOK(rs) /\ DataShaped(file)
    BY OpenedHeader DEF ShardInvariant, FileInvariant
  <2>2. \A kind \in Kinds : OneSum(rs[k].blobs[kind]) /\ Given(rs[k].blobs[kind]) /\ Landed(file, rs[k].blobs[kind])
    BY <2>1 DEF HeaderOK, RecordsOK, AllLanded
  <2>3. \A kind \in Kinds : \A rb \in blob_new_for_variant(rs[k].blobs[kind]) : load_blob(file, rb) # {}
    BY <2>1, <2>2, LandedLoads
  <2>4. list_records(rs)[k] = record_new_for_variant(rs[k])
    BY <2>1, ListRecords DEF HeaderOK, RecordsOK
  <2> DEFINE r == list_records(rs)[k]
  <2>5. r.metadata = blob_new_for_variant(rs[k].blobs[METADATA]) /\ r.data = blob_new_for_variant(rs[k].blobs[DATA])
    BY <2>4 DEF record_new_for_variant
  <2> QED
    BY <2>3, <2>5 DEF Kinds
<1> QED
  BY <1>1, ShardAlways, PTL

----------------------------------------------------------------------------
\* What may be read of a file that may be compressed has one size, and fits
\* in the buffer of a converter stream once it is.
WholeLoads ==
  \A s \in Sources : Blend(Versions[s]) \subseteq Plain =>
    \A c, d \in Blend(Versions[s]) : SizeOf[c] = SizeOf[d] /\ SizeOf[Zlib[c]] <= GIO_BUFFER

LEMMA VersionsBlend ==
  ASSUME NEW s \in Sources
  PROVE  Versions[s] \subseteq Blend(Versions[s])
<1>1. ASSUME NEW v \in Versions[s]
      PROVE  v \in Blend(Versions[s])
  <2>1. v \in Contents
    BY SourcesAssumption
  <2>2. Len(Pieces[v]) \in Nat
    <3>1. Pieces[v] \in Seq(Chunks)
      BY <2>1, PiecesAssumption
    <3> QED
      BY <3>1
  <2>3. PiecesOf(Versions[s], Pieces[v]) /\ Len(Pieces[v]) <= Len(Pieces[v])
    BY <2>2 DEF PiecesOf
  <2> QED
    BY <2>1, <2>3 DEF Blend
<1> QED
  BY <1>1

LEMMA SameBlend == \A V : Archive!Blend(V) = Blend(V)
  BY DEF Archive!Blend, Blend, PiecesOf

LEMMA WholeBlob ==
  ASSUME SmallFiles, WholeLoads, NEW f, DataShaped(f), NEW b, OneSum(b), Given(b), Landed(f, b),
         NEW s \in Sources, s \in b.file, Had, NEW v \in Blend(had[s]), b.checksum = {IF b.flags THEN Zlib[v] ELSE v},
         NEW rb \in blob_new_for_variant(b)
  PROVE  load_blob(f, rb) = {[content |-> v, whole |-> TRUE]}
<1>1. /\ b.offs # 0 /\ rb.checksum \in Contents /\ b.checksum = {rb.checksum}
      /\ rb.flags = b.flags /\ rb.size = b.size /\ rb.uncompressed_size = b.uncompressed_size
  BY ReaderBlob
<1>2. rb.checksum = IF b.flags THEN Zlib[v] ELSE v
  BY <1>1
<1>3. load_blob(f, rb) = Unpacked(rb)
  BY LandedLoads
<1>4. CASE ~b.flags
  BY <1>1, <1>2, <1>3, <1>4 DEF Unpacked
<1>5. CASE b.flags
  <2>1. Blend(Versions[s]) \subseteq Plain /\ v \in Blend(Versions[s]) /\ v \in Plain
    BY <1>5, BlendGrows DEF Given, Had
  <2>2. PICK d \in Blend(Versions[s]) : b.uncompressed_size = SizeOf[d]
    BY VersionsBlend DEF Given
  <2>3. {x \in Plain : Zlib[x] = rb.checksum} = {v}
    BY <1>2, <1>5, <2>1, ContentsAssumption
  <2>4. rb.size = SizeOf[Zlib[v]]
    <3>1. PICK c \in Contents : LandedAs(f, b, c)
      BY DEF Landed
    <3>2. c = Zlib[v]
      BY <1>1, <1>2, <1>5, <3>1 DEF LandedAs
    <3>3. total_size(SizeOf[c]) = SizeOf[c]
      <4>1. SizeOf[c] \in Nat /\ SizeOf[c] < INT_MOD \div 2
        BY ContentsAssumption DEF SmallFiles
      <4> QED
        BY <4>1, TotalSize
    <3> QED
      BY <1>1, <3>1, <3>2, <3>3 DEF LandedAs
  <2>5. SizeOf[v] = SizeOf[d] /\ SizeOf[Zlib[v]] <= GIO_BUFFER
    BY <2>1, <2>2 DEF WholeLoads
  <2>6. SizeOf[v] \in Nat /\ SizeOf[v] <= rb.uncompressed_size /\ rb.size <= GIO_BUFFER
    BY <1>1, <2>1, <2>2, <2>4, <2>5, ContentsAssumption
  <2>7. Unpacked(rb) = {[content |-> c, whole |-> rb.size <= GIO_BUFFER /\ SizeOf[c] <= rb.uncompressed_size] : c \in {v}}
    BY <1>1, <1>5, <2>3 DEF Unpacked
  <2>8. Unpacked(rb) = {[content |-> v, whole |-> (rb.size <= GIO_BUFFER /\ SizeOf[v] <= rb.uncompressed_size)]}
    BY <2>7
  <2>9. (rb.size <= GIO_BUFFER /\ SizeOf[v] <= rb.uncompressed_size) = TRUE
    BY <2>6
  <2> QED
    BY <1>3, <2>8, <2>9
<1> QED
  BY <1>4, <1>5

\* What a reader gets of a blob is what its slot may show.
Shows(f, b) == Archive!MayShow(Slot(b), SeenBlob(f, blob_new_for_variant(b)))

LEMMA BlobShows ==
  ASSUME SmallFiles, WholeLoads, Had, NEW f, DataShaped(f),
         NEW b \in BlobEntry, OneSum(b), Given(b), Landed(f, b), FromHad(b)
  PROVE  Shows(f, b)
<1>1. CASE b.file = {}
  <2>1. b.offs = 0
    BY <1>1 DEF Given
  <2>2. blob_new_for_variant(b) = {}
    BY <2>1, ReaderBlob
  <2>3. Slot(b) = {}
    BY <1>1 DEF Slot
  <2> QED
    BY <2>2, <2>3 DEF Shows, SeenBlob, Archive!MayShow
<1>2. CASE b.file # {}
  <2>1. PICK s \in b.file : b.file = {s}
    BY <1>2 DEF Given
  <2>2. s \in Sources
    BY DEF BlobEntry
  <2>3. PICK w \in Blend(had[s]) : b.checksum = {IF b.flags THEN Zlib[w] ELSE w}
    BY DEF FromHad
  <2>6. b.offs # 0
    BY <1>2 DEF Landed, LandedAs
  <2>7. PICK rb \in blob_new_for_variant(b) : TRUE
    BY <2>6, ReaderBlob
  <2>8. blob_new_for_variant(b) = {rb} /\ rb.content_type = b.content_type
    BY ReaderBlob
  <2>9. load_blob(f, rb) = {[content |-> w, whole |-> TRUE]}
    BY <2>2, <2>3, WholeBlob
  <2> DEFINE x == [source |-> s, type |-> b.content_type]
             seen == {[content_type |-> x.type, contents |-> {[content |-> w, whole |-> TRUE]}]}
  <2>10. SeenBlob(f, blob_new_for_variant(b)) = seen
    BY <2>8, <2>9 DEF SeenBlob
  <2>11. Slot(b) = {x}
    BY <2>1 DEF Slot
  <2>12. w \in Archive!Blend(had[x.source])
    BY <2>3, SameBlend
  <2>13. Archive!MayShow({x}, seen)
    <3> HIDE DEF x
    <3> QED
      BY <2>12 DEF Archive!MayShow
  <2> HIDE DEF x, seen
  <2> QED
    BY <2>10, <2>11, <2>13 DEF Shows
<1> QED
  BY <1>1, <1>2
----------------------------------------------------------------------------
\* Sealing: what a reader finds in a complete file is a sealed archive.

\* The search for raw finds the k-th record.
Hit(rs, raw, k) ==
  /\ k \in 1..Len(rs) /\ rs[k].raw_name = raw
  /\ find_record_by_raw_name(rs, raw) = {record_new_for_variant(rs[k])}

LEMMA HitOrNone ==
  ASSUME NEW rs, RecordsOK(rs), NEW raw \in Nat
  PROVE  \/ \E k : Hit(rs, raw, k)
         \/ /\ find_record_by_raw_name(rs, raw) = {}
            /\ \A k \in 1..Len(rs) : rs[k].raw_name # raw
<1>1. PICK K : Answer(rs, raw, K)
  BY FindAnswers DEF RecordsOK
<1>2. CASE K = {}
  BY <1>1, <1>2 DEF Answer
<1>3. ASSUME NEW k \in K
      PROVE  Hit(rs, raw, k)
  <2>1. K = {k}
    BY <1>1 DEF Answer
  <2>2. {record_new_for_variant(rs[j]) : j \in {k}} = {record_new_for_variant(rs[k])}
    OBVIOUS
  <2> QED
    BY <1>1, <2>1, <2>2 DEF Answer, Hit
<1> QED
  BY <1>2, <1>3

\* What a reader finds under a name.
Under(f, r) == {[k \in Kinds |-> SeenBlob(f, blob_new_for_variant(r.blobs[k]))]}

LEMMA SeenAt ==
  ASSUME NEW f, NEW rs, NEW raw \in RawNames
  PROVE  /\ find_record_by_raw_name(rs, raw) = {} => SeenIn(f, rs)[raw] = {}
         /\ \A k : Hit(rs, raw, k) => SeenIn(f, rs)[raw] = Under(f, rs[k])
<1>1. SeenIn(f, rs)[raw] =
        {[k \in Kinds |-> SeenBlob(f, BlobsOf(r, k))] : r \in find_record_by_raw_name(rs, raw)}
  BY DEF SeenIn, BlobsOf
<1>2. ASSUME NEW k, Hit(rs, raw, k)
      PROVE  SeenIn(f, rs)[raw] = Under(f, rs[k])
  <2> DEFINE r == record_new_for_variant(rs[k])
  <2>1. SeenIn(f, rs)[raw] = {[kk \in Kinds |-> SeenBlob(f, BlobsOf(q, kk))] : q \in {r}}
    BY <1>1, <1>2 DEF Hit
  <2>2. \A kk \in Kinds : BlobsOf(r, kk) = blob_new_for_variant(rs[k].blobs[kk])
    BY ReaderRecord
  <2> HIDE DEF r
  <2>3. SeenIn(f, rs)[raw] = {[kk \in Kinds |-> SeenBlob(f, BlobsOf(r, kk))]}
    BY <2>1
  <2> QED
    BY <2>2, <2>3 DEF Under
<1> QED
  BY <1>1, <1>2

NamesOf(sh) == {s.raw_name : s \in {sh[k] : k \in 1..Len(sh)}}

\* Every blob of every record can be read.
AllRead(f, rs) == \A k \in 1..Len(rs), kind \in Kinds : Shows(f, rs[k].blobs[kind])

PlaceOf(p, n, j) == CHOOSE k \in 1..n : p[k] = j

LEMMA MatchPlaces ==
  ASSUME NEW rs, NEW sh, NEW p, Match(rs, sh, p), Len(rs) \in Nat
  PROVE  /\ \A j \in 1..Len(rs) : PlaceOf(p, Len(rs), j) \in 1..Len(rs) /\ p[PlaceOf(p, Len(rs), j)] = j
         /\ \A k \in 1..Len(rs) : p[k] \in 1..Len(rs) /\ PlaceOf(p, Len(rs), p[k]) = k
<1> DEFINE n == Len(rs)
<1>1. p \in Reorders(n) /\ n \in Nat
  BY DEF Match
<1>2. p \in [1..n -> 1..n] /\ \A i, j \in 1..n : i # j => p[i] # p[j]
  BY <1>1, ReordersType
<1> HIDE DEF n
<1>3. ASSUME NEW j \in 1..n
      PROVE  PlaceOf(p, n, j) \in 1..n /\ p[PlaceOf(p, n, j)] = j
  <2>1. \E k \in 1..n : p[k] = j
    BY <1>1, <1>3, Onto
  <2> QED
    BY <2>1 DEF PlaceOf
<1>4. ASSUME NEW k \in 1..n
      PROVE  p[k] \in 1..n /\ PlaceOf(p, n, p[k]) = k
  <2>1. p[k] \in 1..n
    BY <1>2
  <2>2. PlaceOf(p, n, p[k]) \in 1..n /\ p[PlaceOf(p, n, p[k])] = p[k]
    BY <1>3, <2>1
  <2> QED
    BY <1>2, <2>1, <2>2
<1> QED
  BY <1>3, <1>4 DEF n

\* The record a search finds reads as its shelf may.
LEMMA UnderReads ==
  ASSUME NEW f, NEW rs, NEW k \in 1..Len(rs), AllRead(f, rs), NEW shelf, shelf = Shelf(rs[k])
  PROVE  Archive!MayRead(shelf, Under(f, rs[k]))
<1> DEFINE record == [kk \in Kinds |-> SeenBlob(f, blob_new_for_variant(rs[k].blobs[kk]))]
<1>1. Under(f, rs[k]) = {record} /\ record = [kk \in Kinds |-> record[kk]]
  BY DEF Under
<1>2. ASSUME NEW kind \in Kinds
      PROVE  Archive!MayShow(shelf.slots[kind], record[kind])
  <2>1. Shows(f, rs[k].blobs[kind])
    BY DEF AllRead
  <2>2. shelf.slots[kind] = Slot(rs[k].blobs[kind])
    BY DEF Shelf
  <2>3. record[kind] = SeenBlob(f, blob_new_for_variant(rs[k].blobs[kind]))
    OBVIOUS
  <2> HIDE DEF record
  <2> QED
    BY <2>1, <2>2, <2>3 DEF Shows
<1> HIDE DEF record
<1> QED
  BY <1>1, <1>2 DEF Archive!MayRead

LEMMA ShelfName == \A e : Shelf(e).raw_name = e.raw_name
  BY DEF Shelf

\* The shelves have the names of the records.
LEMMA MatchNames ==
  ASSUME NEW rs, NEW sh, NEW p, Match(rs, sh, p), Len(rs) \in Nat
  PROVE  NamesOf(sh) = {rs[k].raw_name : k \in 1..Len(rs)}
<1> DEFINE n == Len(rs)
<1>1. \A k \in 1..n : sh[p[k]].raw_name = rs[k].raw_name
  BY ShelfName DEF Match
<1>2. Len(sh) = n /\ n \in Nat
  BY DEF Match
<1>3. \A j \in 1..n : PlaceOf(p, n, j) \in 1..n /\ p[PlaceOf(p, n, j)] = j
  BY MatchPlaces
<1>4. \A k \in 1..n : p[k] \in 1..n
  BY MatchPlaces
<1> HIDE DEF n
<1>5. NamesOf(sh) = {sh[j].raw_name : j \in 1..n}
  BY <1>2 DEF NamesOf
<1>6. \A j \in 1..n : sh[j].raw_name = rs[PlaceOf(p, n, j)].raw_name
  BY <1>1, <1>3
<1>7. \A x : x \in NamesOf(sh) => \E k \in 1..n : x = rs[k].raw_name
  BY <1>3, <1>5, <1>6
<1>8. \A k \in 1..n : rs[k].raw_name \in NamesOf(sh)
  <2> TAKE k \in 1..n
  <2>1. rs[k].raw_name = sh[p[k]].raw_name /\ p[k] \in 1..n
    BY <1>1, <1>4
  <2> QED
    BY <1>5, <2>1
<1>9. NamesOf(sh) = {rs[k].raw_name : k \in 1..n}
  BY <1>7, <1>8
<1> QED
  BY <1>9 DEF n

\* What a search for raw yields, if the names have the places pick.
Reads(sh, pick, raw, seen) ==
  IF raw \in DOMAIN pick THEN Archive!MayRead(sh[pick[raw]], seen) ELSE seen = {}

LEMMA SealExists ==
  ASSUME NEW f, NEW rs, RecordsOK(rs), NEW sh, NEW p, Match(rs, sh, p), AllRead(f, rs)
  PROVE  \E pick \in [NamesOf(sh) -> 1..Len(sh)] :
           /\ \A raw \in DOMAIN pick : sh[pick[raw]].raw_name = raw
           /\ \A raw \in RawNames : Reads(sh, pick, raw, SeenIn(f, rs)[raw])
<1> DEFINE n == Len(rs)
           hit(raw) == CHOOSE k : Hit(rs, raw, k)
           pick == [raw \in NamesOf(sh) |-> p[hit(raw)]]
<1>1. n \in Nat /\ Len(sh) = n /\ \A k \in 1..n : rs[k].raw_name \in Nat
  <2>1. rs \in Seq(RecordEntry) /\ Len(sh) = n
    BY DEF RecordsOK, Match
  <2>2. \A k \in 1..n : rs[k] \in RecordEntry
    BY <2>1
  <2> QED
    BY <2>1, <2>2 DEF RecordEntry
<1>2. NamesOf(sh) = {rs[k].raw_name : k \in 1..n}
  BY <1>1, MatchNames
<1>3. ASSUME NEW raw \in NamesOf(sh)
      PROVE  Hit(rs, raw, hit(raw))
  <2>1. raw \in Nat /\ \E k \in 1..n : rs[k].raw_name = raw
    <3> HIDE DEF n, pick, hit
    <3> QED
      BY <1>1, <1>2
  <2>2. \E k : Hit(rs, raw, k)
    BY <2>1, HitOrNone
  <2> HIDE DEF pick
  <2> QED
    BY <2>2, Zenon
<1> HIDE DEF hit
<1>4. \A raw \in NamesOf(sh) : hit(raw) \in 1..n /\ rs[hit(raw)].raw_name = raw
  BY <1>3 DEF Hit
<1>5. \A k \in 1..n : p[k] \in 1..n
  BY <1>1, MatchPlaces
<1>9. pick \in [NamesOf(sh) -> 1..n] /\ \A raw \in NamesOf(sh) : pick[raw] = p[hit(raw)]
  BY <1>4, <1>5
<1>10. \A k \in 1..n : sh[p[k]] = Shelf(rs[k])
  BY DEF Match
<1> HIDE DEF pick, n
<1>11. ASSUME NEW raw \in NamesOf(sh)
       PROVE  sh[pick[raw]].raw_name = raw
  <2>1. sh[pick[raw]] = Shelf(rs[hit(raw)]) /\ rs[hit(raw)].raw_name = raw
    BY <1>4, <1>9, <1>10
  <2> QED
    BY <2>1, ShelfName
<1>12. DOMAIN pick = NamesOf(sh)
  BY <1>9
<1>13. ASSUME NEW raw \in RawNames, raw \in NamesOf(sh)
       PROVE  Reads(sh, pick, raw, SeenIn(f, rs)[raw])
  <2> DEFINE k == hit(raw)
  <2>1. Hit(rs, raw, k) /\ k \in 1..n /\ sh[pick[raw]] = Shelf(rs[k])
    BY <1>3, <1>4, <1>9, <1>10, <1>13
  <2> HIDE DEF k
  <2>2. SeenIn(f, rs)[raw] = Under(f, rs[k])
    BY <2>1, SeenAt
  <2>3. Archive!MayRead(sh[pick[raw]], Under(f, rs[k]))
    BY <2>1, UnderReads DEF n
  <2> QED
    BY <1>12, <1>13, <2>2, <2>3 DEF Reads
<1>14. ASSUME NEW raw \in RawNames, raw \notin NamesOf(sh)
       PROVE  Reads(sh, pick, raw, SeenIn(f, rs)[raw])
  <2>1. ~\E k : Hit(rs, raw, k)
    BY <1>2, <1>14 DEF Hit, n
  <2>2. find_record_by_raw_name(rs, raw) = {}
    BY <2>1, HitOrNone, RawNamesType
  <2>3. SeenIn(f, rs)[raw] = {}
    BY <2>2, SeenAt
  <2> QED
    BY <1>12, <1>14, <2>3 DEF Reads
<1> QED
  BY <1>1, <1>9, <1>11, <1>12, <1>13, <1>14
----------------------------------------------------------------------------
\* The refinement.
NoHeaderIn(f) == \A e \in f : e.val.kind # "header"

LEMMA NothingSeen ==
  ASSUME NEW f, NoHeaderIn(f)
  PROVE  {SeenIn(f, records) : records \in impl_v1_new(f)} = {}
<1>1. impl_v1_new(f) = {}
  BY DEF NoHeaderIn, impl_v1_new, preads
<1> QED
  BY <1>1

\* A file with a header at its place, and its size in front of it, and no
\* other header.
LEMMA OneHeader ==
  ASSUME NEW f, NEW n, NEW rs, NEW w, w = At(8, n, [kind |-> "header", records |-> rs]), w \in f,
         At(0, 8, [kind |-> "size", size |-> n]) \in f,
         \A e \in f : e.val.kind = "header" => e = w
  PROVE  impl_v1_new(f) = {rs}
<1> DEFINE h == [kind |-> "header", records |-> rs]
           z == [kind |-> "size", size |-> n]
           u == At(0, 8, z)
<1>1. w.off = 8 /\ w.val = h /\ h.kind = "header" /\ h.records = rs /\ w = At(8, n, h)
  BY DEF At
<1>2. u.off = 0 /\ u.val = z /\ z.kind = "size" /\ z.size = n /\ u \in f
  BY DEF At
<1> HIDE DEF h, z, u
<1>3. preads(f, 8, "header") = {h}
  BY <1>1 DEF preads
<1>4. z \in preads(f, 0, "size")
  BY <1>2 DEF preads
<1>5. {v \in {h} : \E m \in preads(f, 0, "size") : At(8, m.size, v) \in f} = {h}
  <2>1. At(8, z.size, h) \in f
    BY <1>1, <1>2
  <2> QED
    BY <1>4, <2>1
<1>6. impl_v1_new(f) = {v.records : v \in {h}}
  BY <1>3, <1>5 DEF impl_v1_new
<1> QED
  BY <1>1, <1>6

\* The header is written.
HeaderWritten ==
  /\ out.pc = "header"
  /\ file' = pwrite(file, At(8, HeaderSize(entries), [kind |-> "header", records |-> entries]))
  /\ UNCHANGED <<disk, entries, shelves, had>>

LEMMA HeaderWrites ==
  ASSUME ShardInvariant, HeaderWritten, [Next]_vars
  PROVE  /\ file \subseteq file'
         /\ impl_v1_new(file') = {entries}
<1> DEFINE n == HeaderSize(entries)
           h == [kind |-> "header", records |-> entries]
           w == At(8, n, h)
           u == At(0, 8, [kind |-> "size", size |-> n])
<1>0. TypeOK /\ Versioned /\ AllGiven /\ Layout /\ HeadersOK /\ SizeWritten
  BY DEF ShardInvariant, WriterInvariant, FileInvariant
<1>1. file' = pwrite(file, w) /\ out.pc = "header"
  BY DEF HeaderWritten
<1>2. file \subseteq file'
  BY <1>0, <1>1, NextLayout
<1>3. w.len = n /\ n # 0
  BY <1>0, HeaderSizeType DEF At, TypeOK
<1>4. u \in file'
  BY <1>0, <1>1, <1>2 DEF SizeWritten
<1>5. \A e \in file : e.val.kind # "header"
  BY <1>0, <1>1 DEF HeadersOK
<1>6. w \in file' /\ \A e \in file' : e.val.kind = "header" => e = w
  <2> HIDE DEF w
  <2> QED
    BY <1>1, <1>3, <1>5, WriteKeeps
<1>7. w = At(8, n, [kind |-> "header", records |-> entries])
  OBVIOUS
<1>8. impl_v1_new(file') = {entries}
  <2> HIDE DEF w, n
  <2> QED
    BY <1>4, <1>6, <1>7, OneHeader
<1> QED
  BY <1>2, <1>8

\* It makes every blob of every record readable.
LEMMA HeaderReads ==
  ASSUME SmallFiles, WholeLoads, ShardInvariant, HeaderWritten, [Next]_vars
  PROVE  AllRead(file', entries)
<1>0. /\ TypeOK /\ Versioned /\ AllGiven /\ Had /\ Progress /\ Shelved /\ Begun
      /\ DataShaped(file) /\ out.pc = "header" /\ file \subseteq file'
  BY HeaderWrites DEF ShardInvariant, WriterInvariant, History, FileInvariant, HeaderWritten
<1>1. DataShaped(file')
  BY <1>0, NextShaped
<1>2. RecordsOK(entries)
  BY <1>0, HeaderReady DEF HeaderOK
<1>3. ASSUME NEW k \in 1..Len(entries), NEW kind \in Kinds
      PROVE  Shows(file', entries[k].blobs[kind])
  <2> DEFINE b == entries[k].blobs[kind]
  <2>1. b \in BlobEntry
    BY <1>0, BlobType
  <2>2. OneSum(b) /\ Given(b)
    BY <1>0, <1>2 DEF RecordsOK, AllGiven
  <2>3. Landed(file, b) /\ FromHad(b)
    BY <1>0 DEF Progress, Past, PassedOK
  <2> HIDE DEF b
  <2>4. Landed(file', b)
    BY <1>0, <2>3, LandedKeeps
  <2>5. Shows(file', b)
    BY <1>0, <1>1, <2>1, <2>2, <2>3, <2>4, BlobShows
  <2> QED
    BY <2>5 DEF b
<1> QED
  BY <1>3 DEF AllRead
LEMMA SealStep ==
  ASSUME SmallFiles, WholeLoads, ShardInvariant, HeaderWritten, [Next]_vars
  PROVE  Archive!ArchiveSeal
<1>0. HeadersOK /\ TypeOK /\ AllGiven /\ Shelved /\ Begun /\ Progress /\ out.pc = "header"
  BY DEF ShardInvariant, WriterInvariant, History, FileInvariant, HeaderWritten
<1>1. Seen = {}
  <2>1. NoHeaderIn(file)
    BY <1>0 DEF HeadersOK, NoHeaderIn
  <2> QED
    BY <2>1, NothingSeen DEF Seen
<1>2. Seen' = {SeenIn(file', entries)}
  <2>1. impl_v1_new(file') = {entries}
    BY HeaderWrites
  <2> QED
    BY <2>1 DEF Seen
<1>3. PICK p : Match(entries, shelves, p)
  BY <1>0 DEF Shelved, MatchedBy
<1>4. RecordsOK(entries) /\ AllRead(file', entries)
  BY <1>0, HeaderReady, HeaderReads DEF HeaderOK
<1>5. PICK pick \in [NamesOf(shelves) -> 1..Len(shelves)] :
        /\ \A raw \in DOMAIN pick : shelves[pick[raw]].raw_name = raw
        /\ \A raw \in RawNames : Reads(shelves, pick, raw, SeenIn(file', entries)[raw])
  BY <1>3, <1>4, SealExists
<1> DEFINE archive == SeenIn(file', entries)
<1>6. archive \in Seen' /\ Seen' = {archive} /\ DOMAIN archive = RawNames
  BY <1>2 DEF SeenIn
<1>7. UNCHANGED <<disk, had, shelves>>
  BY DEF HeaderWritten
<1>8. \A raw \in RawNames : IF raw \in DOMAIN pick THEN Archive!MayRead(shelves[pick[raw]], archive[raw])
                                                  ELSE archive[raw] = {}
  BY <1>5 DEF Reads
<1>9. pick \in [{s.raw_name : s \in {shelves[k] : k \in 1..Len(shelves)}} -> 1..Len(shelves)]
  BY <1>5 DEF NamesOf
<1> HIDE DEF archive
<1> QED
  BY <1>1, <1>5, <1>6, <1>7, <1>8, <1>9 DEF Archive!ArchiveSeal

\* Every step is a step of the archive, or none.
LEMMA ArchiveStep ==
  ASSUME SmallFiles, WholeLoads, ShardInvariant, ShardInvariant', [ShardNext]_allVars
  PROVE  [Archive!ArchiveNext]_Archive!archiveVars
<1>0. TypeOK /\ HeadersOK /\ HeadersOK' /\ Had /\ Shelved /\ [Next]_vars
  BY ShardCases DEF ShardInvariant, WriterInvariant, History, FileInvariant
<1>1. file' = file => Seen' = Seen
  BY DEF Seen
<1>2. ASSUME NEW h \in HexNames, PutRecord(h)
      PROVE  Archive!ArchiveNext
  <2>1. /\ UNCHANGED <<disk, had, file>>
        /\ shelves' = Append(shelves, [raw_name |-> HexToRaw[h], slots |-> [k \in Kinds |-> {}]])
    BY <1>2 DEF PutRecord, AddRecord
  <2>2. Archive!ArchiveAddRecord(HexToRaw[h]) /\ HexToRaw[h] \in RawNames
    BY <1>1, <2>1 DEF Archive!ArchiveAddRecord, RawNames
  <2> QED
    BY <2>2 DEF Archive!ArchiveNext
<1>3. ASSUME NEW kind \in Kinds, NEW s \in Sources, NEW type \in Types, NEW zlib \in BOOLEAN,
             PutBlob(kind, s, type, zlib)
      PROVE  Archive!ArchiveNext
  <2>1. /\ UNCHANGED <<disk, had, file>> /\ entries # <<>>
        /\ shelves' = [shelves EXCEPT ![Len(shelves)].slots[kind] = {[source |-> s, type |-> type]}]
    BY <1>3 DEF PutBlob, AddBlob
  <2>2. shelves # <<>>
    <3>1. entries \in Seq(RecordEntry) /\ Len(shelves) = Len(entries)
      BY <1>0 DEF TypeOK, Shelved, MatchedBy, Match
    <3> QED
      BY <2>1, <3>1
  <2>3. Archive!ArchiveSet(kind, s, type)
    BY <1>1, <2>1, <2>2 DEF Archive!ArchiveSet
  <2> QED
    BY <2>3 DEF Archive!ArchiveNext
<1>4. ASSUME NEW s \in Sources, EditSource(s)
      PROVE  Archive!ArchiveNext
  <2>1. /\ UNCHANGED <<file, shelves>> /\ had' = [had EXCEPT ![s] = @ \cup {disk'[s]}]
        /\ \E c \in Versions[s] : disk' = [disk EXCEPT ![s] = c]
    BY <1>4 DEF EditSource, Edit
  <2>2. PICK c \in Versions[s] : disk' = [disk EXCEPT ![s] = c]
    BY <2>1
  <2>3. c \in Contents /\ disk'[s] = c
    BY <1>0, <2>2, SourcesAssumption DEF TypeOK
  <2>4. Archive!ArchiveEdit(s, c)
    BY <1>1, <2>1, <2>2, <2>3 DEF Archive!ArchiveEdit
  <2> QED
    BY <2>3, <2>4 DEF Archive!ArchiveNext
<1>5. ASSUME BeginWrite
      PROVE  Archive!ArchiveNext
  <2>1. had' = [s \in Sources |-> {disk[s]}] /\ shelves' = shelves /\ WriteStart
    BY <1>5 DEF BeginWrite
  <2>2. disk' = disk /\ file' = {}
    BY <2>1 DEF WriteStart, Truncated
  <2>3. Seen' = {}
    BY <2>2, NothingSeen DEF Seen, NoHeaderIn
  <2> QED
    BY <2>1, <2>2, <2>3 DEF Archive!ArchiveNext, Archive!ArchiveOpen
<1>6. ASSUME Quietly
      PROVE  Archive!ArchiveNext \/ UNCHANGED Archive!archiveVars
  <2>1. UNCHANGED <<shelves, had>>
    BY <1>6 DEF Quietly
  <2>2. disk' = disk
    BY <1>6 DEF Quietly, WriteBlob, SkipBlob, ReadPiece, StoreBlob, WriteSize, WriteHeader, Abort
  <2>3. CASE file' = file
    BY <1>1, <2>1, <2>2, <2>3 DEF Archive!archiveVars
  <2>4. CASE out.pc # "open" /\ out'.pc # "open"
    <3>1. NoHeaderIn(file) /\ NoHeaderIn(file')
      BY <1>0, <2>4 DEF HeadersOK, NoHeaderIn
    <3>2. Seen = {} /\ Seen' = {}
      BY <3>1, NothingSeen DEF Seen
    <3> QED
      BY <2>1, <2>2, <3>2 DEF Archive!archiveVars
  <2>5. CASE HeaderWritten
    <3>1. Archive!ArchiveSeal
      BY <1>0, <2>5, SealStep
    <3> QED
      BY <3>1 DEF Archive!ArchiveNext
  <2>6. WriteBlob => out.pc # "open" /\ out'.pc # "open"
    <3> SUFFICES ASSUME WriteBlob PROVE out.pc # "open" /\ out'.pc # "open"
      OBVIOUS
    <3>1. EndBlob => out.pc = "blobs" /\ out'.pc = "blobs"
      BY <1>0, WriteBlobCases DEF ShardInvariant, WriterInvariant
    <3>2. ReadPiece => out.pc = "blobs" /\ out'.pc = "blobs"
      BY DEF ReadPiece, Copying
    <3> QED
      BY <3>1, <3>2 DEF WriteBlob, EndBlob
  <2>7. WriteSize => out.pc # "open" /\ out'.pc # "open"
    BY <1>0 DEF WriteSize, TypeOK
  <2>8. WriteHeader => HeaderWritten \/ file' = file
    BY <2>1, <2>2 DEF WriteHeader, HeaderWritten
  <2>9. Abort => file' = file
    BY DEF Abort
  <2> QED
    BY <1>6, <2>3, <2>4, <2>5, <2>6, <2>7, <2>8, <2>9 DEF Quietly
<1>7. UNCHANGED allVars => UNCHANGED Archive!archiveVars
  BY <1>1 DEF allVars, vars, Archive!archiveVars
<1> QED
  BY <1>2, <1>3, <1>4, <1>5, <1>6, <1>7 DEF ShardNext, Call, SetBlob

\* The file implements the archive: nothing can be read before write has put
\* the header in place, last of all; then every record is found by its name,
\* with the blobs that were asked for, their types, and the contents of their
\* files, whole: those of a moment of the write, or in pieces of several.
THEOREM ImplementsArchive ==
  ASSUME SmallFiles, WholeLoads PROVE ShardSpec => ImplementsRecordArchive
<1>1. ShardInit => Archive!ArchiveInit
  <2> SUFFICES ASSUME ShardInit PROVE Archive!ArchiveInit
    OBVIOUS
  <2>1. file = {} /\ shelves = <<>> /\ had = [s \in Sources |-> {disk[s]}] /\ disk \in [Sources -> Contents]
    BY DEF ShardInit, Init
  <2>2. Seen = {}
    BY <2>1, NothingSeen DEF Seen, NoHeaderIn
  <2> QED
    BY <2>1, <2>2 DEF Archive!ArchiveInit
<1>2. ShardInvariant /\ ShardInvariant' /\ [ShardNext]_allVars => [Archive!ArchiveNext]_Archive!archiveVars
  BY ArchiveStep
<1> QED
  BY <1>1, <1>2, ShardAlways, PTL DEF ShardSpec, ImplementsRecordArchive, Archive!ArchiveSpec
=============================================================================
