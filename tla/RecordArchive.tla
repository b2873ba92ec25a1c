--------------------------- MODULE RecordArchive ---------------------------
(***************************************************************************)
(* What a shard of version 1 promises, without a file: records with two    *)
(* blobs each, named by source files that go on changing.  Writing seals   *)
(* the archive: from then on every record is found under its name, and     *)
(* each of its blobs has the content type it was given and the contents    *)
(* its source file had, if it was not edited during the writing; else each *)
(* piece is one its file had there at some moment of the writing.  Writing *)
(* again begins by taking back what was sealed.                            *)
(***************************************************************************)
EXTENDS Integers, Sequences, FiniteSets

CONSTANTS Sources, Contents, Pieces, Kinds, RawNames, Types, StrLen

VARIABLES
  disk,        \* what each source file holds
  had,         \* what it has held since the writing began
  shelves,     \* the records in the order they were added
  published    \* empty, or the one archive that can be read

archiveVars == <<disk, had, shelves, published>>

\* What may have been read of a file that went through the contents V.
Blend(V) ==
  {c \in Contents :
    /\ \A i \in 1..Len(Pieces[c]) : \E v \in V : i <= Len(Pieces[v]) /\ Pieces[c][i] = Pieces[v][i]
    /\ \E v \in V : Len(Pieces[v]) <= Len(Pieces[c])}

\* What a reader may get of the blob on a slot.
MayShow(slot, seen) ==
  IF slot = {} THEN seen = {}
  ELSE \E x \in slot : \E c \in Blend(had[x.source]) :
         seen = {[content_type |-> x.type, contents |-> {[content |-> c, whole |-> TRUE]}]}

\* What it may get of a shelf.
MayRead(shelf, seen) ==
  \E record \in seen :
    /\ seen = {record} /\ record = [k \in Kinds |-> record[k]]
    /\ \A k \in Kinds : MayShow(shelf.slots[k], record[k])

ArchiveInit ==
  /\ disk \in [Sources -> Contents] /\ had = [s \in Sources |-> {disk[s]}]
  /\ shelves = <<>> /\ published = {}

ArchiveAddRecord(raw) ==
  /\ shelves' = Append(shelves, [raw_name |-> raw, slots |-> [k \in Kinds |-> {}]])
  /\ UNCHANGED <<disk, had, published>>

ArchiveSet(kind, s, type) ==
  /\ shelves # <<>>
  /\ shelves' = [shelves EXCEPT ![Len(shelves)].slots[kind] = {[source |-> s, type |-> type]}]
  /\ UNCHANGED <<disk, had, published>>

ArchiveEdit(s, c) ==
  /\ disk' = [disk EXCEPT ![s] = c]
  /\ had' = [had EXCEPT ![s] = @ \cup {c}]
  /\ UNCHANGED <<shelves, published>>

ArchiveOpen ==
  /\ published' = {} /\ had' = [s \in Sources |-> {disk[s]}]
  /\ UNCHANGED <<disk, shelves>>

\* Of several records with one name a reader finds one, always the same.
ArchiveSeal ==
  /\ published = {}
  /\ \E archive \in published',
       pick \in [{s.raw_name : s \in {shelves[k] : k \in 1..Len(shelves)}} -> 1..Len(shelves)] :
       /\ published' = {archive} /\ DOMAIN archive = RawNames
       /\ \A raw \in DOMAIN pick : shelves[pick[raw]].raw_name = raw
       /\ \A raw \in RawNames :
            IF raw \in DOMAIN pick THEN MayRead(shelves[pick[raw]], archive[raw])
                                  ELSE archive[raw] = {}
  /\ UNCHANGED <<disk, had, shelves>>

ArchiveNext ==
  \/ \E raw \in RawNames : ArchiveAddRecord(raw)
  \/ \E kind \in Kinds, s \in Sources, type \in Types : ArchiveSet(kind, s, type)
  \/ \E s \in Sources, c \in Contents : ArchiveEdit(s, c)
  \/ ArchiveOpen
  \/ ArchiveSeal

ArchiveSpec == ArchiveInit /\ [][ArchiveNext]_archiveVars
=============================================================================
