---------------------------- MODULE ShardArchive ----------------------------
(***************************************************************************)
(* What a shard promises its users, without a file: blobs are added and    *)
(* given identifiers, records are added and blobs attached to them, and in *)
(* one step the archive is sealed.  Before that nothing can be read; from  *)
(* then on every record is found under its name, with the content type and *)
(* the contents of the blobs attached to it.                               *)
(***************************************************************************)
EXTENDS Integers, Sequences, FiniteSets, FiniteSetsExt

CONSTANTS Strings, StrLen, SizeOf, Internal, METADATA, DATA,
          Requests, RawNames, Ids

VARIABLES
  asked,       \* the request behind every identifier handed out
  shelves,     \* the records in the order they were added
  published    \* empty, or the one archive that can be read

archiveVars == <<asked, shelves, published>>

\* A blob as its reader gets it: an empty one is not there.
BlobView(r) ==
  IF SizeOf[r.content] = 0 THEN {}
  ELSE {[content_type |-> [str |-> r.content_type, len |-> StrLen[r.content_type]],
         contents |-> {[content |-> r.content, whole |-> TRUE]}]}

\* The blob of a record under a name: the first one attached.
Named(shelf, n) ==
  LET ks == {k \in 1..Len(shelf.blobs) : asked[shelf.blobs[k]].name = n}
  IN  IF ks = {} THEN {} ELSE BlobView(asked[shelf.blobs[Min(ks)]])

\* A record as its reader gets it.
RecordView(shelf) ==
  [metadata |-> Named(shelf, METADATA), data |-> Named(shelf, DATA),
   blobs |-> [n \in Strings \ Internal |-> Named(shelf, n)]]

ArchiveInit == asked = <<>> /\ shelves = <<>> /\ published = {}

ArchiveAddBlob(id, r) ==
  /\ published = {} /\ id \notin DOMAIN asked
  /\ asked' = [i \in DOMAIN asked \cup {id} |-> IF i = id THEN r ELSE asked[i]]
  /\ UNCHANGED <<shelves, published>>

ArchiveAddRecord(raw) ==
  /\ published = {}
  /\ shelves' = Append(shelves, [raw_name |-> raw, blobs |-> <<>>])
  /\ UNCHANGED <<asked, published>>

ArchiveAttach(s, id) ==
  /\ published = {} /\ s \in 1..Len(shelves) /\ id \in DOMAIN asked
  /\ shelves' = [shelves EXCEPT ![s].blobs = Append(@, id)]
  /\ UNCHANGED <<asked, published>>

\* Of several records with one name, a reader finds one: always the same.
ArchiveSeal ==
  /\ published = {}
  /\ \E pick \in [{s.raw_name : s \in {shelves[k] : k \in 1..Len(shelves)}} -> 1..Len(shelves)] :
       /\ \A raw \in DOMAIN pick : shelves[pick[raw]].raw_name = raw
       /\ published' = {[raw \in RawNames |->
            IF raw \in DOMAIN pick THEN {RecordView(shelves[pick[raw]])} ELSE {}]}
  /\ UNCHANGED <<asked, shelves>>

ArchiveNext ==
  \/ \E id \in Ids, r \in Requests : ArchiveAddBlob(id, r)
  \/ \E raw \in RawNames : ArchiveAddRecord(raw)
  \/ \E s \in 1..Len(shelves), id \in DOMAIN asked : ArchiveAttach(s, id)
  \/ ArchiveSeal

ArchiveSpec == ArchiveInit /\ [][ArchiveNext]_archiveVars
=============================================================================
