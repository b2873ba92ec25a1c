------------------------------ MODULE Lifetime ------------------------------
(***************************************************************************)
(* Who keeps a shard file open.  Records, blobs and streams hold references *)
(* to the shard file they come from and read through its descriptor, which *)
(* it closes when its last reference is dropped.  Descriptors are numbers, *)
(* given out by the kernel and shared with the rest of the process.        *)
(*                                                                         *)
(* Several threads may each work on objects of their own; an action is one *)
(* call, but for init, which is cut where a descriptor is open already and *)
(* the file not yet known to be a shard.                                   *)
(***************************************************************************)
EXTENDS Integers, FiniteSets

CONSTANTS
  Files,      \* EosShardShardFile objects, each for a path of its own
  Corrupt,    \* those whose path holds something that is no shard
  Slots,      \* the records, blobs, streams and dictionaries alive at once
  MaxFd,      \* the greatest descriptor
  MaxRefs     \* bound on the references the user takes of one object

FREE == "free"
ELSEWHERE == "elsewhere"   \* a descriptor of some other part of the process

ASSUME LifetimeAssumption ==
  /\ Corrupt \subseteq Files /\ Files \cap Slots = {} /\ Files \cap {FREE, ELSEWHERE} = {}
  /\ IsFiniteSet(Slots)
  /\ MaxFd \in Nat /\ MaxRefs \in Nat \ {0}

VARIABLES
  fds,     \* the descriptor table: what each number is open for
  shard,   \* per file: how far init has come, and self->fd
  kid,     \* per slot: the kind of object, its shard file, its blobs
  refs,    \* ref_count of every object; 0 when it is not there
  user     \* how many of these references the user holds

vars == <<fds, shard, kid, refs, user>>

Objects == Files \cup Slots

\* What an object refers to; blob is the data of a record, and what a stream
\* reads.  A pointer that is NULL is an empty set.
Nothing == [kind |-> "none", file |-> {}, blob |-> {}, metadata |-> {}]
Blob(files) == [kind |-> "blob", file |-> files, blob |-> {}, metadata |-> {}]
Optional(S) == {{}} \cup {{x} : x \in S}

\* How far a shard file has come: made, no path given to init, its descriptor
\* open, a shard, no shard; gone, or gone without having opened anything.
Stages == {"none", "new", "pathless", "opened", "ready", "failed", "finalized", "discarded"}

TypeOK ==
  /\ fds \in [0..MaxFd -> Files \cup {FREE, ELSEWHERE}]
  /\ shard \in [Files -> [pc: Stages, fd: -1..MaxFd]]
  /\ kid \in [Slots -> [kind: {"none", "record", "blob", "stream", "dictionary"},
                        file: SUBSET Files, blob: SUBSET Slots, metadata: SUBSET Slots]]
  /\ refs \in [Objects -> Nat] /\ user \in [Objects -> 0..MaxRefs]

Init ==
  /\ fds = [i \in 0..MaxFd |-> IF i = 0 THEN ELSEWHERE ELSE FREE]
  /\ shard = [f \in Files |-> [pc |-> "none", fd |-> 0]]
  /\ kid = [k \in Slots |-> Nothing]
  /\ refs = [x \in Objects |-> 0] /\ user = [x \in Objects |-> 0]

----------------------------------------------------------------------------
\* The kernel: the lowest free number; EBADF for a number that is not open.
Lowest(i) == i \in 0..MaxFd /\ fds[i] = FREE /\ \A j \in 0..MaxFd : fds[j] = FREE => i <= j
closed(t, fd) == [i \in DOMAIN t |-> IF i = fd THEN FREE ELSE t[i]]

\* Somebody else opens and closes files.
OtherOpen ==
  /\ \E i \in 0..MaxFd : Lowest(i) /\ fds' = [fds EXCEPT ![i] = ELSEWHERE]
  /\ UNCHANGED <<shard, kid, refs, user>>

OtherClose ==
  /\ \E i \in 0..MaxFd : fds[i] = ELSEWHERE /\ fds' = closed(fds, i)
  /\ UNCHANGED <<shard, kid, refs, user>>

\* g_object_new: every field is zero, the descriptor too.
New(f) ==
  /\ shard[f].pc = "none"
  /\ shard' = [shard EXCEPT ![f] = [pc |-> "new", fd |-> 0]]
  /\ refs' = [refs EXCEPT ![f] = 1] /\ user' = [user EXCEPT ![f] = 1]
  /\ UNCHANGED <<fds, kid>>

\* The descriptor is stored when it is a good one only.
InitOpen_GoodOnly(f) ==
  /\ shard[f].pc = "new"
  /\ \/ \E i \in 0..MaxFd :
          /\ Lowest(i) /\ fds' = [fds EXCEPT ![i] = f]
          /\ shard' = [shard EXCEPT ![f] = [pc |-> "opened", fd |-> i]]
     \/ /\ shard' = [shard EXCEPT ![f].pc = "failed"]
        /\ UNCHANGED fds
     \/ /\ shard' = [shard EXCEPT ![f].pc = "pathless"]
        /\ UNCHANGED fds
  /\ UNCHANGED <<kid, refs, user>>

\* init: open(), which fails when there is no such file.  When no path was set
\* init returns before it, and the descriptor stays the 0 of g_object_new.
InitOpen(f) ==
  /\ shard[f].pc = "new"
  /\ \/ \E i \in 0..MaxFd :
          /\ Lowest(i) /\ fds' = [fds EXCEPT ![i] = f]
          /\ shard' = [shard EXCEPT ![f] = [pc |-> "opened", fd |-> i]]
     \/ /\ shard' = [shard EXCEPT ![f] = [pc |-> "failed", fd |-> -1]]
        /\ UNCHANGED fds
     \/ /\ shard' = [shard EXCEPT ![f].pc = "pathless"]
        /\ UNCHANGED fds
  /\ UNCHANGED <<kid, refs, user>>

\* init: detect_version; the descriptor of a corrupt file is closed, and its
\* number kept.
InitDetect(f) ==
  /\ shard[f].pc = "opened"
  /\ IF f \in Corrupt
       THEN /\ fds' = closed(fds, shard[f].fd)
            /\ shard' = [shard EXCEPT ![f].pc = "failed"]
       ELSE /\ shard' = [shard EXCEPT ![f].pc = "ready"]
            /\ UNCHANGED fds
  /\ UNCHANGED <<kid, refs, user>>

----------------------------------------------------------------------------
\* What is left of the counts when a reference to an object is dropped: what
\* the object holds is dropped when its own count comes to zero, in the order
\* of its free function.
less(count, x) == [count EXCEPT ![x] = @ - 1]
FileOf(x) == CHOOSE f \in kid[x].file : TRUE

blob_unref(count, b) ==
  LET c == less(count, b) IN IF c[b] = 0 THEN less(c, FileOf(b)) ELSE c

\* g_clear_pointer (&..., eos_shard_blob_unref)
clear_blob(count, blob) ==
  IF blob = {} THEN count ELSE blob_unref(count, CHOOSE b \in blob : TRUE)

record_unref(count, k) ==
  LET c == less(count, k)
  IN  IF c[k] = 0 THEN clear_blob(clear_blob(less(c, FileOf(k)), kid[k].blob), kid[k].metadata) ELSE c

\* A stream that also drops the shard file for its blob.
stream_unref_Twice(count, s) ==
  LET c == less(count, s)
  IN  IF c[s] = 0 THEN less(less(clear_blob(c, kid[s].blob), FileOf(s)), FileOf(s)) ELSE c

stream_unref(count, s) ==
  LET c == less(count, s) IN IF c[s] = 0 THEN less(clear_blob(c, kid[s].blob), FileOf(s)) ELSE c

\* Shard files and dictionaries hold nothing.
unref(count, x) ==
  IF x \in Files \/ kid[x].kind = "dictionary" THEN less(count, x)
  ELSE IF kid[x].kind = "blob" THEN blob_unref(count, x)
  ELSE IF kid[x].kind = "record" THEN record_unref(count, x)
  ELSE stream_unref(count, x)

\* The descriptors closed with an object: that of a shard file.
Closes_Nothing(x) == {}
Closes_Borrowed(x) ==
  IF x \in Files THEN {shard[x].fd}
  ELSE IF kid[x].kind = "dictionary" THEN {shard[f].fd : f \in kid[x].file} ELSE {}
Closes(x) == IF x \in Files THEN {shard[x].fd} ELSE {}

\* What has become of a shard file that is finalized.
Finalized(f) ==
  [shard[f] EXCEPT !.pc = IF shard[f].pc \in {"new", "pathless"} THEN "discarded" ELSE "finalized"]

\* The user drops a reference; a shard file whose count is zero is finalized,
\* which closes its descriptor, whatever it is: descriptor 0 when none was
\* opened.  Init holds a reference for as long as it is at work.
Unref(x) ==
  /\ user[x] > 0
  /\ x \in Files => shard[x].pc # "opened" \/ user[x] > 1
  /\ LET count == unref(refs, x)
         gone == {y \in Objects : refs[y] > 0 /\ count[y] = 0}
     IN  /\ refs' = count
         /\ user' = [user EXCEPT ![x] = @ - 1]
         /\ kid' = [k \in Slots |-> IF k \in gone THEN Nothing ELSE kid[k]]
         /\ shard' = [f \in Files |-> IF f \in gone THEN Finalized(f) ELSE shard[f]]
         /\ fds' = [i \in DOMAIN fds |->
              IF \E y \in gone : i \in Closes(y) THEN FREE ELSE fds[i]]

\* The user takes another reference.
Ref(x) ==
  /\ user[x] \in 1..MaxRefs - 1
  /\ refs' = [refs EXCEPT ![x] = @ + 1] /\ user' = [user EXCEPT ![x] = @ + 1]
  /\ UNCHANGED <<fds, shard, kid>>

Vacant(k) == kid[k].kind = "none"

\* The record has a reference of its own only for its data and metadata.
record_new_NoRef(f, k, blobs) ==
  refs' = [x \in Objects |-> IF x = k \/ x \in blobs THEN 1
                             ELSE IF x = f THEN refs[f] + Cardinality(blobs) ELSE refs[x]]

\* record_new: one g_object_ref of the shard file for the record, and one for
\* each blob it is created with.
record_new(f, k, blobs) ==
  refs' = [x \in Objects |-> IF x = k \/ x \in blobs THEN 1
                             ELSE IF x = f THEN refs[f] + 1 + Cardinality(blobs) ELSE refs[x]]

\* find_record_by_raw_name, list_records: a record that has data and metadata,
\* one of them or neither.
FindRecord(f, k, data, metadata) ==
  /\ user[f] > 0 /\ shard[f].pc = "ready"
  /\ Vacant(k) /\ \A b \in data \cup metadata : Vacant(b) /\ b # k
  /\ data \cap metadata = {}
  /\ kid' = [x \in Slots |->
       IF x = k THEN [kind |-> "record", file |-> {f}, blob |-> data, metadata |-> metadata]
       ELSE IF x \in data \cup metadata THEN Blob({f}) ELSE kid[x]]
  /\ record_new(f, k, data \cup metadata)
  /\ user' = [user EXCEPT ![k] = 1]
  /\ UNCHANGED <<fds, shard>>

\* list_blobs of version 1, and the record's own fields: one of the record's
\* blobs, with another reference.
GetBlob(k) ==
  /\ user[k] > 0 /\ kid[k].kind = "record"
  /\ \E b \in kid[k].blob \cup kid[k].metadata :
       /\ user[b] < MaxRefs
       /\ refs' = [refs EXCEPT ![b] = @ + 1] /\ user' = [user EXCEPT ![b] = @ + 1]
  /\ UNCHANGED <<fds, shard, kid>>

\* lookup_blob and list_blobs of version 2: a new blob.
LookupBlob(k, b) ==
  /\ user[k] > 0 /\ kid[k].kind = "record" /\ Vacant(b)
  /\ kid' = [kid EXCEPT ![b] = Blob(kid[k].file)]
  /\ refs' = [x \in Objects |-> IF x = b THEN 1 ELSE IF x \in kid[k].file THEN refs[x] + 1 ELSE refs[x]]
  /\ user' = [user EXCEPT ![b] = 1]
  /\ UNCHANGED <<fds, shard>>

\* The stream counts on the blob to keep the shard file.
stream_new_NoFile(s, b, f) ==
  refs' = [x \in Objects |-> IF x = s THEN 1 ELSE IF x = b THEN refs[x] + 1 ELSE refs[x]]

\* _eos_shard_blob_stream_new_for_blob
stream_new(s, b, f) ==
  refs' = [x \in Objects |-> IF x = s THEN 1 ELSE IF x \in {b, f} THEN refs[x] + 1 ELSE refs[x]]

GetStream(b, s) ==
  /\ user[b] > 0 /\ kid[b].kind = "blob" /\ Vacant(s)
  /\ kid' = [kid EXCEPT ![s] = [kind |-> "stream", file |-> kid[b].file, blob |-> {b}, metadata |-> {}]]
  /\ \E f \in kid[b].file : stream_new(s, b, f)
  /\ user' = [user EXCEPT ![s] = 1]
  /\ UNCHANGED <<fds, shard>>

\* load_as_dictionary: the dictionary gets the number of the descriptor.
LoadAsDictionary(b, d) ==
  /\ user[b] > 0 /\ kid[b].kind = "blob" /\ Vacant(d)
  /\ kid' = [kid EXCEPT ![d] = [kind |-> "dictionary", file |-> kid[b].file, blob |-> {}, metadata |-> {}]]
  /\ refs' = [refs EXCEPT ![d] = 1] /\ user' = [user EXCEPT ![d] = 1]
  /\ UNCHANGED <<fds, shard>>

Next ==
  \/ OtherOpen \/ OtherClose
  \/ \E f \in Files : New(f) \/ InitOpen(f) \/ InitDetect(f)
  \/ \E x \in Objects : Ref(x) \/ Unref(x)
  \/ \E f \in Files, k \in Slots, data, metadata \in Optional(Slots) : FindRecord(f, k, data, metadata)
  \/ \E k \in Slots : GetBlob(k)
  \/ \E x, y \in Slots : LookupBlob(x, y) \/ GetStream(x, y) \/ LoadAsDictionary(x, y)

Spec == Init /\ [][Next]_vars

----------------------------------------------------------------------------
\* Descriptor 0 is closed by every shard file that is finalized without having
\* opened one, whoever it belongs to.
ZeroStruck == \E f \in Files : shard[f].pc = "discarded"

\* Whatever is read through this shard file comes from its file.
Readable(f) ==
  /\ refs[f] > 0 /\ shard[f].fd >= 0
  /\ fds[shard[f].fd] = f \/ (shard[f].fd = 0 /\ ZeroStruck)

\* Every record, blob and stream can be used for as long as somebody holds it,
\* in whatever order the others, the shard file among them, are dropped, and
\* whatever else the process opens and closes; unless its shard file was given
\* descriptor 0, and a shard file that never opened one is finalized.
ReadsOwnFile ==
  \A k \in Slots :
    kid[k].kind \in {"record", "blob", "stream"} =>
      refs[k] > 0 /\ \A f \in kid[k].file : Readable(f)

\* A dictionary holds no reference and can be used for as long as something
\* else keeps its shard file, with the same exception.
DictionaryReads ==
  \A k \in Slots :
    kid[k].kind = "dictionary" => \A f \in kid[k].file : refs[f] > 0 => Readable(f)

\* Every reference count is the number of references there are.
CountsExact ==
  \A x \in Objects :
    refs[x] = user[x] + Cardinality({k \in Slots : x \in kid[k].blob \cup kid[k].metadata})
              + Cardinality({k \in Slots : kid[k].kind # "dictionary" /\ x \in kid[k].file})

\* When the user has dropped everything, every descriptor is closed.
AllClosed ==
  (\A x \in Objects : user[x] = 0) => \A i \in 0..MaxFd : fds[i] \notin Files

\* The only descriptor of some other part of the process that a call of the
\* library ever closes is 0, and that only after, or because, a shard file is
\* finalized which opened none: init found no path, or was never called.
OthersKept ==
  [][\A i \in 0..MaxFd : fds[i] = ELSEWHERE /\ fds'[i] # ELSEWHERE =>
       UNCHANGED <<shard, kid, refs, user>> \/ (i = 0 /\ ZeroStruck')]_vars
=============================================================================
