---------------------------- MODULE FileExtents ----------------------------
(***************************************************************************)
(* A shard file while it is written, whatever its version, and the byte    *)
(* strings that are put in it.                                             *)
(*                                                                         *)
(* A file is a set of extents: what one write left at [off, off + len).    *)
(* The bytes of an extent are abstracted to the structure they encode, so  *)
(* an extent another write touches, even partly, is no longer readable as  *)
(* what it was: pwrite removes it.                                         *)
(***************************************************************************)
EXTENDS Integers, Sequences, FiniteSets

CONSTANTS
  Strings,     \* names and MIME types, numbered in strcmp() order
  StrLen,      \* strlen() of each
  Contents,    \* byte strings that are blob data, compressed or not
  SizeOf,      \* the length of each
  Plain,       \* those that somebody compresses
  Zlib         \* the compressed form of each of these

ASSUME StringsAssumption == Strings \subseteq Nat /\ StrLen \in [Strings -> Nat]
ASSUME ContentsAssumption ==
  /\ SizeOf \in [Contents -> Nat]
  /\ Plain \subseteq Contents /\ Zlib \in [Plain -> Contents]
  /\ \A c, d \in Plain : Zlib[c] = Zlib[d] => c = d

\* SHA-256 of packed data: distinct contents have distinct checksums, so the
\* content stands for its own digest.
Checksums == Contents

Data(c) == [kind |-> "data", data |-> c]
At(off, len, val) == [off |-> off, len |-> len, val |-> val]

Disjoint(e, w) == e.off + e.len <= w.off \/ w.off + w.len <= e.off

\* pwrite() of one extent; a write of no bytes leaves the file alone.
pwrite(f, w) ==
  IF w.len = 0 THEN f ELSE {e \in f : Disjoint(e, w)} \cup {w}

\* A run of pwrite()s of adjacent extents, none of them empty.
pwrites(f, W) == {e \in f : \A w \in W : Disjoint(e, w)} \cup W

\* pread() of a structure of the given kind: what lies at off, if one
\* structure of that kind was written there and nothing else since.
preads(f, off, kind) == {e.val : e \in {x \in f : x.off = off /\ x.val.kind = kind}}
=============================================================================
