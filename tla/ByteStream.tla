----------------------------- MODULE ByteStream -----------------------------
(***************************************************************************)
(* A seekable stream of size bytes, as GInputStream and GSeekable describe *)
(* one: a position between 0 and size, reads that return the bytes at it,  *)
(* perhaps fewer than asked for, and seeks that go where they are told or  *)
(* are refused.                                                            *)
(***************************************************************************)
EXTENDS Integers

CONSTANTS Offsets, Counts, Types   \* the arguments of seek and of read

VARIABLES size, pos, answer

streamVars == <<size, pos, answer>>

\* Where a seek leads.
Target(offset, type) ==
  offset + (IF type = "CUR" THEN pos ELSE IF type = "END" THEN size ELSE 0)

StreamInit == size \in Nat /\ pos = 0 /\ answer = [call |-> "none"]

StreamSeek(offset, type) ==
  LET t == Target(offset, type)
  IN  /\ pos' = IF t \in 0..size THEN t ELSE pos
      /\ answer' = [call |-> "seek", offset |-> offset, type |-> type, ok |-> t \in 0..size]
      /\ UNCHANGED size

\* A read of up to count bytes from the position on.
StreamRead(count) ==
  /\ \E n \in 0..size - pos :
       /\ n <= count
       /\ pos' = pos + n
       /\ answer' = [call |-> "read", from |-> pos, n |-> n]
  /\ UNCHANGED size

StreamFail == answer' = [call |-> "error"] /\ UNCHANGED <<size, pos>>

StreamNext ==
  \/ \E offset \in Offsets, type \in Types : StreamSeek(offset, type)
  \/ \E count \in Counts : StreamRead(count)
  \/ StreamFail

StreamSpec == StreamInit /\ [][StreamNext]_streamVars
=============================================================================
