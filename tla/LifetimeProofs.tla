--------------------------- MODULE LifetimeProofs ---------------------------
(***************************************************************************)
(* The reference counts of Lifetime are exact, for any number of shard     *)
(* files, records, blobs, streams and dictionaries, and what is alive      *)
(* reads the file it came from.                                            *)
(***************************************************************************)
EXTENDS Lifetime, FiniteSetTheorems, TLAPS

\* Who refers to an object x, when the slots hold K, and how many references
\* that makes.
Holding(K, x) == {k \in Slots : x \in K[k].blob \cup K[k].metadata}
Using(K, x) == {k \in Slots : K[k].kind # "dictionary" /\ x \in K[k].file}
Held(K, x) == Cardinality(Holding(K, x)) + Cardinality(Using(K, x))

\* What one object o contributes.
Weight(o, x) ==
  (IF x \in o.blob \cup o.metadata THEN 1 ELSE 0) + (IF o.kind # "dictionary" /\ x \in o.file THEN 1 ELSE 0)

LEMMA Finite ==
  ASSUME NEW K, NEW x
  PROVE  /\ IsFiniteSet(Holding(K, x)) /\ Cardinality(Holding(K, x)) \in Nat
         /\ IsFiniteSet(Using(K, x)) /\ Cardinality(Using(K, x)) \in Nat
<1>1. Holding(K, x) \in SUBSET Slots /\ Using(K, x) \in SUBSET Slots
  BY DEF Holding, Using
<1>2. IsFiniteSet(Holding(K, x)) /\ IsFiniteSet(Using(K, x))
  BY <1>1, FS_Subset, LifetimeAssumption
<1> QED
  BY <1>2, FS_CardinalityType

\* A count is there for everybody who refers to the object.
LEMMA HeldType ==
  ASSUME NEW K, NEW x
  PROVE  /\ Held(K, x) \in Nat
         /\ Held(K, x) = 0 => Holding(K, x) = {} /\ Using(K, x) = {}
<1>1. /\ IsFiniteSet(Holding(K, x)) /\ Cardinality(Holding(K, x)) \in Nat
      /\ IsFiniteSet(Using(K, x)) /\ Cardinality(Using(K, x)) \in Nat
  BY Finite
<1>2. Held(K, x) \in Nat /\ (Held(K, x) = 0 => Cardinality(Holding(K, x)) = 0 /\ Cardinality(Using(K, x)) = 0)
  BY <1>1 DEF Held
<1> QED
  BY <1>1, <1>2, FS_EmptySet

LEMMA HeldSame ==
  ASSUME NEW K, NEW L, \A k \in Slots : K[k] = L[k], NEW x
  PROVE  Held(K, x) = Held(L, x)
<1>1. Holding(K, x) = Holding(L, x) /\ Using(K, x) = Using(L, x)
  BY DEF Holding, Using
<1> QED
  BY <1>1 DEF Held

\* One object more.
LEMMA HeldMore ==
  ASSUME NEW K, NEW k \in Slots, K[k] = Nothing, NEW L, \A j \in Slots : j # k => L[j] = K[j], NEW x
  PROVE  Held(L, x) = Held(K, x) + Weight(L[k], x)
<1>1. k \notin Holding(K, x) /\ k \notin Using(K, x)
  BY DEF Holding, Using, Nothing
<1>2. /\ IsFiniteSet(Holding(K, x)) /\ Cardinality(Holding(K, x)) \in Nat
      /\ IsFiniteSet(Using(K, x)) /\ Cardinality(Using(K, x)) \in Nat
  BY Finite
<1>3. /\ Cardinality(Holding(K, x) \cup {k}) = Cardinality(Holding(K, x)) + 1
      /\ Cardinality(Using(K, x) \cup {k}) = Cardinality(Using(K, x)) + 1
  BY <1>1, <1>2, FS_AddElement
<1>4. Holding(L, x) = IF x \in L[k].blob \cup L[k].metadata THEN Holding(K, x) \cup {k} ELSE Holding(K, x)
  BY <1>1 DEF Holding
<1>5. Using(L, x) = IF L[k].kind # "dictionary" /\ x \in L[k].file THEN Using(K, x) \cup {k} ELSE Using(K, x)
  BY <1>1 DEF Using
<1>6. Cardinality(Holding(L, x)) =
        Cardinality(Holding(K, x)) + (IF x \in L[k].blob \cup L[k].metadata THEN 1 ELSE 0)
  BY <1>2, <1>3, <1>4
<1>7. Cardinality(Using(L, x)) =
        Cardinality(Using(K, x)) + (IF L[k].kind # "dictionary" /\ x \in L[k].file THEN 1 ELSE 0)
  BY <1>2, <1>3, <1>5
<1> QED
  BY <1>2, <1>6, <1>7 DEF Held, Weight

----------------------------------------------------------------------------
\* What an object refers to: nothing, or a file that is ready and blobs of
\* that file.  A dictionary may be left when its file is gone.
Shaped(o, K) ==
  /\ o.kind = "none" => o = Nothing
  /\ o.kind # "none" =>
       \E f \in Files : /\ o.file = {f}
                        /\ shard[f].pc = "ready" \/ (o.kind = "dictionary" /\ shard[f].pc = "finalized")
  /\ o.kind \in {"blob", "dictionary"} => o.blob = {} /\ o.metadata = {}
  /\ o.kind = "stream" => (\E b \in Slots : o.blob = {b}) /\ o.metadata = {}
  /\ o.blob \in Optional(Slots) /\ o.metadata \in Optional(Slots) /\ o.blob \cap o.metadata = {}
  /\ \A b \in o.blob \cup o.metadata : K[b].kind = "blob" /\ K[b].file = o.file

Shape == \A k \in Slots : Shaped(kid[k], kid)

\* An object is there for as long as its count is not zero.
Alive ==
  /\ \A k \in Slots : kid[k].kind = "none" <=> refs[k] = 0
  /\ \A f \in Files : shard[f].pc \in {"none", "finalized", "discarded"} <=> refs[f] = 0

\* A shard file has one descriptor at most; when there are no corrupt files,
\* it has that one until it is finalized, or until descriptor 0 was struck,
\* and remembers no other; 0 when it never opened one.
Struck(f) == shard[f].fd = 0 /\ ZeroStruck

OneDescriptor(f) ==
  /\ \A i \in 0..MaxFd : fds[i] = f => shard[f].pc \in {"opened", "ready"} /\ shard[f].fd = i
  /\ Corrupt = {} /\ shard[f].pc \in {"opened", "ready"} =>
       shard[f].fd \in 0..MaxFd /\ (fds[shard[f].fd] = f \/ Struck(f))
  /\ Corrupt = {} /\ shard[f].pc = "failed" => shard[f].fd = -1
  /\ shard[f].pc \in {"new", "pathless"} => shard[f].fd = 0

Descriptors == \A f \in Files : OneDescriptor(f)

LInv == TypeOK /\ Shape /\ Alive /\ CountsExact /\ Descriptors

\* The counts c are those of what the user and the slots refer to, and of the
\* references that are still to be dropped.
Balanced(c, u, K, debt) == \A x \in Objects : c[x] = u[x] + Held(K, x) + debt[x]
None == [x \in Objects |-> 0]

LEMMA CountsBalanced ==
  ASSUME NEW c \in [Objects -> Nat], NEW u \in [Objects -> 0..MaxRefs], NEW K
  PROVE  (\A x \in Objects :
            c[x] = u[x] + Cardinality({k \in Slots : x \in K[k].blob \cup K[k].metadata})
                   + Cardinality({k \in Slots : K[k].kind # "dictionary" /\ x \in K[k].file}))
           <=> Balanced(c, u, K, None)
<1>1. \A x : /\ {k \in Slots : x \in K[k].blob \cup K[k].metadata} = Holding(K, x)
             /\ {k \in Slots : K[k].kind # "dictionary" /\ x \in K[k].file} = Using(K, x)
  BY DEF Holding, Using
<1>2. ASSUME NEW x \in Objects
      PROVE  (c[x] = u[x] + Cardinality(Holding(K, x)) + Cardinality(Using(K, x)))
                <=> (c[x] = u[x] + Held(K, x) + None[x])
  <2>1. c[x] \in Nat /\ u[x] \in Nat /\ None[x] = 0
    BY LifetimeAssumption DEF None
  <2>2. Cardinality(Holding(K, x)) \in Nat /\ Cardinality(Using(K, x)) \in Nat
    BY Finite
  <2> QED
    BY <2>1, <2>2 DEF Held
<1> QED
  BY <1>1, <1>2 DEF Balanced

\* The same for the state and for the next one.
LEMMA ExactIsBalanced ==
  /\ TypeOK => (CountsExact <=> Balanced(refs, user, kid, None))
  /\ TypeOK' => (CountsExact' <=> Balanced(refs', user', kid', None))
<1>1. TypeOK => (CountsExact <=> Balanced(refs, user, kid, None))
  BY CountsBalanced DEF TypeOK, CountsExact
<1>2. TypeOK' => (CountsExact' <=> Balanced(refs', user', kid', None))
  <2> SUFFICES ASSUME NEW c, NEW u, NEW K, c = refs', u = user', K = kid', TypeOK'
               PROVE  CountsExact' <=> Balanced(c, u, K, None)
    OBVIOUS
  <2>1. c \in [Objects -> Nat] /\ u \in [Objects -> 0..MaxRefs]
    BY DEF TypeOK
  <2>2. CountsExact' <=>
          \A x \in Objects :
            c[x] = u[x] + Cardinality({k \in Slots : x \in K[k].blob \cup K[k].metadata})
                   + Cardinality({k \in Slots : K[k].kind # "dictionary" /\ x \in K[k].file})
    BY DEF CountsExact
  <2> QED
    BY <2>1, <2>2, CountsBalanced
<1> QED
  BY <1>1, <1>2

LEMMA InitLInv == Init => LInv
<1> SUFFICES ASSUME Init
             PROVE  LInv
  OBVIOUS
<1>1. TypeOK
  BY LifetimeAssumption DEF Init, TypeOK, Objects, Nothing, Stages
<1>2. Shape
  BY DEF Init, Shape, Shaped, Nothing, Optional
<1>3. Alive
  BY DEF Init, Alive, Nothing, Objects
<1>4. Descriptors
  BY LifetimeAssumption DEF Init, Descriptors, OneDescriptor
<1>5. CountsExact
  <2>1. \A x : Held(kid, x) = 0
    <3>1. \A x : Holding(kid, x) = {} /\ Using(kid, x) = {}
      BY DEF Init, Holding, Using, Nothing
    <3>2. Cardinality({}) = 0
      BY FS_EmptySet
    <3> QED
      BY <3>1, <3>2 DEF Held
  <2>2. \A x \in Objects : refs[x] = 0 /\ user[x] = 0 /\ None[x] = 0
    BY DEF Init, None
  <2> QED
    BY <1>1, <2>1, <2>2, ExactIsBalanced DEF Balanced
<1> QED
  BY <1>1, <1>2, <1>3, <1>4, <1>5 DEF LInv

----------------------------------------------------------------------------
\* A shard file that was discarded stays so while another one changes.
LEMMA StruckStays ==
  ASSUME NEW f \in Files, shard[f].pc # "discarded", \A g \in Files : g # f => shard'[g] = shard[g]
  PROVE  \A g \in Files : g # f /\ Struck(g) => Struck(g)'
<1>1. ZeroStruck => ZeroStruck'
  BY DEF ZeroStruck
<1> QED
  BY <1>1 DEF Struck

\* Where the counts are known, the rest of the types follows easily.
LEMMA OtherOpenStep == ASSUME LInv, OtherOpen PROVE LInv'
<1> USE DEF LInv
<1>1. PICK i \in 0..MaxFd : fds[i] = FREE /\ fds' = [fds EXCEPT ![i] = ELSEWHERE]
  BY DEF OtherOpen, Lowest
<1>2. UNCHANGED <<shard, kid, refs, user>>
  BY DEF OtherOpen
<1>3. TypeOK'
  BY <1>1, <1>2 DEF TypeOK
<1>4. Descriptors'
  BY <1>1, <1>2, LifetimeAssumption DEF TypeOK, Descriptors, OneDescriptor, Struck, ZeroStruck, FREE, ELSEWHERE
<1> QED
  BY <1>2, <1>3, <1>4 DEF Shape, Shaped, Alive, CountsExact

LEMMA OtherCloseStep == ASSUME LInv, OtherClose PROVE LInv'
<1> USE DEF LInv
<1>1. PICK i \in 0..MaxFd : fds[i] = ELSEWHERE /\ fds' = closed(fds, i)
  BY DEF OtherClose
<1>2. UNCHANGED <<shard, kid, refs, user>> /\ fds' = [j \in 0..MaxFd |-> IF j = i THEN FREE ELSE fds[j]]
  BY <1>1 DEF OtherClose, closed, TypeOK
<1>3. TypeOK'
  BY <1>1, <1>2 DEF TypeOK
<1>4. Descriptors'
  BY <1>1, <1>2, LifetimeAssumption DEF TypeOK, Descriptors, OneDescriptor, Struck, ZeroStruck, FREE, ELSEWHERE
<1> QED
  BY <1>2, <1>3, <1>4 DEF Shape, Shaped, Alive, CountsExact

LEMMA NewStep == ASSUME LInv, NEW f \in Files, New(f) PROVE LInv'
<1> USE DEF LInv
<1>1. /\ shard[f].pc = "none" /\ UNCHANGED <<fds, kid>>
      /\ shard' = [shard EXCEPT ![f] = [pc |-> "new", fd |-> 0]]
      /\ refs' = [refs EXCEPT ![f] = 1] /\ user' = [user EXCEPT ![f] = 1]
  BY DEF New
<1>2. f \in Objects /\ f \notin Slots
  BY LifetimeAssumption DEF Objects
<1>3. TypeOK'
  BY <1>1, <1>2, LifetimeAssumption DEF TypeOK, Stages
<1>4. shard'[f].pc = "new" /\ \A g \in Files : g # f => shard'[g] = shard[g]
  BY <1>1 DEF TypeOK
<1>5. Shape'
  <2>1. \A k \in Slots : kid[k].kind # "none" =>
          \E g \in Files : /\ kid[k].file = {g}
                           /\ shard'[g].pc = "ready" \/ (kid[k].kind = "dictionary" /\ shard'[g].pc = "finalized")
    BY <1>1, <1>4 DEF Shape, Shaped
  <2> QED
    BY <1>1, <2>1 DEF Shape, Shaped
<1>6. Alive'
  BY <1>1, <1>2, <1>4 DEF Alive, TypeOK, Objects
<1>7. Descriptors'
  <2>1. ASSUME NEW g \in Files, g # f
        PROVE  OneDescriptor(g)'
    <3>1. OneDescriptor(g) /\ (Struck(g) => Struck(g)') /\ shard'[g] = shard[g]
      BY <1>1, <1>4, <2>1, StruckStays DEF Descriptors
    <3> QED
      BY <1>1, <3>1 DEF OneDescriptor
  <2>2. OneDescriptor(f)'
    <3>1. OneDescriptor(f) /\ shard'[f].fd = 0
      BY <1>1 DEF Descriptors, TypeOK
    <3> QED
      BY <1>1, <1>4, <3>1 DEF OneDescriptor
  <2> QED
    BY <2>1, <2>2 DEF Descriptors
<1>8. CountsExact'
  <2>1. Balanced(refs, user, kid, None) /\ refs[f] = 0
    BY <1>1, ExactIsBalanced DEF Alive
  <2>2. ASSUME NEW x \in Objects
        PROVE  refs'[x] = user'[x] + Held(kid, x) + None[x]
    <3>1. refs[x] = user[x] + Held(kid, x) + None[x] /\ Held(kid, x) \in Nat /\ None[x] = 0
      BY <2>1, HeldType DEF Balanced, None
    <3>2. user[x] \in Nat /\ refs[x] \in Nat
      BY LifetimeAssumption DEF TypeOK
    <3>3. CASE x = f
      BY <1>1, <1>2, <2>1, <3>1, <3>2, <3>3 DEF TypeOK
    <3>4. CASE x # f
      BY <1>1, <3>1, <3>4 DEF TypeOK
    <3> QED
      BY <3>3, <3>4
  <2> QED
    BY <1>1, <1>3, <2>2, ExactIsBalanced DEF Balanced
<1> QED
  BY <1>3, <1>5, <1>6, <1>7, <1>8

LEMMA InitOpenStep == ASSUME LInv, NEW f \in Files, InitOpen(f) PROVE LInv'
<1> USE DEF LInv
<1>1. shard[f].pc = "new" /\ UNCHANGED <<kid, refs, user>>
  BY DEF InitOpen
<1>2. \A g \in Files : g # f => shard'[g] = shard[g]
  BY DEF InitOpen, TypeOK
<1>3. shard'[f].pc \in {"opened", "failed", "pathless"}
  BY DEF InitOpen, TypeOK
<1>4. TypeOK'
  <2>1. shard' \in [Files -> [pc: Stages, fd: -1..MaxFd]]
    <3>1. \A i \in -1..MaxFd, pc \in {"opened", "failed"} :
            [shard EXCEPT ![f] = [pc |-> pc, fd |-> i]]
              \in [Files -> [pc: Stages, fd: -1..MaxFd]]
      BY DEF TypeOK, Stages
    <3>2. -1 \in -1..MaxFd /\ \A i \in 0..MaxFd : i \in -1..MaxFd
      BY LifetimeAssumption
    <3>3. [shard EXCEPT ![f].pc = "pathless"] \in [Files -> [pc: Stages, fd: -1..MaxFd]]
      BY DEF TypeOK, Stages
    <3> QED
      BY <3>1, <3>2, <3>3 DEF InitOpen
  <2>2. fds' \in [0..MaxFd -> Files \cup {FREE, ELSEWHERE}]
    BY DEF InitOpen, TypeOK
  <2> QED
    BY <1>1, <2>1, <2>2 DEF TypeOK
<1>5. Shape'
  <2>1. \A k \in Slots : kid[k].kind # "none" =>
          \E g \in Files : /\ kid[k].file = {g}
                           /\ shard'[g].pc = "ready" \/ (kid[k].kind = "dictionary" /\ shard'[g].pc = "finalized")
    BY <1>1, <1>2 DEF Shape, Shaped
  <2> QED
    BY <1>1, <2>1 DEF Shape, Shaped
<1>6. Alive'
  BY <1>1, <1>2, <1>3 DEF Alive
<1>7. Descriptors'
  <2>1. \A g \in Files : g # f => (Struck(g) => Struck(g)')
    BY <1>1, <1>2, StruckStays
  <2>2. CASE shard' = [shard EXCEPT ![f] = [pc |-> "failed", fd |-> -1]] /\ UNCHANGED fds
    <3>1. shard'[f].pc = "failed" /\ shard'[f].fd = -1
      BY <2>2 DEF TypeOK
    <3> QED
      BY <1>1, <1>2, <2>1, <2>2, <3>1 DEF Descriptors, OneDescriptor
  <2>3. CASE shard' = [shard EXCEPT ![f].pc = "pathless"] /\ UNCHANGED fds
    <3>1. shard'[f].pc = "pathless" /\ shard'[f].fd = shard[f].fd
      BY <2>3 DEF TypeOK
    <3> QED
      BY <1>1, <1>2, <2>1, <2>3, <3>1 DEF Descriptors, OneDescriptor
  <2>4. ASSUME NEW i \in 0..MaxFd, Lowest(i), fds' = [fds EXCEPT ![i] = f],
               shard' = [shard EXCEPT ![f] = [pc |-> "opened", fd |-> i]]
        PROVE  Descriptors'
    <3>1. shard'[f].pc = "opened" /\ shard'[f].fd = i
      BY <2>4 DEF TypeOK
    <3>2. fds'[i] = f /\ (\A j \in 0..MaxFd : j # i => fds'[j] = fds[j]) /\ fds[i] = FREE
      BY <2>4 DEF TypeOK, Lowest
    <3>3. \A j \in 0..MaxFd : fds[j] # f
      BY <1>1 DEF Descriptors, OneDescriptor
    <3>4. FREE \notin Files
      BY LifetimeAssumption
    <3>5. ASSUME NEW g \in Files
          PROVE  OneDescriptor(g)'
      <4>1. CASE g = f
        BY <3>1, <3>2, <3>3, <4>1 DEF OneDescriptor
      <4>2. CASE g # f
        <5>1. OneDescriptor(g) /\ shard'[g] = shard[g] /\ (Struck(g) => Struck(g)')
          BY <1>2, <2>1, <4>2 DEF Descriptors
        <5> QED
          BY <3>2, <3>4, <4>2, <5>1 DEF OneDescriptor
      <4> QED
        BY <4>1, <4>2
    <3> QED
      BY <3>5 DEF Descriptors
  <2> QED
    BY <2>2, <2>3, <2>4 DEF InitOpen
<1> QED
  BY <1>1, <1>4, <1>5, <1>6, <1>7 DEF CountsExact

LEMMA InitDetectStep == ASSUME LInv, NEW f \in Files, InitDetect(f) PROVE LInv'
<1> USE DEF LInv
<1>1. shard[f].pc = "opened" /\ UNCHANGED <<kid, refs, user>>
  BY DEF InitDetect
<1>2. \A g \in Files : g # f => shard'[g] = shard[g]
  BY DEF InitDetect, TypeOK
<1>3. shard'[f].pc \in {"ready", "failed"} /\ shard'[f].fd = shard[f].fd
  BY DEF InitDetect, TypeOK
<1>4. fds' \in [0..MaxFd -> Files \cup {FREE, ELSEWHERE}]
  BY DEF InitDetect, TypeOK, closed
<1>5. TypeOK'
  <2>1. \A pc \in {"ready", "failed"} :
          [shard[f] EXCEPT !.pc = pc] \in [pc: Stages, fd: -1..MaxFd]
    BY DEF TypeOK, Stages
  <2>2. shard' \in [Files -> [pc: Stages, fd: -1..MaxFd]]
    BY <2>1 DEF InitDetect, TypeOK
  <2> QED
    BY <1>1, <1>4, <2>2 DEF TypeOK
<1>6. Shape'
  <2>1. \A k \in Slots : kid[k].kind # "none" =>
          \E g \in Files : /\ kid[k].file = {g}
                           /\ shard'[g].pc = "ready" \/ (kid[k].kind = "dictionary" /\ shard'[g].pc = "finalized")
    BY <1>1, <1>2 DEF Shape, Shaped
  <2> QED
    BY <1>1, <2>1 DEF Shape, Shaped
<1>7. Alive'
  BY <1>1, <1>2, <1>3 DEF Alive
<1>8. Descriptors'
  <2>3. \A g \in Files : g # f => (Struck(g) => Struck(g)')
    BY <1>1, <1>2, StruckStays
  <2>4. Struck(f) => Struck(f)'
    <3>1. ZeroStruck => ZeroStruck'
      BY <1>1, <1>2 DEF ZeroStruck
    <3> QED
      BY <1>3, <3>1 DEF Struck
  <2>1. CASE f \notin Corrupt
    <3>1. fds' = fds /\ shard'[f].pc = "ready"
      BY <2>1 DEF InitDetect, TypeOK
    <3> QED
      BY <1>1, <1>2, <1>3, <2>3, <2>4, <3>1 DEF Descriptors, OneDescriptor
  <2>2. CASE f \in Corrupt
    <3>1. shard'[f].pc = "failed" /\ fds' = closed(fds, shard[f].fd)
      BY <2>2 DEF InitDetect, TypeOK
    <3>2. \A j \in 0..MaxFd : fds'[j] = IF j = shard[f].fd THEN FREE ELSE fds[j]
      BY <3>1 DEF closed, TypeOK
    <3>3. FREE \notin Files
      BY LifetimeAssumption
    <3> QED
      BY <1>2, <1>3, <2>2, <2>3, <3>1, <3>2, <3>3 DEF Descriptors, OneDescriptor
  <2> QED
    BY <2>1, <2>2
<1> QED
  BY <1>1, <1>5, <1>6, <1>7, <1>8 DEF CountsExact

\* The user takes another reference of an object that is there.
LEMMA MoreRefs ==
  ASSUME LInv, NEW x \in Objects, refs[x] > 0, user[x] < MaxRefs, UNCHANGED <<fds, shard, kid>>,
         refs' = [refs EXCEPT ![x] = @ + 1], user' = [user EXCEPT ![x] = @ + 1]
  PROVE  LInv'
<1> USE DEF LInv
<1>1. TypeOK'
  BY LifetimeAssumption DEF TypeOK
<1>2. \A y \in Objects : refs'[y] = 0 <=> refs[y] = 0
  BY DEF TypeOK
<1>3. Alive'
  BY <1>2 DEF Alive, Objects
<1>4. Balanced(refs, user, kid, None)
  BY ExactIsBalanced
<1>5. ASSUME NEW y \in Objects
      PROVE  refs'[y] = user'[y] + Held(kid, y) + None[y]
  <2>1. refs[y] = user[y] + Held(kid, y) + None[y] /\ Held(kid, y) \in Nat /\ None[y] = 0
    BY <1>4, HeldType DEF Balanced, None
  <2>2. user[y] \in Nat /\ refs[y] \in Nat
    BY LifetimeAssumption DEF TypeOK
  <2>3. CASE x = y
    BY <2>1, <2>2, <2>3 DEF TypeOK
  <2>4. CASE x # y
    BY <2>1, <2>4 DEF TypeOK
  <2> QED
    BY <2>3, <2>4
<1>6. CountsExact'
  BY <1>1, <1>5, ExactIsBalanced DEF Balanced
<1> QED
  BY <1>1, <1>3, <1>6 DEF Shape, Shaped, Descriptors, OneDescriptor, Struck, ZeroStruck

\* Nobody refers to what is not there, and what is referred to is there.
LEMMA AliveWhenHeld ==
  ASSUME LInv
  PROVE  /\ \A x \in Objects : user[x] > 0 => refs[x] > 0
         /\ \A x \in Objects : refs[x] = 0 => user[x] = 0 /\ Holding(kid, x) = {} /\ Using(kid, x) = {}
<1> USE DEF LInv
<1> SUFFICES ASSUME NEW x \in Objects
             PROVE  /\ user[x] > 0 => refs[x] > 0
                    /\ refs[x] = 0 => user[x] = 0 /\ Holding(kid, x) = {} /\ Using(kid, x) = {}
  OBVIOUS
<1>1. refs[x] = user[x] + Held(kid, x) + None[x] /\ None[x] = 0
  BY ExactIsBalanced DEF Balanced, None
<1>2. user[x] \in Nat /\ refs[x] \in Nat
  BY LifetimeAssumption DEF TypeOK
<1> QED
  BY <1>1, <1>2, HeldType

LEMMA RefStep == ASSUME LInv, NEW x \in Objects, Ref(x) PROVE LInv'
<1>1. user[x] > 0 /\ user[x] < MaxRefs
  BY LifetimeAssumption DEF Ref
<1>2. refs[x] > 0
  BY <1>1, AliveWhenHeld
<1> QED
  BY <1>1, <1>2, MoreRefs DEF Ref

LEMMA GetBlobStep == ASSUME LInv, NEW k \in Slots, GetBlob(k) PROVE LInv'
<1>1. PICK b \in kid[k].blob \cup kid[k].metadata :
        /\ user[b] < MaxRefs
        /\ refs' = [refs EXCEPT ![b] = @ + 1] /\ user' = [user EXCEPT ![b] = @ + 1]
  BY DEF GetBlob
<1>2. b \in Objects /\ b \in Slots
  BY DEF LInv, TypeOK, Objects
<1>3. refs[b] # 0
  BY <1>1, <1>2, AliveWhenHeld DEF Holding
<1>4. refs[b] \in Nat
  BY <1>2 DEF LInv, TypeOK
<1> QED
  <2>1. UNCHANGED <<fds, shard, kid>> /\ refs[b] > 0
    BY <1>3, <1>4 DEF GetBlob
  <2> QED
    BY <1>1, <1>2, <2>1, MoreRefs

LEMMA OneMoreType ==
  ASSUME LInv, NEW k \in Slots, UNCHANGED <<fds, shard>>,
         NEW o \in [kind: {"blob", "stream", "dictionary"}, file: SUBSET Files,
                    blob: SUBSET Slots, metadata: SUBSET Slots],
         kid' = [kid EXCEPT ![k] = o], user' = [user EXCEPT ![k] = 1], refs' \in [Objects -> Nat]
  PROVE  /\ TypeOK' /\ kid'[k] = o /\ \A j \in Slots : j # k => kid'[j] = kid[j]
         /\ \A x \in Objects : user'[x] = IF x = k THEN 1 ELSE user[x]
<1> USE DEF LInv
<1>1. o \in [kind: {"none", "record", "blob", "stream", "dictionary"}, file: SUBSET Files,
             blob: SUBSET Slots, metadata: SUBSET Slots]
  OBVIOUS
<1>2. 1 \in 0..MaxRefs
  BY LifetimeAssumption
<1> QED
  BY <1>1, <1>2 DEF TypeOK

\* An object more, and the references it takes: all but a record, which comes
\* with its blobs.
LEMMA OneMore ==
  ASSUME LInv, NEW k \in Slots, Vacant(k), UNCHANGED <<fds, shard>>,
         NEW o \in [kind: {"blob", "stream", "dictionary"}, file: SUBSET Files,
                    blob: SUBSET Slots, metadata: SUBSET Slots],
         Shaped(o, kid),
         TypeOK', kid'[k] = o, \A j \in Slots : j # k => kid'[j] = kid[j],
         \A x \in Objects : user'[x] = IF x = k THEN 1 ELSE user[x],
         \A x \in Objects : refs'[x] = IF x = k THEN 1 ELSE refs[x] + Weight(o, x)
  PROVE  LInv'
<1> USE DEF LInv
<1>1. k \in Objects /\ k \notin Files /\ kid[k] = Nothing /\ o.kind # "none" /\ refs[k] = 0
  BY LifetimeAssumption DEF Vacant, Shape, Shaped, Objects, Alive
<1>2. kid'[k] = o /\ (\A j \in Slots : j # k => kid'[j] = kid[j])
  OBVIOUS
<1>3. TypeOK'
  OBVIOUS
<1>4. user[k] = 0 /\ Holding(kid, k) = {} /\ Using(kid, k) = {}
  BY <1>1, AliveWhenHeld
<1>5. k \notin o.blob \cup o.metadata
  BY <1>1 DEF Shaped, Nothing
<1>6. \A x : Weight(o, x) \in Nat
  BY DEF Weight
<1>7. Shape'
  <2>1. Shaped(o, kid)'
    BY <1>2, <1>5 DEF Shaped
  <2>2. ASSUME NEW j \in Slots, j # k
        PROVE  Shaped(kid'[j], kid')
    <3>1. k \notin kid[j].blob \cup kid[j].metadata
      BY <1>4 DEF Holding
    <3>2. Shaped(kid[j], kid)
      BY DEF Shape
    <3>3. kid[j].blob \subseteq Slots /\ kid[j].metadata \subseteq Slots
      BY DEF TypeOK
    <3> QED
      BY <1>2, <2>2, <3>1, <3>2, <3>3 DEF Shaped
  <2> QED
    BY <1>2, <2>1, <2>2 DEF Shape, Shaped
<1>8. ASSUME NEW x \in Objects, x # k
      PROVE  refs'[x] = 0 <=> refs[x] = 0
  <2>1. ASSUME Weight(o, x) # 0
        PROVE  refs[x] # 0
    <3>1. CASE x \in o.blob \cup o.metadata
      <4>1. x \in Slots /\ kid[x].kind = "blob"
        BY <3>1 DEF Shaped
      <4> QED
        BY <4>1 DEF Alive
    <3>2. CASE o.kind # "dictionary" /\ x \in o.file
      <4>1. x \in Files /\ shard[x].pc = "ready"
        BY <1>1, <3>2 DEF Shaped
      <4> QED
        BY <4>1 DEF Alive
    <3> QED
      BY <2>1, <3>1, <3>2 DEF Weight
  <2>2. refs[x] \in Nat /\ refs'[x] = refs[x] + Weight(o, x)
    BY <1>8 DEF TypeOK
  <2> QED
    BY <1>6, <2>1, <2>2
<1>9. Alive'
  <2>1. refs'[k] = 1 /\ kid'[k].kind # "none"
    BY <1>1, <1>2
  <2>2. \A j \in Slots : j # k => (kid'[j].kind = "none" <=> refs'[j] = 0)
    BY <1>2, <1>8 DEF Alive, Objects
  <2>3. \A f \in Files : shard'[f].pc \in {"none", "finalized", "discarded"} <=> refs'[f] = 0
    BY <1>1, <1>8 DEF Alive, Objects
  <2> QED
    BY <2>1, <2>2, <2>3 DEF Alive
<1>10. CountsExact'
  <2>1. \A x : Held(kid', x) = Held(kid, x) + Weight(o, x)
    <3> SUFFICES ASSUME NEW L, L = kid', NEW x
                 PROVE  Held(L, x) = Held(kid, x) + Weight(o, x)
      OBVIOUS
    <3>1. L[k] = o /\ kid[k] = Nothing /\ \A j \in Slots : j # k => L[j] = kid[j]
      BY <1>1, <1>2
    <3>2. Held(L, x) = Held(kid, x) + Weight(L[k], x)
      BY <3>1, HeldMore
    <3> QED
      BY <3>1, <3>2
  <2>2. Balanced(refs, user, kid, None)
    BY ExactIsBalanced
  <2>3. ASSUME NEW x \in Objects
        PROVE  refs'[x] = user'[x] + Held(kid', x) + None[x]
    <3>1. refs[x] = user[x] + Held(kid, x) + None[x] /\ Held(kid, x) \in Nat /\ None[x] = 0
      BY <2>2, HeldType DEF Balanced, None
    <3>2. user[x] \in Nat /\ refs[x] \in Nat
      BY LifetimeAssumption DEF TypeOK
    <3>3. Held(kid', x) = Held(kid, x) + Weight(o, x) /\ Weight(o, x) \in Nat
      BY <1>6, <2>1
    <3>4. CASE x = k
      <4>1. Weight(o, x) = 0
        BY <1>1, <1>5, <3>4 DEF Weight
      <4>2. refs'[x] = 1 /\ user'[x] = 1 /\ refs[x] = 0 /\ user[x] = 0
        BY <1>1, <1>4, <3>4
      <4> QED
        BY <3>1, <3>3, <4>1, <4>2
    <3>5. CASE x # k
      <4>1. user'[x] = user[x] /\ refs'[x] = refs[x] + Weight(o, x)
        BY <3>5
      <4> QED
        BY <3>1, <3>2, <3>3, <4>1
    <3> QED
      BY <3>4, <3>5
  <2> QED
    BY <1>3, <2>3, ExactIsBalanced DEF Balanced
<1>11. Descriptors'
  BY DEF Descriptors, OneDescriptor, Struck, ZeroStruck
<1> QED
  BY <1>3, <1>7, <1>9, <1>10, <1>11

LEMMA LookupBlobStep == ASSUME LInv, NEW k \in Slots, NEW b \in Slots, LookupBlob(k, b) PROVE LInv'
<1> DEFINE o == Blob(kid[k].file)
<1>1. /\ user[k] > 0 /\ kid[k].kind = "record" /\ Vacant(b) /\ UNCHANGED <<fds, shard>>
      /\ kid' = [kid EXCEPT ![b] = o] /\ user' = [user EXCEPT ![b] = 1]
      /\ refs' = [x \in Objects |-> IF x = b THEN 1 ELSE IF x \in kid[k].file THEN refs[x] + 1 ELSE refs[x]]
  BY DEF LookupBlob
<1>2. o \in [kind: {"blob", "stream", "dictionary"}, file: SUBSET Files, blob: SUBSET Slots, metadata: SUBSET Slots]
  BY DEF LInv, TypeOK, Blob
<1>3. o.kind = "blob" /\ o.file = kid[k].file /\ o.blob = {} /\ o.metadata = {}
  BY DEF Blob
<1>4. Shaped(o, kid)
  BY <1>1, <1>3 DEF LInv, Shape, Shaped, Optional
<1>5. \A x : Weight(o, x) = IF x \in kid[k].file THEN 1 ELSE 0
  BY <1>3 DEF Weight
<1>6. refs' \in [Objects -> Nat] /\ \A x \in Objects : refs'[x] = IF x = b THEN 1 ELSE refs[x] + Weight(o, x)
  BY <1>1, <1>5 DEF LInv, TypeOK
<1> QED
  <2> HIDE DEF o
  <2>1. /\ TypeOK' /\ kid'[b] = o /\ \A j \in Slots : j # b => kid'[j] = kid[j]
        /\ \A x \in Objects : user'[x] = IF x = b THEN 1 ELSE user[x]
    BY <1>1, <1>2, <1>6, OneMoreType
  <2> QED
    BY <1>1, <1>2, <1>4, <1>6, <2>1, OneMore

LEMMA GetStreamStep == ASSUME LInv, NEW b \in Slots, NEW s \in Slots, GetStream(b, s) PROVE LInv'
<1> DEFINE o == [kind |-> "stream", file |-> kid[b].file, blob |-> {b}, metadata |-> {}]
<1>1. /\ user[b] > 0 /\ kid[b].kind = "blob" /\ Vacant(s) /\ UNCHANGED <<fds, shard>>
      /\ kid' = [kid EXCEPT ![s] = o] /\ user' = [user EXCEPT ![s] = 1]
  BY DEF GetStream
<1>2. PICK f \in kid[b].file :
        refs' = [x \in Objects |-> IF x = s THEN 1 ELSE IF x \in {b, f} THEN refs[x] + 1 ELSE refs[x]]
  BY DEF GetStream, stream_new
<1>3. o \in [kind: {"blob", "stream", "dictionary"}, file: SUBSET Files, blob: SUBSET Slots, metadata: SUBSET Slots]
  BY DEF LInv, TypeOK
<1>4. o.kind = "stream" /\ o.file = kid[b].file /\ o.blob = {b} /\ o.metadata = {}
  OBVIOUS
<1>5. Shaped(o, kid) /\ kid[b].file = {f} /\ f \in Files
  BY <1>1, <1>2, <1>4 DEF LInv, Shape, Shaped, Optional
<1>6. \A x : Weight(o, x) = (IF x = b THEN 1 ELSE 0) + (IF x = f THEN 1 ELSE 0)
  BY <1>4, <1>5 DEF Weight
<1>7. s # b /\ f # s /\ f # b
  BY <1>1, <1>5, LifetimeAssumption DEF Vacant
<1>8. s \in Objects /\ b \in Objects /\ f \in Objects
  BY <1>5 DEF Objects
<1>9. refs' \in [Objects -> Nat] /\ \A x \in Objects : refs'[x] = IF x = s THEN 1 ELSE refs[x] + Weight(o, x)
  <2> HIDE DEF o
  <2>1. refs' \in [Objects -> Nat]
    BY <1>2, <1>8 DEF LInv, TypeOK
  <2>2. \A x \in Objects : refs[x] \in Nat
                           /\ refs'[x] = IF x = s THEN 1 ELSE IF x = b \/ x = f THEN refs[x] + 1 ELSE refs[x]
    BY <1>2, <1>7, <1>8 DEF LInv, TypeOK
  <2> QED
    BY <1>6, <1>7, <2>1, <2>2
<1> QED
  <2> HIDE DEF o
  <2>1. LInv'
    <3>1. /\ TypeOK' /\ kid'[s] = o /\ \A j \in Slots : j # s => kid'[j] = kid[j]
          /\ \A x \in Objects : user'[x] = IF x = s THEN 1 ELSE user[x]
      BY <1>1, <1>3, <1>9, OneMoreType
    <3>2. Vacant(s) /\ UNCHANGED <<fds, shard>> /\ Shaped(o, kid)
      BY <1>1, <1>5
    <3>3. \A x \in Objects : refs'[x] = IF x = s THEN 1 ELSE refs[x] + Weight(o, x)
      BY <1>9
    <3> QED
      BY <1>3, <3>1, <3>2, <3>3, OneMore
  <2> QED
    BY <2>1

LEMMA LoadAsDictionaryStep == ASSUME LInv, NEW b \in Slots, NEW d \in Slots, LoadAsDictionary(b, d) PROVE LInv'
<1> DEFINE o == [kind |-> "dictionary", file |-> kid[b].file, blob |-> {}, metadata |-> {}]
<1>1. /\ user[b] > 0 /\ kid[b].kind = "blob" /\ Vacant(d) /\ UNCHANGED <<fds, shard>>
      /\ kid' = [kid EXCEPT ![d] = o] /\ user' = [user EXCEPT ![d] = 1] /\ refs' = [refs EXCEPT ![d] = 1]
  BY DEF LoadAsDictionary
<1>2. o \in [kind: {"blob", "stream", "dictionary"}, file: SUBSET Files, blob: SUBSET Slots, metadata: SUBSET Slots]
  BY DEF LInv, TypeOK
<1>3. o.kind = "dictionary" /\ o.file = kid[b].file /\ o.blob = {} /\ o.metadata = {}
  OBVIOUS
<1>4. Shaped(o, kid)
  BY <1>1, <1>3 DEF LInv, Shape, Shaped, Optional
<1>5. \A x : Weight(o, x) = 0
  BY <1>3 DEF Weight
<1>6. refs' \in [Objects -> Nat] /\ \A x \in Objects : refs'[x] = IF x = d THEN 1 ELSE refs[x] + Weight(o, x)
  <2> HIDE DEF o
  <2>1. refs' \in [Objects -> Nat] /\ \A x \in Objects : refs[x] \in Nat /\ refs'[x] = IF x = d THEN 1 ELSE refs[x]
    BY <1>1 DEF LInv, TypeOK, Objects
  <2> QED
    BY <1>5, <2>1
<1> QED
  <2> HIDE DEF o
  <2>1. /\ TypeOK' /\ kid'[d] = o /\ \A j \in Slots : j # d => kid'[j] = kid[j]
        /\ \A x \in Objects : user'[x] = IF x = d THEN 1 ELSE user[x]
    BY <1>1, <1>2, <1>6, OneMoreType
  <2> QED
    BY <1>1, <1>2, <1>4, <1>6, <2>1, OneMore

\* A record and its blobs: each of them takes a reference of the shard file.
LEMMA FindRecordStep ==
  ASSUME LInv, NEW f \in Files, NEW k \in Slots, NEW data \in Optional(Slots), NEW metadata \in Optional(Slots),
         FindRecord(f, k, data, metadata)
  PROVE  LInv'
<1> USE DEF LInv
<1> DEFINE blobs == data \cup metadata
           new == {k} \cup blobs
           record == [kind |-> "record", file |-> {f}, blob |-> data, metadata |-> metadata]
<1>1. /\ user[f] > 0 /\ shard[f].pc = "ready" /\ data \cap metadata = {} /\ UNCHANGED <<fds, shard>>
      /\ Vacant(k) /\ \A b \in blobs : Vacant(b) /\ b # k
      /\ kid' = [x \in Slots |-> IF x = k THEN record ELSE IF x \in blobs THEN Blob({f}) ELSE kid[x]]
      /\ refs' = [x \in Objects |-> IF x = k \/ x \in blobs THEN 1
                                    ELSE IF x = f THEN refs[f] + 1 + Cardinality(blobs) ELSE refs[x]]
      /\ user' = [user EXCEPT ![k] = 1]
  BY DEF FindRecord, record_new
<1>2. /\ data \subseteq Slots /\ metadata \subseteq Slots /\ new \subseteq Slots /\ new \subseteq Objects
      /\ f \in Objects /\ f \notin Slots /\ k \in Objects /\ k \in new /\ blobs \subseteq new
  BY LifetimeAssumption DEF Optional, Objects
<1>3. \A n \in new : kid[n] = Nothing /\ refs[n] = 0 /\ user[n] = 0 /\ Holding(kid, n) = {} /\ Using(kid, n) = {}
  <2> SUFFICES ASSUME NEW n \in new
               PROVE  kid[n] = Nothing /\ refs[n] = 0
    BY <1>2, AliveWhenHeld
  <2>1. n \in Slots /\ kid[n].kind = "none"
    BY <1>1, <1>2 DEF Vacant
  <2> QED
    BY <2>1 DEF Shape, Shaped, Alive
<1>4. IsFiniteSet(blobs) /\ Cardinality(blobs) \in Nat /\ IsFiniteSet(new) /\ Cardinality(new) = Cardinality(blobs) + 1
  <2>1. IsFiniteSet(blobs)
    BY <1>2, LifetimeAssumption, FS_Subset
  <2>2. k \notin blobs /\ new = blobs \cup {k}
    BY <1>1
  <2> HIDE DEF blobs, new
  <2> QED
    BY <2>1, <2>2, FS_AddElement, FS_CardinalityType
<1>5. /\ record.kind = "record" /\ record.file = {f} /\ record.blob = data /\ record.metadata = metadata
      /\ Blob({f}).kind = "blob" /\ Blob({f}).file = {f} /\ Blob({f}).blob = {} /\ Blob({f}).metadata = {}
  BY DEF Blob
<1>6. /\ kid'[k] = record
      /\ \A b \in blobs : kid'[b] = Blob({f})
      /\ \A x \in Slots : x \notin new => kid'[x] = kid[x]
  BY <1>1, <1>2
<1>7. refs[f] \in Nat /\ refs[f] # 0
  BY <1>1, <1>2 DEF TypeOK, Alive
<1>8. TypeOK'
  <2> DEFINE Kid == [kind: {"none", "record", "blob", "stream", "dictionary"}, file: SUBSET Files,
                     blob: SUBSET Slots, metadata: SUBSET Slots]
  <2>1. record \in Kid /\ Blob({f}) \in Kid
    BY <1>2 DEF Blob
  <2>2. kid' \in [Slots -> Kid]
    <3> HIDE DEF record, blobs, Kid
    <3>1. kid \in [Slots -> Kid]
      BY DEF TypeOK, Kid
    <3> QED
      BY <1>1, <2>1, <3>1
  <2>3. refs' \in [Objects -> Nat]
    <3> HIDE DEF blobs, record
    <3>1. refs[f] + 1 + Cardinality(blobs) \in Nat /\ \A x \in Objects : refs[x] \in Nat
      BY <1>4, <1>7 DEF TypeOK
    <3>2. refs' = [x \in Objects |-> IF x = k \/ x \in blobs THEN 1
                                    ELSE IF x = f THEN refs[f] + 1 + Cardinality(blobs) ELSE refs[x]]
      BY <1>1
    <3> QED
      BY <3>1, <3>2
  <2>4. user' \in [Objects -> 0..MaxRefs]
    <3> HIDE DEF blobs, record
    <3>1. user' = [user EXCEPT ![k] = 1] /\ user \in [Objects -> 0..MaxRefs]
      BY <1>1 DEF TypeOK
    <3>2. 1 \in 0..MaxRefs
      BY LifetimeAssumption
    <3> QED
      BY <3>1, <3>2
  <2> QED
    BY <1>1, <2>2, <2>3, <2>4 DEF TypeOK
<1>9. \A n \in new, x \in Slots : x \notin new => n \notin kid[x].blob \cup kid[x].metadata
  BY <1>3 DEF Holding
<1> HIDE DEF record, new, blobs
<1>10. Shape'
  <2>1. Shaped(kid'[k], kid')
    <3>1. \A b \in data \cup metadata : kid'[b] = Blob({f})
      BY <1>6 DEF blobs
    <3> QED
      BY <1>1, <1>5, <1>6, <3>1 DEF Shaped
  <2>2. ASSUME NEW b \in blobs
        PROVE  Shaped(kid'[b], kid')
    <3>1. {} \in Optional(Slots)
      BY DEF Optional
    <3> QED
      BY <1>1, <1>5, <1>6, <3>1 DEF Shaped
  <2>3. ASSUME NEW x \in Slots, x \notin new
        PROVE  Shaped(kid'[x], kid')
    <3>1. \A b \in kid[x].blob \cup kid[x].metadata : b \in Slots /\ b \notin new
      BY <1>9, <2>3 DEF TypeOK
    <3>2. \A b \in kid[x].blob \cup kid[x].metadata : kid'[b] = kid[b]
      BY <1>6, <3>1
    <3>3. Shaped(kid[x], kid) /\ kid'[x] = kid[x]
      BY <1>6, <2>3 DEF Shape
    <3> QED
      BY <3>2, <3>3 DEF Shaped
  <2>4. \A x \in Slots : Shaped(kid'[x], kid')
    BY <2>1, <2>2, <2>3 DEF new
  <2>5. shard' = shard
    BY <1>1
  <2> QED
    BY <2>4, <2>5 DEF Shape, Shaped
<1>11. Alive'
  <2>1. \A n \in new : refs'[n] = 1 /\ kid'[n].kind # "none"
    BY <1>1, <1>2, <1>5, <1>6 DEF new
  <2>2. \A x \in Slots : x \notin new => refs'[x] = refs[x] /\ kid'[x] = kid[x]
    BY <1>1, <1>2, <1>6 DEF new, Objects
  <2>3. refs'[f] # 0
    BY <1>1, <1>2, <1>4, <1>7 DEF new
  <2>4. \A g \in Files : g # f => refs'[g] = refs[g]
    BY <1>1, <1>2, LifetimeAssumption DEF new, Objects
  <2>5. \A x \in Slots : kid'[x].kind = "none" <=> refs'[x] = 0
    BY <2>1, <2>2 DEF Alive
  <2>6. \A g \in Files : shard'[g].pc \in {"none", "finalized", "discarded"} <=> refs'[g] = 0
    <3>1. shard' = shard
      BY <1>1
    <3> QED
      BY <1>1, <2>3, <2>4, <3>1 DEF Alive
  <2> QED
    BY <2>5, <2>6 DEF Alive
<1>12. CountsExact'
  <2> SUFFICES ASSUME NEW x \in Objects
               PROVE  refs'[x] = user'[x] + Held(kid', x) + None[x]
    BY <1>8, ExactIsBalanced DEF Balanced
  <2>1. /\ refs[x] = user[x] + Held(kid, x) + None[x] /\ Held(kid, x) \in Nat /\ None[x] = 0
        /\ user[x] \in Nat /\ refs[x] \in Nat
    BY ExactIsBalanced, HeldType, LifetimeAssumption DEF Balanced, None, TypeOK
  <2>2. /\ IsFiniteSet(Holding(kid, x)) /\ Cardinality(Holding(kid, x)) \in Nat
        /\ IsFiniteSet(Using(kid, x)) /\ Cardinality(Using(kid, x)) \in Nat
    BY Finite
  <2>3. new \cap Using(kid, x) = {} /\ new \cap Holding(kid, x) = {}
    BY <1>3 DEF Using, Holding, Nothing
  <2>4. Holding(kid', x) = IF x \in blobs THEN Holding(kid, x) \cup {k} ELSE Holding(kid, x)
    <3>1. \A j \in Slots : x \in kid'[j].blob \cup kid'[j].metadata <=>
             (j \notin new /\ x \in kid[j].blob \cup kid[j].metadata) \/ (j = k /\ x \in blobs)
      <4>1. \A j \in Slots : j \notin new => kid'[j] = kid[j]
        BY <1>6
      <4>2. \A j \in Slots : j \in blobs => kid'[j].blob = {} /\ kid'[j].metadata = {}
        BY <1>5, <1>6
      <4>3. kid'[k].blob \cup kid'[k].metadata = blobs
        BY <1>5, <1>6 DEF blobs
      <4>4. \A b \in blobs : b # k
        BY <1>1
      <4>5. new = {k} \cup blobs
        BY DEF new
      <4> QED
        BY <4>1, <4>2, <4>3, <4>4, <4>5
    <3> QED
      BY <2>3, <3>1 DEF Holding
  <2>5. Using(kid', x) = IF x = f THEN Using(kid, x) \cup new ELSE Using(kid, x)
    <3>1. \A n \in new : kid'[n].kind # "dictionary" /\ kid'[n].file = {f}
      BY <1>5, <1>6 DEF new
    <3> QED
      BY <1>2, <1>6, <2>3, <3>1 DEF Using
  <2>6. CASE x \in new
    <3>1. x # f /\ x \in Slots /\ refs'[x] = 1
      BY <1>1, <1>2, <2>6 DEF new
    <3>2. refs[x] = 0 /\ user[x] = 0 /\ Holding(kid, x) = {} /\ Using(kid, x) = {}
      BY <1>3, <2>6
    <3>3. Cardinality({}) = 0 /\ Cardinality({k}) = 1
      BY FS_EmptySet, FS_Singleton
    <3>4. CASE x = k
      <4>1. x \notin blobs /\ user'[x] = 1
        BY <1>1, <1>2, <3>4 DEF TypeOK
      <4> QED
        BY <2>1, <2>4, <2>5, <3>1, <3>2, <3>3, <4>1 DEF Held
    <3>5. CASE x # k
      <4>1. x \in blobs /\ user'[x] = 0
        BY <1>1, <1>2, <2>6, <3>2, <3>5 DEF TypeOK, new
      <4>2. Holding(kid', x) = {k} /\ Using(kid', x) = {}
        BY <2>4, <2>5, <3>1, <3>2, <4>1
      <4> QED
        BY <2>1, <3>1, <3>3, <4>1, <4>2 DEF Held
    <3> QED
      BY <3>4, <3>5
  <2>7. CASE x \notin new
    <3>1. x \notin blobs /\ x # k
      BY <2>7 DEF new
    <3>2. user'[x] = user[x] /\ refs'[x] = IF x = f THEN refs[x] + 1 + Cardinality(blobs) ELSE refs[x]
      BY <1>1, <3>1 DEF TypeOK
    <3>3. Cardinality(Using(kid, x) \cup new) = Cardinality(Using(kid, x)) + Cardinality(new)
      <4>1. Cardinality(Using(kid, x) \cup new) =
              Cardinality(Using(kid, x)) + Cardinality(new) - Cardinality(Using(kid, x) \cap new)
        BY <1>4, <2>2, FS_Union
      <4>2. Using(kid, x) \cap new = {} /\ Cardinality({}) = 0
        BY <2>3, FS_EmptySet
      <4>3. Cardinality(Using(kid, x) \cap new) = 0 /\ Cardinality(new) \in Nat
        BY <1>4, <4>2
      <4> QED
        BY <2>2, <4>1, <4>3
    <3> QED
      BY <1>4, <2>1, <2>2, <2>4, <2>5, <3>1, <3>2, <3>3 DEF Held
  <2> QED
    BY <2>6, <2>7
<1>13. Descriptors'
  BY <1>1 DEF Descriptors, OneDescriptor, Struck, ZeroStruck
<1> QED
  BY <1>8, <1>10, <1>11, <1>12, <1>13

----------------------------------------------------------------------------
\* Dropping references.  What has not been dropped yet is a debt, and the
\* counts are always those of what is left and of the debts.

LEMMA LessValues ==
  ASSUME NEW c \in [Objects -> Int], NEW x \in Objects
  PROVE  /\ less(c, x) \in [Objects -> Int]
         /\ \A y \in Objects : less(c, x)[y] = IF y = x THEN c[y] - 1 ELSE c[y]
  BY DEF less

\* An object that refers to a file refers to one.
LEMMA FileOfKid ==
  ASSUME LInv, NEW k \in Slots, kid[k].kind # "none"
  PROVE  kid[k].file = {FileOf(k)} /\ FileOf(k) \in Files /\ FileOf(k) \in Objects /\ FileOf(k) \notin Slots
<1>1. PICK f \in Files : kid[k].file = {f}
  BY DEF LInv, Shape, Shaped
<1>2. FileOf(k) = f
  BY <1>1 DEF FileOf
<1> QED
  BY <1>1, <1>2, LifetimeAssumption DEF Objects

\* The slots when those of D whose count is zero are freed.
Freed(K, D, c) == [k \in Slots |-> IF k \in D /\ c[k] = 0 THEN Nothing ELSE K[k]]

\* A debt that leaves rest when one reference to each member of D is dropped.
Owes(debt, rest, D) == \A x \in Objects : debt[x] = rest[x] + (IF x \in D THEN 1 ELSE 0)

\* What becomes of the counts when one reference to each member of D is
\* dropped, with all that hangs on it.
Dropping(c, d, D) ==
  /\ d \in [Objects -> Int]
  /\ \A x \in Objects : d[x] <= c[x]
  /\ \A k \in Slots : d[k] = IF k \in D THEN c[k] - 1 ELSE c[k]

\* eos_shard_blob_unref pays the debt of one reference to a blob.
LEMMA BlobUnref ==
  ASSUME LInv, NEW c \in [Objects -> Int], NEW u \in [Objects -> Nat], NEW K,
         NEW b \in Slots, kid[b].kind = "blob", K[b] = kid[b],
         NEW debt \in [Objects -> Nat], NEW rest \in [Objects -> Nat],
         Owes(debt, rest, {b}),
         Balanced(c, u, K, debt), NEW d, d = blob_unref(c, b)
  PROVE  Dropping(c, d, {b}) /\ Balanced(d, u, Freed(K, {b}, d), rest)
<1> DEFINE f == FileOf(b)
           c1 == less(c, b)
<1>1. kid[b].file = {f} /\ f \in Objects /\ f \notin Slots /\ b \in Objects /\ f # b
  BY FileOfKid DEF Objects
<1>2. kid[b].blob = {} /\ kid[b].metadata = {} /\ kid[b].kind # "dictionary"
  BY DEF LInv, Shape, Shaped
<1>3. c1 \in [Objects -> Int] /\ \A x \in Objects : c1[x] = IF x = b THEN c[x] - 1 ELSE c[x]
  BY <1>1, LessValues
<1>4. d = IF c1[b] = 0 THEN less(c1, f) ELSE c1
  BY DEF blob_unref
<1> HIDE DEF c1, f
<1>5. \A x \in Objects : c1[x] = u[x] + Held(K, x) + rest[x]
  <2> SUFFICES ASSUME NEW x \in Objects
               PROVE  c1[x] = u[x] + Held(K, x) + rest[x]
    OBVIOUS
  <2>1. c[x] = u[x] + Held(K, x) + debt[x] /\ Held(K, x) \in Nat
    BY HeldType DEF Balanced
  <2>2. u[x] \in Nat /\ rest[x] \in Nat /\ debt[x] = rest[x] + (IF x = b THEN 1 ELSE 0)
    BY DEF Owes
  <2> QED
    BY <1>3, <2>1, <2>2
<1>6. CASE c1[b] # 0
  <2>1. d = c1
    BY <1>4, <1>6
  <2>2. \A k \in Slots : Freed(K, {b}, d)[k] = K[k]
    BY <1>6, <2>1 DEF Freed
  <2>3. \A x : Held(Freed(K, {b}, d), x) = Held(K, x)
    BY <2>2, HeldSame
  <2>4. Balanced(d, u, Freed(K, {b}, d), rest)
    BY <1>5, <2>1, <2>3 DEF Balanced
  <2>5. (\A x \in Objects : d[x] <= c[x]) /\ \A k \in Slots : d[k] = IF k = b THEN c[k] - 1 ELSE c[k]
    BY <1>3, <2>1 DEF Objects
  <2> QED
    BY <1>3, <2>1, <2>4, <2>5 DEF Dropping
<1>7. CASE c1[b] = 0
  <2>1. d \in [Objects -> Int] /\ \A x \in Objects : d[x] = IF x = f THEN c1[x] - 1 ELSE c1[x]
    BY <1>1, <1>3, <1>4, <1>7, LessValues
  <2> DEFINE L == Freed(K, {b}, d)
  <2>2. L[b] = Nothing /\ \A k \in Slots : k # b => K[k] = L[k]
    BY <1>1, <1>7, <2>1 DEF Freed
  <2> HIDE DEF L
  <2>3. \A x : Held(K, x) = Held(L, x) + Weight(K[b], x)
    BY <2>2, HeldMore
  <2>4. \A x : Weight(K[b], x) = IF x = f THEN 1 ELSE 0
    BY <1>1, <1>2 DEF Weight
  <2>5. ASSUME NEW x \in Objects
        PROVE  d[x] = u[x] + Held(L, x) + rest[x]
    <3>1. c1[x] = u[x] + Held(K, x) + rest[x] /\ Held(K, x) \in Nat /\ Held(L, x) \in Nat
      BY <1>5, HeldType
    <3>2. Held(K, x) = Held(L, x) + (IF x = f THEN 1 ELSE 0)
      BY <2>3, <2>4
    <3>3. u[x] \in Nat /\ rest[x] \in Nat
      OBVIOUS
    <3> QED
      BY <2>1, <3>1, <3>2, <3>3
  <2>6. (\A x \in Objects : d[x] <= c[x]) /\ \A k \in Slots : d[k] = IF k = b THEN c[k] - 1 ELSE c[k]
    <3>1. \A x \in Objects : c1[x] <= c[x] /\ c1[x] \in Int /\ c[x] \in Int
      BY <1>3
    <3>2. \A k \in Slots : d[k] = c1[k]
      BY <1>1, <2>1 DEF Objects
    <3> QED
      BY <1>3, <2>1, <3>1, <3>2 DEF Objects
  <2> QED
    BY <2>1, <2>5, <2>6 DEF Balanced, L, Dropping
<1> QED
  BY <1>6, <1>7

\* g_clear_pointer does so when there is a blob.
LEMMA ClearBlob ==
  ASSUME LInv, NEW c \in [Objects -> Int], NEW u \in [Objects -> Nat], NEW K,
         NEW D \in Optional(Slots), \A b \in D : kid[b].kind = "blob" /\ K[b] = kid[b],
         NEW debt \in [Objects -> Nat], NEW rest \in [Objects -> Nat],
         Owes(debt, rest, D),
         Balanced(c, u, K, debt), NEW d, d = clear_blob(c, D)
  PROVE  Dropping(c, d, D) /\ Balanced(d, u, Freed(K, D, d), rest)
<1>1. CASE D = {}
  <2>1. clear_blob(c, D) = c
    BY <1>1 DEF clear_blob
  <2>2. \A k \in Slots : Freed(K, D, c)[k] = K[k]
    BY <1>1 DEF Freed
  <2>3. \A x : Held(Freed(K, D, c), x) = Held(K, x)
    BY <2>2, HeldSame
  <2>4. \A x \in Objects : debt[x] = rest[x]
    BY <1>1 DEF Owes
  <2>5. Balanced(c, u, Freed(K, D, c), rest)
    BY <2>3, <2>4 DEF Balanced
  <2>6. (\A x \in Objects : c[x] <= c[x]) /\ \A k \in Slots : c[k] = IF k \in D THEN c[k] - 1 ELSE c[k]
    <3>1. \A x \in Objects : c[x] \in Int
      OBVIOUS
    <3> QED
      BY <1>1, <3>1
  <2>7. d = c
    BY <2>1
  <2> QED
    BY <2>5, <2>6, <2>7 DEF Dropping
<1>2. ASSUME NEW b \in Slots, D = {b}
      PROVE  Dropping(c, d, D) /\ Balanced(d, u, Freed(K, D, d), rest)
  <2>1. d = blob_unref(c, b)
    <3>1. (CHOOSE e \in {b} : TRUE) = b
      OBVIOUS
    <3> QED
      BY <1>2, <3>1 DEF clear_blob
  <2>2. kid[b].kind = "blob" /\ K[b] = kid[b]
    BY <1>2
  <2>3. Owes(debt, rest, {b})
    BY <1>2
  <2>4. Dropping(c, d, {b}) /\ Balanced(d, u, Freed(K, {b}, d), rest)
    BY <2>1, <2>2, <2>3, BlobUnref
  <2> QED
    BY <1>2, <2>4
<1> QED
  BY <1>1, <1>2 DEF Optional

LEMMA BalancedSame ==
  ASSUME NEW c, NEW u, NEW K, NEW L, NEW debt, Balanced(c, u, K, debt), \A k \in Slots : K[k] = L[k]
  PROVE  Balanced(c, u, L, debt)
<1>1. \A x : Held(K, x) = Held(L, x)
  BY HeldSame
<1> QED
  BY <1>1 DEF Balanced

\* What is left in the slots: an object whose count has come to zero is gone.
Left(c) == [k \in Slots |-> IF refs[k] > 0 /\ c[k] = 0 THEN Nothing ELSE kid[k]]

\* The counts when one reference to x is dropped.
OneLess(c, x) == \A y \in Objects : c[y] = IF y = x THEN refs[y] - 1 ELSE refs[y]

\* The reference of the user is dropped.
LEMMA UserDrops ==
  ASSUME LInv, NEW x \in Objects, user[x] > 0, NEW u, u = [user EXCEPT ![x] = @ - 1],
         NEW c, c = less(refs, x)
  PROVE  /\ u \in [Objects -> Nat] /\ c \in [Objects -> Int] /\ OneLess(c, x)
         /\ Balanced(c, u, kid, None)
         /\ refs[x] > 0
<1>1. refs \in [Objects -> Nat] /\ refs \in [Objects -> Int] /\ user \in [Objects -> Nat]
  BY LifetimeAssumption DEF LInv, TypeOK
<1>2. u \in [Objects -> Nat] /\ \A y \in Objects : u[y] = IF y = x THEN user[y] - 1 ELSE user[y]
  BY <1>1
<1>3. c \in [Objects -> Int] /\ \A y \in Objects : c[y] = IF y = x THEN refs[y] - 1 ELSE refs[y]
  BY <1>1, LessValues
<1>4. ASSUME NEW y \in Objects
      PROVE  refs[y] = user[y] + Held(kid, y) + None[y] /\ Held(kid, y) \in Nat /\ None[y] = 0
  BY ExactIsBalanced, HeldType DEF LInv, Balanced, None
<1>5. ASSUME NEW y \in Objects
      PROVE  c[y] = u[y] + Held(kid, y) + None[y]
  BY <1>1, <1>2, <1>3, <1>4
<1>6. refs[x] > 0
  <2>1. refs[x] = user[x] + Held(kid, x) + None[x] /\ Held(kid, x) \in Nat /\ None[x] = 0 /\ user[x] \in Nat
    BY <1>1, <1>4
  <2> QED
    BY <2>1
<1> QED
  BY <1>2, <1>3, <1>5, <1>6 DEF Balanced, OneLess

\* What a call may leave: the counts of what is left, and none is greater.
Dropped(d, u) ==
  /\ d \in [Objects -> Int]
  /\ Balanced(d, u, Left(d), None)
  /\ \A y \in Objects : d[y] <= refs[y]

\* An object that still has references, or that holds none.
LEMMA PlainUnref ==
  ASSUME LInv, NEW x \in Objects, user[x] > 0, NEW u, u = [user EXCEPT ![x] = @ - 1],
         NEW c, c = less(refs, x),
         c[x] # 0 \/ x \in Files \/ kid[x].kind = "dictionary"
  PROVE  Dropped(c, u)
<1>1. /\ c \in [Objects -> Int] /\ u \in [Objects -> Nat] /\ OneLess(c, x)
      /\ Balanced(c, u, kid, None) /\ refs[x] > 0
  BY UserDrops
<1>2. \A y \in Objects : refs[y] \in Nat
  BY DEF LInv, TypeOK
<1>3. \A y \in Objects : c[y] <= refs[y]
  BY <1>1, <1>2 DEF OneLess
<1>4. \A k \in Slots : k # x => Left(c)[k] = kid[k]
  BY <1>1, <1>2 DEF Left, Objects, OneLess
<1>5. CASE x \notin Slots \/ c[x] # 0
  <2>1. \A k \in Slots : kid[k] = Left(c)[k]
    BY <1>4, <1>5 DEF Left
  <2> QED
    BY <1>1, <1>3, <2>1, BalancedSame DEF Dropped
<1>6. CASE x \in Slots /\ c[x] = 0
  <2>1. x \notin Files /\ kid[x].kind = "dictionary"
    BY <1>6, LifetimeAssumption
  <2>2. Left(c)[x] = Nothing
    BY <1>1, <1>6 DEF Left
  <2> DEFINE L == Left(c)
  <2>3. L[x] = Nothing /\ \A k \in Slots : k # x => kid[k] = L[k]
    BY <1>4, <2>2
  <2> HIDE DEF L
  <2>4. \A y : Held(kid, y) = Held(L, y) + Weight(kid[x], y)
    BY <1>6, <2>3, HeldMore
  <2>5. \A y : Weight(kid[x], y) = 0
    <3>1. kid[x].blob = {} /\ kid[x].metadata = {}
      BY <1>6, <2>1 DEF LInv, Shape, Shaped
    <3> QED
      BY <2>1, <3>1 DEF Weight
  <2>6. \A y : Held(kid, y) = Held(L, y)
    BY <2>4, <2>5, HeldType
  <2>7. Balanced(c, u, L, None)
    BY <1>1, <2>6 DEF Balanced
  <2> QED
    BY <1>1, <1>3, <2>7 DEF Dropped, L
<1> QED
  BY <1>5, <1>6

\* eos_shard_blob_unref, called by the user.
LEMMA BlobDropped ==
  ASSUME LInv, NEW x \in Slots, kid[x].kind = "blob", user[x] > 0, NEW u, u = [user EXCEPT ![x] = @ - 1],
         NEW d, d = blob_unref(refs, x)
  PROVE  Dropped(d, u)
<1> DEFINE one == [y \in Objects |-> IF y = x THEN 1 ELSE 0]
<1>1. x \in Objects /\ one \in [Objects -> Nat] /\ None \in [Objects -> Nat]
      /\ refs \in [Objects -> Int] /\ refs \in [Objects -> Nat]
  BY DEF Objects, None, LInv, TypeOK
<1>2. /\ u \in [Objects -> Nat] /\ refs[x] > 0 /\ OneLess(less(refs, x), x)
      /\ Balanced(less(refs, x), u, kid, None)
  BY <1>1, UserDrops
<1>3. Owes(one, None, {x})
  BY DEF None, Owes
<1>4. Balanced(refs, u, kid, one)
  <2> SUFFICES ASSUME NEW y \in Objects
               PROVE  refs[y] = u[y] + Held(kid, y) + one[y]
    BY DEF Balanced
  <2>1. less(refs, x)[y] = u[y] + Held(kid, y) + None[y] /\ Held(kid, y) \in Nat /\ None[y] = 0
    BY <1>2, HeldType DEF Balanced, None
  <2>2. u[y] \in Nat /\ refs[y] \in Nat
    BY <1>1, <1>2
  <2> QED
    BY <1>2, <2>1, <2>2 DEF OneLess
<1> HIDE DEF one
<1>5. Dropping(refs, d, {x}) /\ Balanced(d, u, Freed(kid, {x}, d), None)
  BY <1>1, <1>2, <1>3, <1>4, BlobUnref
<1>6. \A k \in Slots : Freed(kid, {x}, d)[k] = Left(d)[k]
  BY <1>1, <1>2, <1>5 DEF Dropping, Freed, Left, Objects
<1>7. Balanced(d, u, Left(d), None)
  BY <1>5, <1>6, BalancedSame
<1> QED
  BY <1>5, <1>7 DEF Dropping, Dropped

\* The slots without an object, and what is owed when it goes.
Without(x) == [k \in Slots |-> IF k = x THEN Nothing ELSE kid[k]]
OwedBy(x) == [y \in Objects |-> Weight(kid[x], y)]

\* The debts for x, an object that is gone.
Owed(debt, x) ==
  \A y \in Objects : debt[y] = (IF y \in kid[x].blob \cup kid[x].metadata THEN 1 ELSE 0)
                              + (IF y = FileOf(x) THEN 1 ELSE 0)

\* The blobs of x are there, and stay in K.
Kept(x, K) ==
  \A b \in kid[x].blob \cup kid[x].metadata :
    b \in Slots /\ b # x /\ kid[b].kind = "blob" /\ K[b] = kid[b] /\ refs[b] > 0

\* The last reference of a record or a stream is dropped: what it held is owed.
LEMMA LastReference ==
  ASSUME LInv, NEW x \in Slots, kid[x].kind \in {"record", "stream"}, user[x] > 0,
         NEW u, u = [user EXCEPT ![x] = @ - 1],
         NEW c, c = less(refs, x), NEW K, K = Without(x), NEW debt, debt = OwedBy(x)
  PROVE  /\ debt \in [Objects -> Nat] /\ Balanced(c, u, K, debt)
         /\ Owed(debt, x) /\ Kept(x, K)
<1>1. x \in Objects /\ kid[x].file = {FileOf(x)}
  BY FileOfKid DEF Objects
<1>2. Balanced(c, u, kid, None) /\ u \in [Objects -> Nat] /\ c \in [Objects -> Int]
  BY <1>1, UserDrops
<1>3. \A y : Weight(kid[x], y) = (IF y \in kid[x].blob \cup kid[x].metadata THEN 1 ELSE 0)
                               + (IF y = FileOf(x) THEN 1 ELSE 0)
  BY <1>1 DEF Weight
<1>4. debt \in [Objects -> Nat]
      /\ \A y \in Objects : debt[y] = (IF y \in kid[x].blob \cup kid[x].metadata THEN 1 ELSE 0)
                                      + (IF y = FileOf(x) THEN 1 ELSE 0)
  BY <1>3 DEF OwedBy
<1>5. K[x] = Nothing /\ \A k \in Slots : k # x => kid[k] = K[k]
  BY DEF Without
<1>6. \A y : Held(kid, y) = Held(K, y) + Weight(kid[x], y)
  BY <1>5, HeldMore
<1>7. Balanced(c, u, K, debt)
  <2> SUFFICES ASSUME NEW y \in Objects
               PROVE  c[y] = u[y] + Held(K, y) + debt[y]
    BY DEF Balanced
  <2>1. /\ c[y] = u[y] + Held(kid, y) + None[y] /\ None[y] = 0
        /\ Held(kid, y) \in Nat /\ Held(K, y) \in Nat
    BY <1>2, HeldType DEF Balanced, None
  <2>2. Held(kid, y) = Held(K, y) + debt[y] /\ debt[y] \in Nat /\ u[y] \in Nat
    BY <1>2, <1>4, <1>6 DEF OwedBy
  <2> QED
    BY <2>1, <2>2
<1>8. ASSUME NEW b \in kid[x].blob \cup kid[x].metadata
      PROVE  b \in Slots /\ b # x /\ kid[b].kind = "blob" /\ K[b] = kid[b] /\ refs[b] > 0
  <2>1. b \in Slots /\ kid[b].kind = "blob"
    BY <1>8 DEF LInv, TypeOK, Shape, Shaped
  <2>2. refs[b] # 0 /\ refs[b] \in Nat
    BY <2>1 DEF LInv, TypeOK, Alive, Objects
  <2> QED
    BY <1>5, <2>1, <2>2
<1> QED
  BY <1>4, <1>7, <1>8 DEF Owed, Kept

\* The last reference to a record: then the file, the data and the metadata.
LEMMA RecordDropped ==
  ASSUME LInv, NEW x \in Slots, kid[x].kind = "record", user[x] > 0, NEW u, u = [user EXCEPT ![x] = @ - 1],
         less(refs, x)[x] = 0, NEW d, d = record_unref(refs, x)
  PROVE  Dropped(d, u)
<1> DEFINE c == less(refs, x)
           K == Without(x)
           debt == OwedBy(x)
           data == kid[x].blob
           metadata == kid[x].metadata
           both == [y \in Objects |-> IF y \in data \cup metadata THEN 1 ELSE 0]
           one == [y \in Objects |-> IF y \in metadata THEN 1 ELSE 0]
           c1 == less(c, FileOf(x))
           c2 == clear_blob(c1, data)
<1>1. d = clear_blob(c2, metadata)
  BY DEF record_unref
<1>2. /\ debt \in [Objects -> Nat] /\ Balanced(c, u, K, debt)
      /\ Owed(debt, x) /\ Kept(x, K)
      /\ \A b \in data \cup metadata : b \in Slots /\ b # x /\ kid[b].kind = "blob" /\ K[b] = kid[b] /\ refs[b] > 0
  <2> HIDE DEF c, debt, K
  <2>1. c = less(refs, x) /\ K = Without(x) /\ debt = OwedBy(x)
    BY DEF c, debt, K
  <2>2. /\ debt \in [Objects -> Nat] /\ Balanced(c, u, K, debt)
        /\ Owed(debt, x) /\ Kept(x, K)
    BY <2>1, LastReference
  <2> QED
    BY <2>2 DEF Kept
<1>3. x \in Objects /\ Slots \subseteq Objects /\ FileOf(x) \in Objects /\ FileOf(x) \notin Slots
  BY FileOfKid DEF Objects
<1>4. /\ c \in [Objects -> Int] /\ u \in [Objects -> Nat] /\ refs[x] > 0 /\ c[x] = 0 /\ OneLess(c, x)
  <2>1. c[x] = 0
    OBVIOUS
  <2> HIDE DEF c
  <2>2. c = less(refs, x)
    BY DEF c
  <2> QED
    BY <1>3, <2>1, <2>2, UserDrops
<1>5. data \in Optional(Slots) /\ metadata \in Optional(Slots) /\ data \cap metadata = {}
  BY DEF LInv, Shape, Shaped
<1>6. one \in [Objects -> Nat] /\ both \in [Objects -> Nat] /\ None \in [Objects -> Nat]
      /\ Owes(both, one, data) /\ Owes(one, None, metadata)
  BY <1>5 DEF None, Owes
<1>7. K[x] = Nothing /\ \A k \in Slots : k # x => K[k] = kid[k]
  BY DEF Without
<1>8. c1 \in [Objects -> Int] /\ \A y \in Objects : c1[y] = IF y = FileOf(x) THEN c[y] - 1 ELSE c[y]
  <2> HIDE DEF c
  <2> QED
    BY <1>3, <1>4, LessValues
<1>9. \A y \in Objects : debt[y] = both[y] + (IF y = FileOf(x) THEN 1 ELSE 0)
  BY <1>2 DEF Owed
<1>10. refs \in [Objects -> Nat]
  BY DEF LInv, TypeOK
<1> HIDE DEF c, K, debt, data, metadata, both, one, c1, c2
<1>11. Balanced(c1, u, K, both)
  <2> SUFFICES ASSUME NEW y \in Objects
               PROVE  c1[y] = u[y] + Held(K, y) + both[y]
    BY DEF Balanced
  <2>1. c[y] = u[y] + Held(K, y) + debt[y] /\ Held(K, y) \in Nat /\ u[y] \in Nat /\ both[y] \in Nat
    BY <1>2, <1>4, <1>6, HeldType DEF Balanced
  <2> QED
    BY <1>8, <1>9, <2>1
<1>12. Dropping(c1, c2, data) /\ Balanced(c2, u, Freed(K, data, c2), one)
  <2>1. c2 = clear_blob(c1, data)
    BY DEF c2
  <2> QED
    BY <1>2, <1>4, <1>5, <1>6, <1>8, <1>11, <2>1, ClearBlob
<1> DEFINE L == Freed(K, data, c2)
<1>13. \A b \in metadata : L[b] = kid[b]
  BY <1>2, <1>5 DEF Freed
<1>14. c2 \in [Objects -> Int] /\ Balanced(c2, u, L, one)
  BY <1>12 DEF Dropping
<1>15. /\ L[x] = Nothing
       /\ \A k \in Slots : k # x => L[k] = IF k \in data /\ c2[k] = 0 THEN Nothing ELSE kid[k]
  BY <1>2, <1>7 DEF Freed
<1> HIDE DEF L
<1>16. Dropping(c2, d, metadata) /\ Balanced(d, u, Freed(L, metadata, d), None)
  BY <1>1, <1>2, <1>4, <1>5, <1>6, <1>13, <1>14, ClearBlob
<1>17. \A y \in Objects : d[y] <= refs[y]
  <2> SUFFICES ASSUME NEW y \in Objects
               PROVE  d[y] <= refs[y]
    OBVIOUS
  <2>1. c[y] \in Int /\ c1[y] \in Int /\ c2[y] \in Int /\ d[y] \in Int /\ refs[y] \in Int
    BY <1>4, <1>8, <1>10, <1>12, <1>16 DEF Dropping
  <2>2. c[y] <= refs[y] /\ c1[y] <= c[y]
    BY <1>4, <1>8, <2>1 DEF OneLess
  <2>3. c2[y] <= c1[y] /\ d[y] <= c2[y]
    BY <1>12, <1>16 DEF Dropping
  <2> QED
    BY <2>1, <2>2, <2>3
<1>18. ASSUME NEW k \in Slots
       PROVE  Freed(L, metadata, d)[k] = Left(d)[k]
  <2>1. k \in Objects /\ refs[k] \in Nat /\ c1[k] = (IF k = x THEN 0 ELSE refs[k])
    BY <1>3, <1>4, <1>8, <1>10 DEF OneLess
  <2>2. c2[k] = (IF k \in data THEN c1[k] - 1 ELSE c1[k]) /\ d[k] = IF k \in metadata THEN c2[k] - 1 ELSE c2[k]
    BY <1>12, <1>16 DEF Dropping
  <2>3. CASE k = x
    <3>1. k \notin data /\ k \notin metadata
      BY <1>2, <2>3
    <3>2. d[k] = 0
      BY <2>1, <2>2, <2>3, <3>1
    <3> QED
      BY <1>4, <1>15, <2>3, <3>1, <3>2 DEF Freed, Left
  <2>4. CASE k # x /\ k \in data
    <3>1. k \notin metadata /\ refs[k] > 0 /\ d[k] = c2[k]
      BY <1>2, <1>5, <2>2, <2>4
    <3> QED
      BY <1>15, <2>4, <3>1 DEF Freed, Left
  <2>5. CASE k # x /\ k \in metadata
    <3>1. k \notin data /\ refs[k] > 0
      BY <1>2, <1>5, <2>5
    <3> QED
      BY <1>15, <2>5, <3>1 DEF Freed, Left
  <2>6. CASE k # x /\ k \notin data \cup metadata
    <3>1. d[k] = refs[k]
      BY <2>1, <2>2, <2>6
    <3> QED
      BY <1>15, <2>1, <2>6, <3>1 DEF Freed, Left
  <2> QED
    BY <2>3, <2>4, <2>5, <2>6
<1>19. Balanced(d, u, Left(d), None)
  BY <1>16, <1>18, BalancedSame
<1> QED
  BY <1>16, <1>17, <1>19 DEF Dropping, Dropped

\* The last reference to a stream: then the blob and the file.
LEMMA StreamDropped ==
  ASSUME LInv, NEW x \in Slots, kid[x].kind = "stream", user[x] > 0, NEW u, u = [user EXCEPT ![x] = @ - 1],
         less(refs, x)[x] = 0, NEW d, d = stream_unref(refs, x)
  PROVE  Dropped(d, u)
<1> DEFINE c == less(refs, x)
           K == Without(x)
           debt == OwedBy(x)
           data == kid[x].blob
           one == [y \in Objects |-> IF y = FileOf(x) THEN 1 ELSE 0]
           c1 == clear_blob(c, data)
<1>1. d = less(c1, FileOf(x))
  BY DEF stream_unref
<1>2. /\ debt \in [Objects -> Nat] /\ Balanced(c, u, K, debt)
      /\ Owed(debt, x) /\ Kept(x, K)
      /\ \A b \in data : b \in Slots /\ b # x /\ kid[b].kind = "blob" /\ K[b] = kid[b] /\ refs[b] > 0
  <2> HIDE DEF c, debt, K
  <2>1. c = less(refs, x) /\ K = Without(x) /\ debt = OwedBy(x)
    BY DEF c, debt, K
  <2>2. /\ debt \in [Objects -> Nat] /\ Balanced(c, u, K, debt)
        /\ Owed(debt, x) /\ Kept(x, K)
    BY <2>1, LastReference
  <2> QED
    BY <2>2 DEF Kept
<1>3. x \in Objects /\ Slots \subseteq Objects /\ FileOf(x) \in Objects /\ FileOf(x) \notin Slots
  BY FileOfKid DEF Objects
<1>4. /\ c \in [Objects -> Int] /\ u \in [Objects -> Nat] /\ refs[x] > 0 /\ c[x] = 0 /\ OneLess(c, x)
  <2>1. c[x] = 0
    OBVIOUS
  <2> HIDE DEF c
  <2>2. c = less(refs, x)
    BY DEF c
  <2> QED
    BY <1>3, <2>1, <2>2, UserDrops
<1>5. data \in Optional(Slots) /\ kid[x].metadata = {}
  BY DEF LInv, Shape, Shaped
<1>6. one \in [Objects -> Nat] /\ None \in [Objects -> Nat] /\ Owes(debt, one, data)
  BY <1>2, <1>5 DEF None, Owes, Owed
<1>7. K[x] = Nothing /\ \A k \in Slots : k # x => K[k] = kid[k]
  BY DEF Without
<1>8. \A y \in Objects : one[y] = IF y = FileOf(x) THEN 1 ELSE 0
  OBVIOUS
<1>9. refs \in [Objects -> Nat]
  BY DEF LInv, TypeOK
<1> HIDE DEF c, K, debt, data, one, c1
<1>10. Dropping(c, c1, data) /\ Balanced(c1, u, Freed(K, data, c1), one)
  <2>1. c1 = clear_blob(c, data)
    BY DEF c1
  <2> QED
    BY <1>2, <1>4, <1>5, <1>6, <2>1, ClearBlob
<1>11. c1 \in [Objects -> Int]
  BY <1>10 DEF Dropping
<1>12. d \in [Objects -> Int] /\ \A y \in Objects : d[y] = IF y = FileOf(x) THEN c1[y] - 1 ELSE c1[y]
  BY <1>1, <1>3, <1>11, LessValues
<1>13. \A y \in Objects : d[y] <= refs[y]
  <2> SUFFICES ASSUME NEW y \in Objects
               PROVE  d[y] <= refs[y]
    OBVIOUS
  <2>1. c[y] \in Int /\ c1[y] \in Int /\ d[y] \in Int /\ refs[y] \in Int
    BY <1>4, <1>9, <1>11, <1>12
  <2>2. c[y] <= refs[y] /\ d[y] <= c1[y]
    BY <1>4, <1>12, <2>1 DEF OneLess
  <2>3. c1[y] <= c[y]
    BY <1>10 DEF Dropping
  <2> QED
    BY <2>1, <2>2, <2>3
<1>14. ASSUME NEW k \in Slots
       PROVE  Freed(K, data, c1)[k] = Left(d)[k]
  <2>1. k \in Objects /\ refs[k] \in Nat /\ c[k] = IF k = x THEN 0 ELSE refs[k]
    BY <1>3, <1>4, <1>9 DEF OneLess
  <2>2. c1[k] = (IF k \in data THEN c[k] - 1 ELSE c[k]) /\ d[k] = c1[k]
    BY <1>3, <1>10, <1>12, <2>1 DEF Dropping
  <2>3. CASE k = x
    <3>1. k \notin data
      BY <1>2, <2>3
    <3>2. d[k] = 0
      BY <2>1, <2>2, <2>3, <3>1
    <3> QED
      BY <1>4, <1>7, <2>3, <3>1, <3>2 DEF Freed, Left
  <2>4. CASE k # x /\ k \in data
    <3>1. refs[k] > 0
      BY <1>2, <2>4
    <3> QED
      BY <1>7, <2>2, <2>4, <3>1 DEF Freed, Left
  <2>5. CASE k # x /\ k \notin data
    <3>1. d[k] = refs[k]
      BY <2>1, <2>2, <2>5
    <3> QED
      BY <1>7, <2>1, <2>5, <3>1 DEF Freed, Left
  <2> QED
    BY <2>3, <2>4, <2>5
<1>15. Balanced(c1, u, Left(d), one)
  BY <1>10, <1>14, BalancedSame
<1>16. Balanced(d, u, Left(d), None)
  <2> DEFINE L == Left(d)
  <2> SUFFICES ASSUME NEW y \in Objects
               PROVE  d[y] = u[y] + Held(L, y) + None[y]
    BY DEF Balanced
  <2> HIDE DEF L
  <2>1. c1[y] = u[y] + Held(L, y) + one[y]
    BY <1>15 DEF Balanced, L
  <2>2. Held(L, y) \in Nat /\ u[y] \in Nat /\ None[y] = 0
    BY <1>4, HeldType DEF None
  <2> QED
    BY <1>8, <1>12, <2>1, <2>2
<1> QED
  BY <1>12, <1>13, <1>16 DEF Dropped

\* Whatever the object is, its unref leaves the counts of what is left.
LEMMA UnrefDropped ==
  ASSUME LInv, NEW x \in Objects, user[x] > 0, NEW u, u = [user EXCEPT ![x] = @ - 1]
  PROVE  Dropped(unref(refs, x), u)
<1> DEFINE c == less(refs, x)
<1>1. c[x] # 0 \/ x \in Files \/ kid[x].kind = "dictionary" => Dropped(c, u)
  BY PlainUnref
<1>2. CASE x \in Files \/ kid[x].kind = "dictionary"
  BY <1>1, <1>2 DEF unref
<1>3. CASE x \in Slots /\ kid[x].kind # "dictionary"
  <2>1. x \notin Files /\ kid[x].kind \in {"record", "blob", "stream"}
    <3>1. refs[x] > 0
      BY UserDrops
    <3> QED
      BY <1>3, <3>1, LifetimeAssumption DEF LInv, TypeOK, Alive
  <2>2. CASE kid[x].kind = "blob"
    <3>1. Dropped(blob_unref(refs, x), u)
      BY <1>3, <2>2, BlobDropped
    <3> QED
      BY <2>1, <2>2, <3>1 DEF unref
  <2>3. CASE kid[x].kind = "record"
    <3>1. unref(refs, x) = record_unref(refs, x)
      BY <2>1, <2>3 DEF unref
    <3>2. CASE c[x] # 0
      BY <1>1, <3>1, <3>2 DEF record_unref
    <3>3. CASE c[x] = 0
      BY <1>3, <2>3, <3>1, <3>3, RecordDropped
    <3> QED
      BY <3>2, <3>3
  <2>4. CASE kid[x].kind = "stream"
    <3>1. unref(refs, x) = stream_unref(refs, x)
      BY <2>1, <2>4 DEF unref
    <3>2. CASE c[x] # 0
      BY <1>1, <3>1, <3>2 DEF stream_unref
    <3>3. CASE c[x] = 0
      BY <1>3, <2>4, <3>1, <3>3, StreamDropped
    <3> QED
      BY <3>2, <3>3
  <2> QED
    BY <2>1, <2>2, <2>3, <2>4
<1> QED
  BY <1>2, <1>3 DEF Objects

\* The step leaves the others' descriptors alone as well.
LEMMA UnrefStep ==
  ASSUME LInv, NEW x \in Objects, Unref(x)
  PROVE  LInv' /\ (Corrupt = {} => \A i \in 0..MaxFd : fds[i] = ELSEWHERE => fds'[i] = ELSEWHERE \/ (i = 0 /\ ZeroStruck'))
<1> DEFINE gone == {y \in Objects : refs[y] > 0 /\ refs'[y] = 0}
<1>1. /\ user[x] > 0 /\ (x \in Files => shard[x].pc # "opened" \/ user[x] > 1)
      /\ user' = [user EXCEPT ![x] = @ - 1]
      /\ refs' = unref(refs, x)
      /\ kid' = [k \in Slots |-> IF k \in gone THEN Nothing ELSE kid[k]]
      /\ shard' = [f \in Files |-> IF f \in gone THEN Finalized(f) ELSE shard[f]]
      /\ fds' = [i \in DOMAIN fds |-> IF \E y \in gone : i \in Closes(y) THEN FREE ELSE fds[i]]
  BY DEF Unref
<1>2. /\ refs \in [Objects -> Nat] /\ user \in [Objects -> 0..MaxRefs] /\ user \in [Objects -> Nat]
      /\ Slots \subseteq Objects /\ Files \subseteq Objects
  BY LifetimeAssumption DEF LInv, TypeOK, Objects
<1>3. refs' \in [Objects -> Int] /\ Balanced(refs', user', Left(refs'), None)
      /\ \A y \in Objects : refs'[y] <= refs[y]
  <2>1. Dropped(refs', user')
    BY <1>1, UnrefDropped
  <2> QED
    BY <2>1 DEF Dropped
<1>4. user' \in [Objects -> 0..MaxRefs] /\ user' \in [Objects -> Nat]
      /\ \A y \in Objects : user'[y] = IF y = x THEN user[y] - 1 ELSE user[y]
  <2>1. user[x] - 1 \in 0..MaxRefs
    BY <1>1, <1>2, LifetimeAssumption
  <2> QED
    BY <1>1, <1>2, <2>1
<1>5. \A k \in Slots : Left(refs')[k] = kid'[k]
  BY <1>1, <1>2 DEF Left
<1>6. Balanced(refs', user', kid', None)
  BY <1>3, <1>5, BalancedSame
<1>7. ASSUME NEW y \in Objects
      PROVE  refs'[y] = user'[y] + Held(kid', y) /\ Held(kid', y) \in Nat /\ refs'[y] \in Nat /\ user'[y] \in Nat
  <2>1. refs'[y] = user'[y] + Held(kid', y) + None[y] /\ Held(kid', y) \in Nat /\ None[y] = 0
    BY <1>6, HeldType DEF Balanced, None
  <2>2. user'[y] \in Nat
    BY <1>4
  <2> QED
    BY <2>1, <2>2
<1>8. ASSUME NEW y \in Objects, refs'[y] = 0
      PROVE  user'[y] = 0 /\ Holding(kid', y) = {} /\ Using(kid', y) = {}
  <2>1. user'[y] = 0 /\ Held(kid', y) = 0
    BY <1>7, <1>8
  <2> QED
    BY <2>1, HeldType
<1>9. ASSUME NEW y \in Objects
      PROVE  y \in gone <=> refs[y] # 0 /\ refs'[y] = 0
  BY <1>2
<1>10. \A y \in Objects : refs[y] = 0 => refs'[y] = 0
  BY <1>2, <1>3, <1>7
<1> HIDE DEF gone
<1>10a. \A f \in Files : /\ Finalized(f).fd = shard[f].fd
                         /\ Finalized(f).pc = IF shard[f].pc \in {"new", "pathless"} THEN "discarded" ELSE "finalized"
                         /\ Finalized(f) \in [pc: Stages, fd: -1..MaxFd]
  BY DEF Finalized, LInv, TypeOK, Stages
<1>11. /\ \A k \in Slots : kid'[k] = IF k \in gone THEN Nothing ELSE kid[k]
       /\ \A f \in Files : /\ shard'[f].pc = IF f \notin gone THEN shard[f].pc
                                            ELSE IF shard[f].pc \in {"new", "pathless"} THEN "discarded"
                                            ELSE "finalized"
                           /\ shard'[f].fd = shard[f].fd
       /\ \A i \in 0..MaxFd : fds'[i] = IF \E y \in gone : i \in Closes(y) THEN FREE ELSE fds[i]
  BY <1>1, <1>10a DEF LInv, TypeOK
<1>12. TypeOK'
  <2>1. refs' \in [Objects -> Nat]
    BY <1>3, <1>7
  <2>2. kid' \in [Slots -> [kind: {"none", "record", "blob", "stream", "dictionary"},
                            file: SUBSET Files, blob: SUBSET Slots, metadata: SUBSET Slots]]
    BY <1>1 DEF LInv, TypeOK, Nothing
  <2>3. shard' \in [Files -> [pc: Stages, fd: -1..MaxFd]]
    BY <1>1, <1>10a DEF LInv, TypeOK
  <2>4. fds' \in [0..MaxFd -> Files \cup {FREE, ELSEWHERE}]
    BY <1>1 DEF LInv, TypeOK
  <2> QED
    BY <1>4, <2>1, <2>2, <2>3, <2>4 DEF TypeOK
<1>13. CountsExact'
  BY <1>6, <1>12, ExactIsBalanced
<1>14. Alive'
  <2>1. ASSUME NEW k \in Slots
        PROVE  kid'[k].kind = "none" <=> refs'[k] = 0
    BY <1>2, <1>9, <1>10, <1>11 DEF LInv, Alive, Nothing
  <2>2. ASSUME NEW f \in Files
        PROVE  shard'[f].pc \in {"none", "finalized", "discarded"} <=> refs'[f] = 0
    BY <1>2, <1>9, <1>10, <1>11 DEF LInv, Alive
  <2> QED
    BY <2>1, <2>2 DEF Alive
<1>15. Shape'
  <2> SUFFICES ASSUME NEW k \in Slots
               PROVE  Shaped(kid[k], kid)'
    BY DEF Shape
  <2>1. CASE k \in gone
    <3>1. kid'[k] = Nothing /\ {} \in Optional(Slots)
      BY <1>11, <2>1 DEF Optional
    <3> QED
      BY <3>1 DEF Shaped, Nothing
  <2>2. CASE k \notin gone
    <3>1. kid'[k] = kid[k] /\ Shaped(kid[k], kid)
      BY <1>11, <2>2 DEF LInv, Shape
    <3>2. \A b \in kid[k].blob \cup kid[k].metadata : kid'[b].kind = "blob" /\ kid'[b].file = kid[k].file
      <4> SUFFICES ASSUME NEW b \in kid[k].blob \cup kid[k].metadata
                   PROVE  kid'[b] = kid[b]
        BY <3>1 DEF Shaped
      <4>1. b \in Slots /\ k \in Holding(kid', b)
        BY <3>1 DEF LInv, TypeOK, Holding
      <4>2. refs'[b] # 0
        BY <1>2, <1>8, <4>1
      <4> QED
        BY <1>2, <1>9, <1>11, <4>1, <4>2
    <3>3. ASSUME kid[k].kind # "none"
          PROVE  \E f \in Files : /\ kid[k].file = {f}
                                  /\ \/ shard'[f].pc = "ready"
                                     \/ kid[k].kind = "dictionary" /\ shard'[f].pc = "finalized"
      <4>1. PICK f \in Files : /\ kid[k].file = {f}
                               /\ shard[f].pc = "ready" \/ (kid[k].kind = "dictionary" /\ shard[f].pc = "finalized")
        BY <3>1, <3>3 DEF Shaped
      <4>2. CASE kid[k].kind = "dictionary"
        BY <1>11, <4>1, <4>2
      <4>3. CASE kid[k].kind # "dictionary"
        <5>1. k \in Using(kid', f)
          BY <3>1, <4>1, <4>3 DEF Using
        <5>2. f \notin gone
          BY <1>2, <1>8, <1>9, <5>1
        <5> QED
          BY <1>11, <4>1, <4>3, <5>2
      <4> QED
        BY <4>2, <4>3
    <3> QED
      BY <3>1, <3>2, <3>3 DEF Shaped
  <2> QED
    BY <2>1, <2>2
<1>16. ASSUME NEW y \in Files, y \in gone, shard[y].fd = 0, shard[y].pc \in {"new", "pathless"}
       PROVE  ZeroStruck'
  BY <1>11, <1>16 DEF ZeroStruck
<1>17. ASSUME NEW f \in Files, Struck(f)
       PROVE  Struck(f)'
  <2>1. PICK g \in Files : shard[g].pc = "discarded"
    BY <1>17 DEF Struck, ZeroStruck
  <2>2. shard'[g].pc = "discarded"
    BY <1>2, <1>9, <1>11, <2>1 DEF LInv, Alive
  <2> QED
    BY <1>11, <1>17, <2>1, <2>2 DEF Struck, ZeroStruck
\* What is closed was open for a file that is gone, or it is descriptor 0.
<1>18. ASSUME Corrupt = {}, NEW i \in 0..MaxFd, NEW y \in gone, i \in Closes(y)
       PROVE  fds[i] = y \/ (i = 0 /\ ZeroStruck')
  <2>1. y \in Files /\ shard[y].fd = i /\ OneDescriptor(y)
    BY <1>18 DEF Closes, LInv, Descriptors
  <2>2. shard[y].pc \notin {"none", "finalized", "discarded"}
    BY <1>2, <1>9, <2>1 DEF LInv, Alive
  <2>3. CASE shard[y].pc \in {"new", "pathless"}
    BY <1>16, <1>18, <2>1, <2>3 DEF OneDescriptor
  <2>4. CASE shard[y].pc = "failed"
    BY <1>18, <2>1, <2>4 DEF OneDescriptor
  <2>5. CASE shard[y].pc \in {"opened", "ready"}
    <3>1. fds[i] = y \/ Struck(y)
      BY <1>18, <2>1, <2>5 DEF OneDescriptor
    <3>2. Struck(y) => i = 0 /\ ZeroStruck'
      BY <1>17, <2>1 DEF Struck
    <3> QED
      BY <3>1, <3>2
  <2>6. shard[y].pc \in Stages
    BY <2>1 DEF LInv, TypeOK
  <2> QED
    BY <2>2, <2>3, <2>4, <2>5, <2>6 DEF Stages
<1>19. Descriptors'
  <2> SUFFICES ASSUME NEW f \in Files
               PROVE  OneDescriptor(f)'
    BY DEF Descriptors
  <2>1. \A i \in 0..MaxFd : fds'[i] = f => fds[i] = f /\ i \notin {j \in 0..MaxFd : \E y \in gone : j \in Closes(y)}
    BY <1>11, LifetimeAssumption
  <2>2. OneDescriptor(f)
    BY DEF LInv, Descriptors
  <2>3. CASE f \in gone
    <3>1. ASSUME NEW i \in 0..MaxFd, fds'[i] = f
          PROVE  FALSE
      <4>1. shard[f].fd = i
        BY <2>1, <2>2, <3>1 DEF OneDescriptor
      <4> QED
        BY <2>1, <2>3, <3>1, <4>1 DEF Closes
    <3> QED
      BY <1>11, <2>3, <3>1 DEF OneDescriptor
  <2>4. CASE f \notin gone
    <3>1. shard'[f].pc = shard[f].pc /\ shard'[f].fd = shard[f].fd
      BY <1>11, <2>4
    <3>2. ASSUME Corrupt = {}, shard[f].pc \in {"opened", "ready"}
          PROVE  shard[f].fd \in 0..MaxFd /\ (fds'[shard[f].fd] = f \/ Struck(f)')
      <4>1. shard[f].fd \in 0..MaxFd /\ (fds[shard[f].fd] = f \/ Struck(f))
        BY <2>2, <3>2 DEF OneDescriptor
      <4>2. CASE Struck(f)
        BY <1>17, <4>1, <4>2
      <4>3. ASSUME fds[shard[f].fd] = f, NEW y \in gone, shard[f].fd \in Closes(y)
            PROVE  Struck(f)'
        <5>1. y # f
          BY <2>4, <4>3
        <5>2. shard[f].fd = 0 /\ ZeroStruck'
          BY <1>18, <3>2, <4>1, <4>3, <5>1
        <5> QED
          BY <3>1, <5>2 DEF Struck
      <4>4. fds[shard[f].fd] = f /\ (\A y \in gone : shard[f].fd \notin Closes(y)) => fds'[shard[f].fd] = f
        BY <1>11, <4>1
      <4> QED
        BY <4>1, <4>2, <4>3, <4>4
    <3> QED
      BY <2>1, <2>2, <3>1, <3>2 DEF OneDescriptor
  <2> QED
    BY <2>3, <2>4
<1>20. ASSUME Corrupt = {}, NEW i \in 0..MaxFd, fds[i] = ELSEWHERE
       PROVE  fds'[i] = ELSEWHERE \/ (i = 0 /\ ZeroStruck')
  <2>1. ASSUME NEW y \in gone, i \in Closes(y)
        PROVE  i = 0 /\ ZeroStruck'
    <3>1. y \in Files
      BY <2>1 DEF Closes
    <3> QED
      BY <1>18, <1>20, <2>1, <3>1, LifetimeAssumption
  <2> QED
    BY <1>11, <1>20, <2>1
<1> QED
  BY <1>12, <1>13, <1>14, <1>15, <1>19, <1>20 DEF LInv

LEMMA LInvNext == LInv /\ [Next]_vars => LInv'
<1> SUFFICES ASSUME LInv, [Next]_vars
             PROVE  LInv'
  OBVIOUS
<1>1. CASE OtherOpen
  BY <1>1, OtherOpenStep
<1>2. CASE OtherClose
  BY <1>2, OtherCloseStep
<1>3. ASSUME NEW f \in Files, New(f)
      PROVE  LInv'
  BY <1>3, NewStep
<1>4. ASSUME NEW f \in Files, InitOpen(f)
      PROVE  LInv'
  BY <1>4, InitOpenStep
<1>5. ASSUME NEW f \in Files, InitDetect(f)
      PROVE  LInv'
  BY <1>5, InitDetectStep
<1>6. ASSUME NEW x \in Objects, Ref(x)
      PROVE  LInv'
  BY <1>6, RefStep
<1>7. ASSUME NEW x \in Objects, Unref(x)
      PROVE  LInv'
  BY <1>7, UnrefStep
<1>8. ASSUME NEW f \in Files, NEW k \in Slots, NEW data \in Optional(Slots), NEW metadata \in Optional(Slots),
             FindRecord(f, k, data, metadata)
      PROVE  LInv'
  BY <1>8, FindRecordStep
<1>9. ASSUME NEW k \in Slots, GetBlob(k)
      PROVE  LInv'
  BY <1>9, GetBlobStep
<1>10. ASSUME NEW x \in Slots, NEW y \in Slots, LookupBlob(x, y)
       PROVE  LInv'
  BY <1>10, LookupBlobStep
<1>11. ASSUME NEW x \in Slots, NEW y \in Slots, GetStream(x, y)
       PROVE  LInv'
  BY <1>11, GetStreamStep
<1>12. ASSUME NEW x \in Slots, NEW y \in Slots, LoadAsDictionary(x, y)
       PROVE  LInv'
  BY <1>12, LoadAsDictionaryStep
<1>13. CASE UNCHANGED vars
  <2>1. UNCHANGED <<fds, shard, kid, refs, user>>
    BY <1>13 DEF vars
  <2>2. TypeOK' /\ CountsExact'
    BY <2>1 DEF LInv, TypeOK, CountsExact
  <2>3. Shape'
    BY <2>1 DEF LInv, Shape, Shaped
  <2>4. Alive' /\ Descriptors'
    BY <2>1 DEF LInv, Alive, Descriptors, OneDescriptor, Struck, ZeroStruck
  <2> QED
    BY <2>2, <2>3, <2>4 DEF LInv
<1> QED
  BY <1>1, <1>2, <1>3, <1>4, <1>5, <1>6, <1>7, <1>8, <1>9, <1>10, <1>11, <1>12, <1>13 DEF Next

\* The invariant the others rest on.
THEOREM LifetimeInvariant == Spec => []LInv
<1> QED
  BY InitLInv, LInvNext, PTL DEF Spec

\* Every variable keeps its type; no reference count is ever negative.
THEOREM TypeCorrect == Spec => []TypeOK
<1>1. LInv => TypeOK
  BY DEF LInv
<1> QED
  BY <1>1, LifetimeInvariant, PTL

\* The ref_count of every shard file, record, blob, stream and dictionary is
\* the number of references there are to it, whatever the order of the calls.
THEOREM CountsAreExact == Spec => []CountsExact
<1>1. LInv => CountsExact
  BY DEF LInv
<1> QED
  BY <1>1, LifetimeInvariant, PTL

\* What holds another object is a record or a stream, and what is held is a
\* blob; a file is never held, only used.
LEMMA WhoHolds ==
  ASSUME LInv, NEW k \in Slots
  PROVE  /\ kid[k].blob \cup kid[k].metadata # {} => kid[k].kind \in {"record", "stream"}
         /\ \A b \in kid[k].blob \cup kid[k].metadata : b \in Slots /\ kid[b].kind = "blob"
         /\ kid[k].file \subseteq Files
  BY DEF LInv, TypeOK, Shape, Shaped, Nothing

\* What nobody refers to, the user either, is not there.
LEMMA NobodyLeft ==
  ASSUME LInv, NEW x \in Objects, user[x] = 0, Holding(kid, x) = {}, Using(kid, x) = {}
  PROVE  refs[x] = 0
<1>1. refs[x] = user[x] + Held(kid, x) + None[x] /\ None[x] = 0
  BY ExactIsBalanced DEF LInv, Balanced, None
<1>2. Held(kid, x) = 0
  BY FS_EmptySet DEF Held
<1> QED
  BY <1>1, <1>2

\* The shard file's descriptor is closed once the user has dropped what he
\* held, in whatever order: no reference is left behind.
THEOREM EveryDescriptorClosed == Spec => []AllClosed
<1>1. ASSUME LInv, \A x \in Objects : user[x] = 0, NEW i \in 0..MaxFd, fds[i] \in Files
      PROVE  FALSE
  <2>1. Slots \subseteq Objects /\ Files \subseteq Objects /\ Files \cap Slots = {}
    BY LifetimeAssumption DEF Objects
  <2>2. ASSUME NEW k \in Slots
        PROVE  kid[k].kind \notin {"record", "stream"}
    <3> SUFFICES ASSUME kid[k].kind \in {"record", "stream"}
                 PROVE  FALSE
      OBVIOUS
    <3>1. Holding(kid, k) = {}
      BY <1>1, WhoHolds DEF Holding
    <3>2. Using(kid, k) = {}
      BY <1>1, <2>1, WhoHolds DEF Using
    <3>3. refs[k] = 0
      BY <1>1, <2>1, <3>1, <3>2, NobodyLeft
    <3> QED
      BY <1>1, <3>3 DEF LInv, Alive
  <2>3. \A x : Holding(kid, x) = {}
    BY <1>1, <2>2, WhoHolds DEF Holding
  <2>4. ASSUME NEW k \in Slots
        PROVE  kid[k].kind \in {"none", "dictionary"}
    <3>1. CASE kid[k].kind = "blob"
      <4>1. Using(kid, k) = {}
        BY <1>1, <2>1, WhoHolds DEF Using
      <4>2. refs[k] = 0
        BY <1>1, <2>1, <2>3, <4>1, NobodyLeft
      <4> QED
        BY <1>1, <3>1, <4>2 DEF LInv, Alive
    <3> QED
      BY <1>1, <2>2, <3>1 DEF LInv, TypeOK
  <2> DEFINE f == fds[i]
  <2>5. f \in Files /\ shard[f].pc \in {"opened", "ready"}
    BY <1>1 DEF LInv, Descriptors, OneDescriptor
  <2>6. Using(kid, f) = {}
    BY <1>1, <2>4 DEF Using, LInv, Shape, Shaped, Nothing
  <2>7. refs[f] = 0
    BY <1>1, <2>1, <2>3, <2>5, <2>6, NobodyLeft
  <2> QED
    BY <1>1, <2>5, <2>7 DEF LInv, Alive
<1>2. LInv => AllClosed
  BY <1>1 DEF AllClosed
<1> QED
  BY <1>2, LifetimeInvariant, PTL

\* A shard file that is there and ready can be read.
LEMMA ReadyIsReadable ==
  ASSUME LInv, Corrupt = {}, NEW f \in Files, shard[f].pc = "ready"
  PROVE  Readable(f)
<1>1. refs[f] # 0 /\ refs[f] \in Nat
  BY DEF LInv, TypeOK, Alive, Objects
<1>2. shard[f].fd \in 0..MaxFd /\ (fds[shard[f].fd] = f \/ Struck(f))
  BY DEF LInv, Descriptors, OneDescriptor
<1> QED
  BY <1>1, <1>2, LifetimeAssumption DEF Readable, Struck

\* When every path holds a shard, a record, a blob or a stream reads the file
\* it came from for as long as it is held; unless that has descriptor 0, and a
\* shard file that never opened one is finalized.
THEOREM HeldReadsOwnFile == ASSUME Corrupt = {} PROVE Spec => []ReadsOwnFile
<1>1. ASSUME LInv, NEW k \in Slots, kid[k].kind \in {"record", "blob", "stream"}
      PROVE  refs[k] > 0 /\ \A f \in kid[k].file : Readable(f)
  <2>1. refs[k] # 0 /\ refs[k] \in Nat
    BY <1>1 DEF LInv, TypeOK, Alive, Objects
  <2>2. \A f \in kid[k].file : f \in Files /\ shard[f].pc = "ready"
    BY <1>1 DEF LInv, Shape, Shaped
  <2> QED
    BY <1>1, <2>1, <2>2, ReadyIsReadable
<1>2. LInv => ReadsOwnFile
  BY <1>1 DEF ReadsOwnFile
<1> QED
  BY <1>2, LifetimeInvariant, PTL

\* A dictionary, which holds nothing, does for as long as somebody else holds
\* the shard file.
THEOREM DictionaryReadsOwnFile == ASSUME Corrupt = {} PROVE Spec => []DictionaryReads
<1>1. ASSUME LInv, NEW k \in Slots, kid[k].kind = "dictionary", NEW f \in kid[k].file, refs[f] > 0
      PROVE  Readable(f)
  <2>1. f \in Files /\ shard[f].pc \in {"ready", "finalized"}
    BY <1>1 DEF LInv, Shape, Shaped
  <2>2. shard[f].pc # "finalized"
    BY <1>1, <2>1 DEF LInv, Alive
  <2> QED
    BY <1>1, <2>1, <2>2, ReadyIsReadable
<1>2. LInv => DictionaryReads
  BY <1>1 DEF DictionaryReads
<1> QED
  BY <1>2, LifetimeInvariant, PTL

\* When every path that is set holds a shard, the only descriptor of another
\* part of the process that a call closes is 0, once a shard file was finalized
\* that never opened one; whatever numbers the kernel gave out again.
THEOREM OthersAreKept == ASSUME Corrupt = {} PROVE Spec => OthersKept
<1> DEFINE Kind == \A i \in 0..MaxFd : fds[i] = ELSEWHERE /\ fds'[i] # ELSEWHERE =>
                     UNCHANGED <<shard, kid, refs, user>> \/ (i = 0 /\ ZeroStruck')
<1>1. ASSUME LInv, [Next]_vars
      PROVE  Kind \/ UNCHANGED vars
  <2>1. CASE UNCHANGED fds
    BY <2>1
  <2>2. CASE OtherOpen \/ OtherClose
    BY <2>2 DEF OtherOpen, OtherClose
  <2>3. ASSUME NEW f \in Files, InitOpen(f)
        PROVE  Kind
    <3>1. \A i \in 0..MaxFd, j \in 0..MaxFd : Lowest(i) /\ fds' = [fds EXCEPT ![i] = f] /\ fds[j] = ELSEWHERE
                                            => fds'[j] = ELSEWHERE
      BY <1>1 DEF Lowest, LInv, TypeOK, FREE, ELSEWHERE
    <3> QED
      BY <2>3, <3>1 DEF InitOpen
  <2>4. ASSUME NEW f \in Files, InitDetect(f)
        PROVE  UNCHANGED fds
    BY <2>4 DEF InitDetect
  <2>5. ASSUME NEW x \in Objects, Unref(x)
        PROVE  Kind
    BY <1>1, <2>5, UnrefStep
  <2>6. ASSUME NEW f \in Files, New(f)
        PROVE  UNCHANGED fds
    BY <2>6 DEF New
  <2>7. ASSUME NEW x \in Objects, Ref(x)
        PROVE  UNCHANGED fds
    BY <2>7 DEF Ref
  <2>8. ASSUME NEW f \in Files, NEW k \in Slots, NEW data, NEW metadata, FindRecord(f, k, data, metadata)
        PROVE  UNCHANGED fds
    BY <2>8 DEF FindRecord
  <2>9. ASSUME NEW x \in Slots, NEW y \in Slots, GetBlob(x) \/ LookupBlob(x, y) \/ GetStream(x, y) \/ LoadAsDictionary(x, y)
        PROVE  UNCHANGED fds
    BY <2>9 DEF GetBlob, LookupBlob, GetStream, LoadAsDictionary
  <2> HIDE DEF Kind
  <2> QED
    BY <1>1, <2>1, <2>2, <2>3, <2>4, <2>5, <2>6, <2>7, <2>8, <2>9 DEF Next, vars
<1>2. LInv /\ [Next]_vars => [Kind]_vars
  BY <1>1
<1> QED
  BY <1>2, LifetimeInvariant, PTL DEF Spec, OthersKept
=============================================================================
