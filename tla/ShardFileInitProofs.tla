------------------------ MODULE ShardFileInitProofs ------------------------
(***************************************************************************)
(* Proofs about ShardFileInit: for any number of callers of init_async,    *)
(* wherever they come, cancel or let go, they are told one outcome, it is  *)
(* final, and an object they are told is good can be used.                 *)
(***************************************************************************)
EXTENDS ShardFileInit, FiniteSetTheorems, TLAPS

----------------------------------------------------------------------------
\* The inductive invariant. The tasks that hold a reference, and the thread's.
Pending == {c \in Callers : task[c].step \in {"waiting", "returned"}}
Working == IF worker.step \in {"open", "detect", "returned"} THEN 1 ELSE 0

\* Besides them there is at most the reference of the object's creator.
Counted == Held \in 0..1

\* The object's state, the thread's step and the steps of the tasks agree.
Unstarted ==
  /\ worker = [step |-> "none", result |-> OK] /\ init_results = <<>> /\ init_error = OK
  /\ impl = FALSE /\ fd = "none"
  /\ \A c \in Callers : task[c].step = "none"

Underway ==
  /\ worker.step \in {"open", "detect", "returned"}
  /\ starter \in Callers
  /\ \A c \in Callers : /\ task[c].step \in {"none", "waiting"}
                        /\ task[c].step = "waiting" <=> c \in Waiters

Settled ==
  /\ worker.step = "gone" /\ init_results = <<>>
  /\ \A c \in Callers : task[c].step \in {"none", "returned", "answered"}

InStep ==
  /\ init_state = "NOT_INITIALIZED" => Unstarted
  /\ init_state = "INITIALIZING" => Underway
  /\ init_state = "INITIALIZED" => Settled

\* What the thread has found is what the object has.
Consistent ==
  /\ worker.result # "cancelled"
  /\ worker.step \in {"returned", "gone"} /\ worker.result = OK /\ refs > 0 => impl /\ fd = "open"
  /\ worker.step = "detect" => fd = "open"

\* The outcome is the thread's or its cancellation; an answer is the outcome
\* or the caller's own cancellation.
Told ==
  /\ init_state = "INITIALIZED" =>
       init_error = worker.result \/ (init_error = "cancelled" /\ starter \in cancelled)
  /\ \A c \in Callers :
       /\ task[c].step = "returned" => task[c].result = init_error
       /\ task[c].step = "answered" =>
            task[c].result = init_error \/ (task[c].result = "cancelled" /\ c \in cancelled)

InitInv == TypeOK /\ Counted /\ InStep /\ Consistent /\ Told

----------------------------------------------------------------------------
\* Counting references.

LEMMA PendingFinite ==
  /\ IsFiniteSet(Pending) /\ Cardinality(Pending) \in Nat
  /\ Working \in {0, 1}
<1>1. Pending \subseteq Callers
  BY DEF Pending
<1> QED
  BY <1>1, CallersAssumption, FS_Subset, FS_CardinalityType DEF Working

LEMMA HeldValue == Held = refs - Cardinality(Pending) - Working
BY DEF Held, Pending, Working

LEMMA HeldValuePrime == Held' = refs' - Cardinality(Pending') - Working'
BY DEF Held, Pending, Working

\* A task that begins to hold its reference, and one that gives it back.
LEMMA PendingBegins ==
  ASSUME NEW c \in Callers, task[c].step \notin {"waiting", "returned"},
         task'[c].step \in {"waiting", "returned"},
         \A d \in Callers \ {c} : task'[d] = task[d]
  PROVE  Cardinality(Pending') = Cardinality(Pending) + 1
<1>1. Pending' = Pending \cup {c} /\ c \notin Pending
  BY DEF Pending
<1> QED
  BY <1>1, PendingFinite, FS_AddElement

LEMMA PendingEnds ==
  ASSUME NEW c \in Callers, task[c].step \in {"waiting", "returned"},
         task'[c].step \notin {"waiting", "returned"},
         \A d \in Callers \ {c} : task'[d] = task[d]
  PROVE  Cardinality(Pending') = Cardinality(Pending) - 1
<1>1. Pending' = Pending \ {c} /\ c \in Pending
  BY DEF Pending
<1> QED
  BY <1>1, PendingFinite, FS_RemoveElement

\* While somebody works or waits, there is a reference.
LEMMA Referenced ==
  ASSUME TypeOK, Counted
  PROVE  /\ Working = 1 => refs > 0
         /\ \A c \in Pending : refs > 0
<1>1. refs \in Nat /\ refs - Cardinality(Pending) - Working >= 0
  BY HeldValue, PendingFinite DEF Counted, TypeOK
<1>2. ASSUME NEW c \in Pending
      PROVE  Cardinality(Pending) > 0
  BY PendingFinite, FS_EmptySet
<1> QED
  BY <1>1, <1>2, PendingFinite

----------------------------------------------------------------------------
\* Every step preserves the invariant.

LEMMA InitInvInit == Init => InitInv
<1> SUFFICES ASSUME Init
             PROVE  InitInv
  OBVIOUS
<1>1. TypeOK
  <2>1. init_results \in Seq(Callers)
    BY SMT DEF Init
  <2>2. worker \in [step: {"none", "open", "detect", "returned", "gone"}, result: Outcomes]
    BY DEF Init, Outcomes
  <2>3. task \in [Callers -> [step: {"none", "waiting", "returned", "answered"}, result: Outcomes]]
    BY DEF Init, Outcomes
  <2> QED
    BY <2>1, <2>2, <2>3 DEF Init, TypeOK
<1>2. Counted
  <2>1. Pending = {} /\ Working = 0 /\ refs = 1
    BY DEF Init, Pending, Working
  <2> QED
    BY <2>1, FS_EmptySet, HeldValue DEF Counted
<1>3. InStep /\ Consistent /\ Told
  BY DEF Init, InStep, Unstarted, Consistent, Told, OK
<1> QED
  BY <1>1, <1>2, <1>3 DEF InitInv

\* init_async: the first call, one that waits, and a late one.
LEMMA InitAsyncKeeps ==
  ASSUME InitInv, NEW c \in Callers, InitAsync(c)
  PROVE  InitInv'
<1> USE DEF InitInv
<1>0. TypeOK /\ refs \in Nat /\ refs > 0 /\ task[c].step = "none" /\ Held \in Int
      /\ task[c].result \in Outcomes
  BY DEF InitAsync, InitAsyncFirst, InitAsyncWaiting, InitAsyncLate, TypeOK, Counted
<1>1. CASE InitAsyncFirst(c)
  <2>1. Unstarted /\ init_state = "NOT_INITIALIZED"
    BY <1>1 DEF InitAsyncFirst, InStep
  <2>2. TypeOK'
    <3>1. init_results' \in Seq(Callers)
      BY <1>0, <1>1, SMT DEF InitAsyncFirst, TypeOK
    <3>2. worker' \in [step: {"none", "open", "detect", "returned", "gone"}, result: Outcomes]
      BY <1>0, <1>1 DEF InitAsyncFirst, TypeOK
    <3>3. task' \in [Callers -> [step: {"none", "waiting", "returned", "answered"}, result: Outcomes]]
      BY <1>0, <1>1 DEF InitAsyncFirst, TypeOK
    <3> QED
      BY <1>0, <1>1, <3>1, <3>2, <3>3 DEF InitAsyncFirst, TypeOK
  <2>3. Counted'
    <3>1. Cardinality(Pending') = Cardinality(Pending) + 1
      <4>1. /\ task[c].step \notin {"waiting", "returned"}
            /\ task'[c].step \in {"waiting", "returned"}
            /\ \A d \in Callers \ {c} : task'[d] = task[d]
        BY <1>0, <1>1 DEF InitAsyncFirst, TypeOK
      <4> QED
        BY <4>1, PendingBegins
    <3>2. Working = 0 /\ Working' = 1 /\ refs' = refs + 2
      BY <1>1, <2>1, <2>2 DEF InitAsyncFirst, Working, Unstarted, TypeOK
    <3> QED
      BY <1>0, <3>1, <3>2, PendingFinite, HeldValue, HeldValuePrime DEF Counted
  <2>4. Waiters' = {c}
    <3>1. init_results' = <<c>>
      BY <1>1, <2>1 DEF InitAsyncFirst, Unstarted
    <3> QED
      BY <3>1 DEF Waiters
  <2>5. InStep'
    BY <1>0, <1>1, <2>1, <2>4 DEF InitAsyncFirst, InStep, Underway, Unstarted, TypeOK
  <2>6. Consistent' /\ Told'
    BY <1>0, <1>1, <2>1 DEF InitAsyncFirst, Consistent, Told, Unstarted, TypeOK, OK
  <2> QED
    BY <2>2, <2>3, <2>5, <2>6
<1>2. CASE InitAsyncWaiting(c)
  <2>1. Underway /\ init_state = "INITIALIZING"
    BY <1>2 DEF InitAsyncWaiting, InStep
  <2>2. TypeOK'
    BY <1>0, <1>2, SMT DEF InitAsyncWaiting, TypeOK
  <2>3. Counted'
    <3>1. Cardinality(Pending') = Cardinality(Pending) + 1
      <4>1. /\ task[c].step \notin {"waiting", "returned"}
            /\ task'[c].step \in {"waiting", "returned"}
            /\ \A d \in Callers \ {c} : task'[d] = task[d]
        BY <1>0, <1>2 DEF InitAsyncWaiting, TypeOK
      <4> QED
        BY <4>1, PendingBegins
    <3>2. Working' = Working /\ refs' = refs + 1
      BY <1>2 DEF InitAsyncWaiting, Working
    <3> QED
      BY <1>0, <3>1, <3>2, PendingFinite, HeldValue, HeldValuePrime DEF Counted
  <2>4. Waiters' = Waiters \cup {c}
    <3>1. /\ init_results \in Seq(Callers) /\ init_results' = Append(init_results, c)
      BY <1>0, <1>2 DEF InitAsyncWaiting, TypeOK
    <3> QED
      BY <3>1, SMT DEF Waiters
  <2>5. InStep'
    BY <1>0, <1>2, <2>1, <2>4 DEF InitAsyncWaiting, InStep, Underway, TypeOK
  <2>6. Consistent' /\ Told'
    BY <1>0, <1>2 DEF InitAsyncWaiting, Consistent, Told, TypeOK
  <2> QED
    BY <2>2, <2>3, <2>5, <2>6
<1>3. CASE InitAsyncLate(c)
  <2>1. Settled /\ init_state = "INITIALIZED"
    BY <1>3 DEF InitAsyncLate, InStep
  <2>2. TypeOK'
    BY <1>0, <1>3, SMT DEF InitAsyncLate, TypeOK, object, Outcomes
  <2>3. Counted'
    <3>1. Cardinality(Pending') = Cardinality(Pending) + 1
      <4>1. /\ task[c].step \notin {"waiting", "returned"}
            /\ task'[c].step \in {"waiting", "returned"}
            /\ \A d \in Callers \ {c} : task'[d] = task[d]
        BY <1>0, <1>3 DEF InitAsyncLate, TypeOK
      <4> QED
        BY <4>1, PendingBegins
    <3>2. Working' = Working /\ refs' = refs + 1
      BY <1>3 DEF InitAsyncLate, Working
    <3> QED
      BY <1>0, <3>1, <3>2, PendingFinite, HeldValue, HeldValuePrime DEF Counted
  <2>4. InStep'
    BY <1>0, <1>3, <2>1 DEF InitAsyncLate, InStep, Settled, TypeOK, object
  <2>5. Consistent' /\ Told'
    BY <1>0, <1>3 DEF InitAsyncLate, Consistent, Told, TypeOK, object
  <2> QED
    BY <2>2, <2>3, <2>4, <2>5
<1> QED
  BY <1>1, <1>2, <1>3 DEF InitAsync

\* The thread.
LEMMA ThreadKeeps ==
  ASSUME InitInv, Thread
  PROVE  InitInv'
<1> USE DEF InitInv
<1>1. /\ worker.step \in {"open", "detect"} /\ worker'.step \in {"detect", "returned"}
      /\ worker' \in [step: {"none", "open", "detect", "returned", "gone"}, result: Outcomes]
      /\ worker'.result # "cancelled"
      /\ UNCHANGED <<init_state, init_results, init_error, refs, starter, task, cancelled>>
  BY DEF Thread, ThreadOpen, ThreadDetect, TypeOK, Consistent, Outcomes, Errors, OK, object
<1>2. TypeOK'
  <2>1. impl' \in BOOLEAN /\ fd' \in {"none", "open", "closed"}
    BY DEF Thread, ThreadOpen, ThreadDetect, TypeOK
  <2> QED
    BY <1>1, <2>1 DEF TypeOK
<1>3. Counted'
  <2>1. Working' = Working /\ Pending' = Pending
    BY <1>1 DEF Working, Pending
  <2> QED
    BY <1>1, <2>1, HeldValue, HeldValuePrime DEF Counted
<1>4. init_state = "INITIALIZING"
  BY <1>1 DEF InStep, Unstarted, Settled, TypeOK
<1>5. InStep'
  BY <1>1, <1>4 DEF InStep, Underway, Waiters
<1>6. Consistent'
  BY <1>1 DEF Thread, ThreadOpen, ThreadDetect, Consistent, TypeOK, OK
<1>7. Told'
  BY <1>1, <1>4 DEF Told
<1> QED
  BY <1>2, <1>3, <1>5, <1>6, <1>7

\* The callback of the thread's task.
LEMMA ReadyKeeps ==
  ASSUME InitInv, Ready
  PROVE  InitInv'
<1> USE DEF InitInv
<1> DEFINE error == Propagated(starter, worker.result)
<1>1. worker.step = "returned" /\ refs \in Nat /\ worker.result \in Outcomes
  BY DEF Ready, TypeOK
<1>2. init_state = "INITIALIZING" /\ Underway
  BY <1>1 DEF InStep, Unstarted, Settled, TypeOK
<1>3. refs > 0 /\ Working = 1
  BY <1>1, Referenced DEF Working
<1>4. error \in Outcomes /\ (error = worker.result \/ (error = "cancelled" /\ starter \in cancelled))
  BY <1>1 DEF Propagated, Outcomes, Errors
<1>5. /\ init_error' = error /\ init_state' = "INITIALIZED" /\ init_results' = <<>>
      /\ worker' = [worker EXCEPT !.step = "gone"] /\ refs' = refs - 1
      /\ UNCHANGED <<impl, fd, starter, cancelled>>
      /\ task' = [c \in Callers |-> IF c \in Waiters THEN [step |-> "returned", result |-> error]
                                                     ELSE task[c]]
  BY DEF Ready, Answer
<1> HIDE DEF error
<1>6. /\ worker'.step = "gone" /\ worker'.result = worker.result
      /\ worker' \in [step: {"none", "open", "detect", "returned", "gone"}, result: Outcomes]
  BY <1>5 DEF TypeOK
<1>7. \A c \in Callers :
        IF task[c].step = "waiting"
          THEN task'[c].step = "returned" /\ task'[c].result = error
          ELSE task'[c] = task[c] /\ task[c].step = "none"
  BY <1>2, <1>5 DEF Underway
<1>8. TypeOK'
  <2>1. init_results' \in Seq(Callers)
    BY <1>5, SMT
  <2>2. task' \in [Callers -> [step: {"none", "waiting", "returned", "answered"}, result: Outcomes]]
    BY <1>4, <1>5 DEF TypeOK
  <2> QED
    BY <1>1, <1>3, <1>4, <1>5, <1>6, <2>1, <2>2 DEF TypeOK, Outcomes
<1>9. Counted'
  <2>1. Pending' = Pending
    BY <1>7 DEF Pending
  <2>2. Working' = 0
    BY <1>6 DEF Working
  <2> QED
    BY <1>1, <1>3, <1>5, <2>1, <2>2, PendingFinite, HeldValue, HeldValuePrime DEF Counted
<1>10. InStep'
  BY <1>5, <1>6, <1>7 DEF InStep, Settled
<1>11. Consistent'
  BY <1>1, <1>3, <1>5, <1>6 DEF Consistent
<1>12. Told'
  BY <1>4, <1>5, <1>6, <1>7 DEF Told
<1> QED
  BY <1>8, <1>9, <1>10, <1>11, <1>12

\* The callback of a caller.
LEMMA CallbackKeeps ==
  ASSUME InitInv, NEW c \in Callers, Callback(c)
  PROVE  InitInv'
<1> USE DEF InitInv
<1> DEFINE answer == Propagated(c, task[c].result)
<1>1. /\ task[c].step = "returned" /\ refs \in Nat /\ task[c].result \in Outcomes
      /\ task[c].result = init_error
  BY DEF Callback, TypeOK, Told
<1>2. answer \in Outcomes /\ (answer = init_error \/ (answer = "cancelled" /\ c \in cancelled))
  BY <1>1 DEF Propagated, Outcomes, Errors
<1>3. /\ task' = [task EXCEPT ![c] = [step |-> "answered", result |-> answer]]
      /\ refs' = refs - 1
      /\ UNCHANGED <<init_state, init_results, init_error, impl, fd, worker, starter, cancelled>>
  BY DEF Callback, object
<1> HIDE DEF answer
<1>4. refs > 0
  BY <1>1, Referenced DEF Pending
<1>5. /\ task'[c].step = "answered" /\ task'[c].result = answer
      /\ \A d \in Callers \ {c} : task'[d] = task[d]
  BY <1>3 DEF TypeOK
<1>6. TypeOK'
  <2>1. task' \in [Callers -> [step: {"none", "waiting", "returned", "answered"}, result: Outcomes]]
    BY <1>2, <1>3 DEF TypeOK
  <2> QED
    BY <1>1, <1>3, <1>4, <2>1 DEF TypeOK
<1>7. Counted'
  <2>1. Cardinality(Pending') = Cardinality(Pending) - 1
    BY <1>1, <1>5, PendingEnds
  <2>2. Working' = Working
    BY <1>3 DEF Working
  <2> QED
    BY <1>1, <1>3, <2>1, <2>2, PendingFinite, HeldValue, HeldValuePrime DEF Counted
<1>8. init_state = "INITIALIZED"
  BY <1>1 DEF InStep, Unstarted, Underway, TypeOK
<1>9. InStep'
  BY <1>3, <1>5, <1>8 DEF InStep, Settled
<1>10. Consistent'
  BY <1>1, <1>3, <1>4 DEF Consistent
<1>11. Told'
  BY <1>2, <1>3, <1>5 DEF Told
<1> QED
  BY <1>6, <1>7, <1>9, <1>10, <1>11

\* The cancellation, the creator's unref and the finalization.
LEMMA OthersKeep ==
  ASSUME InitInv, (\E c \in Callers : Cancel(c)) \/ Unref \/ Finalize
  PROVE  InitInv'
<1> USE DEF InitInv
<1>1. CASE \E c \in Callers : Cancel(c)
  <2>1. PICK c \in Callers : Cancel(c)
    BY <1>1
  <2>2. /\ cancelled' = cancelled \cup {c} /\ cancelled \subseteq Callers
        /\ UNCHANGED <<init_state, init_results, init_error, impl, fd, refs, worker, starter, task>>
    BY <2>1 DEF Cancel, object, TypeOK
  <2>3. TypeOK'
    BY <2>2 DEF TypeOK
  <2>4. Counted'
    BY <2>2 DEF Counted, Held
  <2>5. InStep' /\ Consistent' /\ Told'
    BY <2>2 DEF InStep, Unstarted, Underway, Settled, Waiters, Consistent, Told
  <2> QED
    BY <2>3, <2>4, <2>5
<1>2. CASE Unref
  <2>1. /\ refs' = refs - 1 /\ Held = 1 /\ refs \in Nat
        /\ UNCHANGED <<init_state, init_results, init_error, impl, fd, worker, starter, task, cancelled>>
    BY <1>2 DEF Unref, object, TypeOK
  <2>2. refs > 0
    BY <2>1, HeldValue, PendingFinite
  <2>3. TypeOK'
    BY <2>1, <2>2 DEF TypeOK
  <2>4. Counted'
    <3>1. Pending' = Pending /\ Working' = Working
      BY <2>1 DEF Pending, Working
    <3> QED
      BY <2>1, <3>1, PendingFinite, HeldValue, HeldValuePrime DEF Counted
  <2>5. InStep' /\ Told'
    BY <2>1 DEF InStep, Unstarted, Underway, Settled, Waiters, Told
  <2>6. Consistent'
    BY <2>1, <2>2 DEF Consistent
  <2> QED
    BY <2>3, <2>4, <2>5, <2>6
<1>3. CASE Finalize
  <2>1. /\ refs = 0 /\ (impl \/ fd = "open")
        /\ fd' = "closed" /\ impl' = FALSE /\ init_results' = <<>>
        /\ UNCHANGED <<init_state, init_error, refs, worker, starter, task, cancelled>>
    BY <1>3 DEF Finalize
  <2>2. Working = 0
    BY <2>1, Referenced, PendingFinite
  <2>3. init_state = "INITIALIZED"
    BY <2>1, <2>2 DEF InStep, Unstarted, Underway, Working, TypeOK
  <2>4. TypeOK'
    <3>1. init_results' \in Seq(Callers)
      BY <2>1, SMT
    <3> QED
      BY <2>1, <3>1 DEF TypeOK
  <2>5. Counted'
    BY <2>1 DEF Counted, Held
  <2>6. InStep' /\ Told'
    BY <2>1, <2>3 DEF InStep, Settled, Told
  <2>7. Consistent'
    BY <2>1, <2>2 DEF Consistent, Working
  <2> QED
    BY <2>4, <2>5, <2>6, <2>7
<1> QED
  BY <1>1, <1>2, <1>3

LEMMA InitInvStep == InitInv /\ [Next]_vars => InitInv'
<1> SUFFICES ASSUME InitInv, [Next]_vars
             PROVE  InitInv'
  OBVIOUS
<1>1. CASE Next
  BY <1>1, InitAsyncKeeps, ThreadKeeps, ReadyKeeps, CallbackKeeps, OthersKeep DEF Next
<1>2. CASE UNCHANGED vars
  BY <1>2 DEF vars, InitInv, TypeOK, Counted, Held, InStep, Unstarted, Underway, Settled,
              Waiters, Consistent, Told
<1> QED
  BY <1>1, <1>2

LEMMA InitInvAlways == Spec => []InitInv
BY InitInvInit, InitInvStep, PTL DEF Spec

----------------------------------------------------------------------------
\* Every reachable state has its types; in particular no reference is given
\* back that was not taken.
THEOREM TypeCorrect == Spec => []TypeOK
<1>1. InitInv => TypeOK
  BY DEF InitInv
<1> QED
  BY <1>1, InitInvAlways, PTL

\* For any number of callers of init_async: whoever is told the object is
\* initialized can use it, and all are told the same but for cancellations.
THEOREM OutcomeSafe == Spec => [](SuccessIsUsable /\ OneOutcome)
<1>1. ASSUME InitInv
      PROVE  SuccessIsUsable /\ OneOutcome
  <2> USE <1>1 DEF InitInv
  <2>1. ASSUME NEW c \in Callers, task[c].step \in {"returned", "answered"}
        PROVE  init_state = "INITIALIZED" /\ worker.step = "gone"
    BY <2>1 DEF InStep, Unstarted, Underway, Settled, TypeOK
  <2>2. SuccessIsUsable
    <3> SUFFICES ASSUME NEW c \in Callers, refs > 0,
                        task[c] \in [step: {"returned", "answered"}, result: {OK}]
                 PROVE  impl /\ fd = "open"
      BY DEF SuccessIsUsable
    <3>1. task[c].step \in {"returned", "answered"} /\ task[c].result = OK
      OBVIOUS
    <3>2. init_error = OK
      BY <3>1 DEF Told, OK
    <3>3. worker.result = OK /\ worker.step = "gone"
      BY <2>1, <3>1, <3>2 DEF Told, OK
    <3> QED
      BY <3>3 DEF Consistent
  <2>3. OneOutcome
    BY <2>1 DEF OneOutcome, Told, Consistent
  <2> QED
    BY <2>2, <2>3
<1> QED
  BY <1>1, InitInvAlways, PTL

\* The object outlives the thread's work and every pending task, whenever its
\* creator drops it.
THEOREM KeptAlive == Spec => []AliveWhilePending
<1>1. InitInv => AliveWhilePending
  BY Referenced DEF InitInv, AliveWhilePending, Working, Pending
<1> QED
  BY <1>1, InitInvAlways, PTL

\* A recorded outcome and an answer that was given never change.
THEOREM OutcomeKept == Spec => OutcomeIsFinal
<1> DEFINE Final == /\ init_state = "INITIALIZED" => init_state' = init_state /\ init_error' = init_error
                    /\ \A c \in Callers : task[c].step = "answered" => task'[c] = task[c]
<1>1. ASSUME InitInv, [Next]_vars
      PROVE  [Final]_vars
  <2> USE <1>1 DEF InitInv
  <2>1. ASSUME NEW c \in Callers, InitAsync(c)
        PROVE  Final
    BY <2>1 DEF InitAsync, InitAsyncFirst, InitAsyncWaiting, InitAsyncLate, TypeOK, object
  <2>2. CASE Thread
    BY <2>2 DEF Thread, ThreadOpen, ThreadDetect, object
  <2>3. CASE Ready
    <3>1. init_state = "INITIALIZING" /\ Underway
      BY <2>3 DEF Ready, InStep, Unstarted, Settled, TypeOK
    <3> QED
      BY <2>3, <3>1 DEF Underway
  <2>4. ASSUME NEW c \in Callers, Callback(c)
        PROVE  Final
    BY <2>4 DEF Callback, TypeOK, object
  <2>5. CASE (\E c \in Callers : Cancel(c)) \/ Unref \/ Finalize
    BY <2>5 DEF Cancel, Unref, Finalize, object
  <2> QED
    BY <2>1, <2>2, <2>3, <2>4, <2>5 DEF Next
<1> QED
  BY <1>1, InitInvAlways, PTL DEF Spec, OutcomeIsFinal
============================================================================
