--------------------------- MODULE ShardFileInit ---------------------------
(***************************************************************************)
(* The asynchronous initialization of an EosShardShardFile                 *)
(* (eos-shard-shard-file.c).  Any number of callers of init_async share    *)
(* one attempt: the first starts a thread that opens the file, the others  *)
(* wait in init_results, later ones get the recorded outcome at once.      *)
(*                                                                         *)
(* Two threads take part, the main loop and the thread of the first        *)
(* caller's task.  What GTask does is modelled from how it is used here:   *)
(* it keeps its source object alive, hands the thread's result to the      *)
(* main loop, and lets a cancelled GCancellable override the result.       *)
(***************************************************************************)
EXTENDS Integers, Sequences, FiniteSets

CONSTANTS
  Callers,   \* each calls init_async at most once
  NoCaller   \* not one of them

ASSUME NoCallerAssumption == NoCaller \notin Callers
ASSUME CallersAssumption == IsFiniteSet(Callers)

VARIABLES
  init_state, init_results, init_error,   \* the fields of the object
  impl,        \* the implementation is there
  fd,          \* "none", "open" or "closed"
  refs,        \* the reference count of the object; 0 when it is finalized
  worker,      \* the thread's task: its step and what it returned
  starter,     \* the caller whose cancellable the thread's task has
  task,        \* the task of each caller
  cancelled    \* the callers that cancelled

vars == <<init_state, init_results, init_error, impl, fd, refs, worker, starter, task, cancelled>>
object == <<init_state, init_results, init_error>>

OK == "ok"
Errors == {"not-found", "corrupt", "cancelled"}
Outcomes == {OK} \cup Errors

TypeOK ==
  /\ init_state \in {"NOT_INITIALIZED", "INITIALIZING", "INITIALIZED"}
  /\ init_results \in Seq(Callers)
  /\ init_error \in {OK} \cup Errors
  /\ impl \in BOOLEAN /\ fd \in {"none", "open", "closed"} /\ refs \in Nat
  /\ worker \in [step: {"none", "open", "detect", "returned", "gone"}, result: Outcomes]
  /\ starter \in Callers \cup {NoCaller}
  /\ task \in [Callers -> [step: {"none", "waiting", "returned", "answered"}, result: Outcomes]]
  /\ cancelled \in SUBSET Callers

\* A new object: one reference, that of whoever created it.
Init ==
  /\ init_state = "NOT_INITIALIZED" /\ init_results = <<>> /\ init_error = OK
  /\ impl = FALSE /\ fd = "none" /\ refs = 1
  /\ worker = [step |-> "none", result |-> OK] /\ starter = NoCaller
  /\ task = [c \in Callers |-> [step |-> "none", result |-> OK]]
  /\ cancelled = {}

\* g_task_propagate_boolean: a cancelled task has no other result.
Propagated(c, result) == IF c \in cancelled THEN "cancelled" ELSE result

----------------------------------------------------------------------------
\* An init_async that starts over after a failure.
InitAsyncFirst_Again(c) ==
  /\ refs > 0 /\ task[c].step = "none"
  /\ init_state = "NOT_INITIALIZED" \/ init_error # OK
  /\ init_state' = "INITIALIZING"
  /\ init_results' = Append(init_results, c)
  /\ task' = [task EXCEPT ![c].step = "waiting"]
  /\ worker' = [worker EXCEPT !.step = "open"] /\ starter' = c
  /\ refs' = refs + 2
  /\ UNCHANGED <<init_error, impl, fd, cancelled>>

\* init_async of the first caller: its task waits, the thread starts.
InitAsyncFirst(c) ==
  /\ refs > 0 /\ task[c].step = "none" /\ init_state = "NOT_INITIALIZED"
  /\ init_state' = "INITIALIZING"
  /\ init_results' = Append(init_results, c)
  /\ task' = [task EXCEPT ![c].step = "waiting"]
  /\ worker' = [worker EXCEPT !.step = "open"] /\ starter' = c
  /\ refs' = refs + 2
  /\ UNCHANGED <<init_error, impl, fd, cancelled>>

\* A call during the initialization that is answered like a late one.
InitAsyncWaiting_Early(c) ==
  /\ refs > 0 /\ task[c].step = "none" /\ init_state = "INITIALIZING"
  /\ task' = [task EXCEPT ![c] = [step |-> "returned", result |-> init_error]]
  /\ refs' = refs + 1
  /\ UNCHANGED <<object, impl, fd, worker, starter, cancelled>>

\* init_async while the thread is at work: the task waits with the others.
InitAsyncWaiting(c) ==
  /\ refs > 0 /\ task[c].step = "none" /\ init_state = "INITIALIZING"
  /\ init_results' = Append(init_results, c)
  /\ task' = [task EXCEPT ![c].step = "waiting"]
  /\ refs' = refs + 1
  /\ UNCHANGED <<init_state, init_error, impl, fd, worker, starter, cancelled>>

\* A late call that does not look at init_error.
InitAsyncLate_Ok(c) ==
  /\ refs > 0 /\ task[c].step = "none" /\ init_state = "INITIALIZED"
  /\ task' = [task EXCEPT ![c] = [step |-> "returned", result |-> OK]]
  /\ refs' = refs + 1
  /\ UNCHANGED <<object, impl, fd, worker, starter, cancelled>>

\* init_async once the outcome is known.
InitAsyncLate(c) ==
  /\ refs > 0 /\ task[c].step = "none" /\ init_state = "INITIALIZED"
  /\ task' = [task EXCEPT ![c] = [step |-> "returned", result |-> init_error]]
  /\ refs' = refs + 1
  /\ UNCHANGED <<object, impl, fd, worker, starter, cancelled>>

\* The thread, up to open().
ThreadOpen ==
  /\ worker.step = "open"
  /\ \/ /\ fd' = "open" /\ worker' = [worker EXCEPT !.step = "detect"]
     \/ /\ fd' = "none" /\ worker' = [step |-> "returned", result |-> "not-found"]
  /\ UNCHANGED <<object, impl, refs, starter, task, cancelled>>

\* The thread, detect_version: the implementation, or an error and no file.
ThreadDetect ==
  /\ worker.step = "detect"
  /\ \/ /\ impl' = TRUE /\ worker' = [step |-> "returned", result |-> OK]
        /\ UNCHANGED fd
     \/ /\ fd' = "closed" /\ worker' = [step |-> "returned", result |-> "corrupt"]
        /\ UNCHANGED impl
  /\ UNCHANGED <<object, refs, starter, task, cancelled>>

Waiters == {init_results[i] : i \in 1..Len(init_results)}

\* A callback that returns the first waiting task only.
Answer_First(error) ==
  task' = [task EXCEPT ![Head(init_results)] = [step |-> "returned", result |-> error]]

\* The loop of the callback: every waiting task gets the outcome.
Answer(error) ==
  task' = [c \in Callers |-> IF c \in Waiters THEN [step |-> "returned", result |-> error]
                                              ELSE task[c]]

\* init_async_ready, in the main loop: the outcome is recorded, whatever
\* overrode it, and passed on; the thread's task ends.
Ready ==
  /\ worker.step = "returned"
  /\ LET error == Propagated(starter, worker.result)
     IN  init_error' = error /\ Answer(error)
  /\ init_state' = "INITIALIZED" /\ init_results' = <<>>
  /\ worker' = [worker EXCEPT !.step = "gone"]
  /\ refs' = refs - 1
  /\ UNCHANGED <<impl, fd, starter, cancelled>>

\* A callback after which the task is released twice.
Callback_UnrefTwice(c) ==
  /\ task[c].step = "returned"
  /\ task' = [task EXCEPT ![c] = [step |-> "answered", result |-> Propagated(c, @.result)]]
  /\ refs' = refs - 2
  /\ UNCHANGED <<object, impl, fd, worker, starter, cancelled>>

\* The callback of a caller, which calls init_finish; its task ends.
Callback(c) ==
  /\ task[c].step = "returned"
  /\ task' = [task EXCEPT ![c] = [step |-> "answered", result |-> Propagated(c, @.result)]]
  /\ refs' = refs - 1
  /\ UNCHANGED <<object, impl, fd, worker, starter, cancelled>>

Cancel(c) ==
  /\ task[c].step \in {"waiting", "returned"} /\ c \notin cancelled
  /\ cancelled' = cancelled \cup {c}
  /\ UNCHANGED <<object, impl, fd, refs, worker, starter, task>>

\* The creator drops its reference, which it may do while tasks are pending.
\* (No caller takes one: a callback is lent the object.)
Held == refs - Cardinality({c \in Callers : task[c].step \in {"waiting", "returned"}})
             - (IF worker.step \in {"open", "detect", "returned"} THEN 1 ELSE 0)

Unref ==
  /\ Held = 1
  /\ refs' = refs - 1
  /\ UNCHANGED <<object, impl, fd, worker, starter, task, cancelled>>

\* finalize, when the last reference is gone: the descriptor is closed and
\* tasks that are still waiting are thrown away.  (It closes a descriptor
\* that was never opened, or is closed, as well: nothing here changes then.)
Finalize ==
  /\ refs = 0 /\ (impl \/ fd = "open")
  /\ fd' = "closed" /\ impl' = FALSE /\ init_results' = <<>>
  /\ UNCHANGED <<init_state, init_error, refs, worker, starter, task, cancelled>>

InitAsync(c) == InitAsyncFirst(c) \/ InitAsyncWaiting(c) \/ InitAsyncLate(c)
Thread == ThreadOpen \/ ThreadDetect

Next ==
  \/ \E c \in Callers : InitAsync(c) \/ Callback(c) \/ Cancel(c)
  \/ Thread \/ Ready \/ Unref \/ Finalize

\* The thread pool runs the task, the main loop dispatches what is ready.
Fairness == WF_vars(Thread) /\ WF_vars(Ready) /\ \A c \in Callers : WF_vars(Callback(c))

Spec == Init /\ [][Next]_vars
FairSpec == Spec /\ Fairness

----------------------------------------------------------------------------
\* A caller that is told the object is initialized can use it: the
\* implementation is there and its file open, whoever else cancelled, and
\* until the object goes away.
SuccessIsUsable ==
  \A c \in Callers :
    task[c] \in [step: {"returned", "answered"}, result: {OK}] /\ refs > 0 => impl /\ fd = "open"

\* Callers differ only by their own cancellation: nobody is told of an
\* initialized object while another is told that its file is bad, whether
\* they called before or after it was known.  And nobody is told "cancelled"
\* because of anybody but himself or the caller the thread works for.
OneOutcome ==
  \A c, d \in Callers :
    task[c].step = "answered" /\ task[d].step = "answered" =>
      /\ task[c].result = task[d].result \/ c \in cancelled \/ d \in cancelled
      /\ task[c].result = "cancelled" => cancelled \cap {c, starter} # {}

\* While the thread works, or a task is pending, the object is not
\* finalized, even if its creator let go of it.
AliveWhilePending ==
  /\ worker.step \in {"open", "detect", "returned"} => refs > 0
  /\ \A c \in Callers : task[c].step \in {"waiting", "returned"} => refs > 0

\* An outcome that has been recorded is final, and so is an answer.
OutcomeIsFinal ==
  [][/\ init_state = "INITIALIZED" => init_state' = init_state /\ init_error' = init_error
     /\ \A c \in Callers : task[c].step = "answered" => task'[c] = task[c]]_vars

\* Every call of init_async is answered: no task is forgotten in the list,
\* whenever it was put there.
EveryCallAnswered ==
  \A c \in Callers : (task[c].step = "waiting") ~> (task[c].step = "answered")
============================================================================
