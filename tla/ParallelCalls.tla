--------------------------- MODULE ParallelCalls ---------------------------
(***************************************************************************)
(* _run_parallel of python/kansai/distributed.py: one thread per callable, *)
(* started and joined in order by the caller, whose results come back in   *)
(* the order of the callables and whose exceptions are raised again.       *)
(***************************************************************************)
EXTENDS Integers, Sequences

CONSTANTS
  Outcomes,     \* what a callable may come to: values and exceptions
  Errors,       \* the exceptions among them
  None

ASSUME OutcomesAssumption == Errors \subseteq Outcomes /\ None \notin Outcomes

VARIABLES
  work,         \* what each callable comes to when it is run
  thread,       \* callable -> "new", "running" or "done"
  results,      \* callable -> its result, None so far
  errors,       \* callable -> its exception, None so far
  started,      \* threads the caller has started
  joined,       \* threads the caller has joined
  caller,       \* "starting", "joining", "returned" or "raised"
  raised        \* the exception the caller has raised, or None

parallelVars == <<work, thread, results, errors, started, joined, caller, raised>>

Callables == DOMAIN work

(* The state in which _run_parallel begins on some callables.              *)
Begins(callables) ==
  [thread  |-> [i \in DOMAIN callables |-> "new"],
   results |-> [i \in DOMAIN callables |-> None],
   errors  |-> [i \in DOMAIN callables |-> None]]

ParallelInit ==
  /\ work \in Seq(Outcomes)
  /\ thread = Begins(work).thread
  /\ results = Begins(work).results
  /\ errors = Begins(work).errors
  /\ started = 0 /\ joined = 0
  /\ caller = "starting" /\ raised = None

(* Mutation of StartThread: the loop runs once more than it should.        *)
StartOneMore ==
  /\ caller = "starting"
  /\ started <= Len(work)
  /\ started' = started + 1
  /\ thread' = [thread EXCEPT ![started + 1] = "running"]
  /\ UNCHANGED <<work, results, errors, joined, caller, raised>>

StartThread ==
  /\ caller = "starting"
  /\ started < Len(work)
  /\ started' = started + 1
  /\ thread' = [thread EXCEPT ![started + 1] = "running"]
  /\ UNCHANGED <<work, results, errors, joined, caller, raised>>

AllStarted ==
  /\ caller = "starting"
  /\ started = Len(work)
  /\ caller' = "joining"
  /\ UNCHANGED <<work, thread, results, errors, started, joined, raised>>

(* Mutation of ThreadReturns: results are kept in order of completion.     *)
ThreadAppends(i) ==
  /\ thread[i] = "running"
  /\ work[i] \notin Errors
  /\ results' = [results EXCEPT ![1 + Len(SelectSeq(results, LAMBDA r : r # None))] = work[i]]
  /\ thread' = [thread EXCEPT ![i] = "done"]
  /\ UNCHANGED <<work, errors, started, joined, caller, raised>>

(* runner(i), when its callable returns and when it raises.                *)
ThreadReturns(i) ==
  /\ thread[i] = "running"
  /\ work[i] \notin Errors
  /\ results' = [results EXCEPT ![i] = work[i]]
  /\ thread' = [thread EXCEPT ![i] = "done"]
  /\ UNCHANGED <<work, errors, started, joined, caller, raised>>

ThreadRaises(i) ==
  /\ thread[i] = "running"
  /\ work[i] \in Errors
  /\ errors' = [errors EXCEPT ![i] = work[i]]
  /\ thread' = [thread EXCEPT ![i] = "done"]
  /\ UNCHANGED <<work, results, started, joined, caller, raised>>

(* Mutation of JoinThread: the caller does not wait.                       *)
JoinAnyThread ==
  /\ caller = "joining"
  /\ joined < Len(work)
  /\ joined' = joined + 1
  /\ UNCHANGED <<work, thread, results, errors, started, caller, raised>>

JoinThread ==
  /\ caller = "joining"
  /\ joined < Len(work)
  /\ thread[joined + 1] = "done"
  /\ joined' = joined + 1
  /\ UNCHANGED <<work, thread, results, errors, started, caller, raised>>

FirstError(i) == errors[i] # None /\ \A j \in 1..(i - 1) : errors[j] = None

(* Mutation of RaiseFirst: the last error is raised.                       *)
RaiseLast ==
  /\ caller = "joining" /\ joined = Len(work)
  /\ \E i \in Callables :
       /\ errors[i] # None /\ \A j \in (i + 1)..Len(work) : errors[j] = None
       /\ raised' = errors[i]
  /\ caller' = "raised"
  /\ UNCHANGED <<work, thread, results, errors, started, joined>>

(* Every thread has been joined: the first error goes on, if there is one. *)
RaiseFirst ==
  /\ caller = "joining" /\ joined = Len(work)
  /\ \E i \in Callables : FirstError(i) /\ raised' = errors[i]
  /\ caller' = "raised"
  /\ UNCHANGED <<work, thread, results, errors, started, joined>>

ReturnResults ==
  /\ caller = "joining" /\ joined = Len(work)
  /\ \A i \in Callables : errors[i] = None
  /\ caller' = "returned"
  /\ UNCHANGED <<work, thread, results, errors, started, joined, raised>>

Caller == StartThread \/ AllStarted \/ JoinThread \/ RaiseFirst \/ ReturnResults

Thread(i) == ThreadReturns(i) \/ ThreadRaises(i)

ParallelNext == Caller \/ \E i \in Callables : Thread(i)

ParallelSpec == ParallelInit /\ [][ParallelNext]_parallelVars

(***************************************************************************)
(* Properties                                                              *)
(***************************************************************************)
(* The threads in the lists are those of the callables, no more are        *)
(* started, and none is joined before it is started (73-102).              *)
ParallelTypeOK ==
  /\ work \in Seq(Outcomes)
  /\ thread \in [Callables -> {"new", "running", "done"}]
  /\ results \in [Callables -> Outcomes \cup {None}]
  /\ errors \in [Callables -> Errors \cup {None}]
  /\ started \in 0..Len(work)
  /\ joined \in 0..started
  /\ caller \in {"starting", "joining", "returned", "raised"}
  /\ raised \in Errors \cup {None}

(* No thread is left behind when _run_parallel returns or raises, whoever  *)
(* was slow and whoever failed (distributed.py:82-85).                     *)
NobodyLeftBehind ==
  caller \in {"returned", "raised"} => \A i \in Callables : thread[i] = "done"

(* What comes back are the results, each in its callable's place whatever  *)
(* order the threads finished in, and only if none raised (94-102).        *)
ResultsInOrder ==
  caller = "returned" => results = work /\ \A i \in Callables : work[i] \notin Errors

(* No exception is lost, and which one is raised does not depend on timing:*)
(* it is that of the first callable that raises (99-101).                  *)
FirstErrorIsRaised ==
  caller = "raised" =>
    \E i \in Callables :
      work[i] = raised /\ raised \in Errors /\ \A j \in 1..(i - 1) : work[j] \notin Errors
=============================================================================
