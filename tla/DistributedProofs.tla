------------------------- MODULE DistributedProofs -------------------------
(***************************************************************************)
(* Proofs about DistributedRun, for every mesh, request and order in which *)
(* the threads run.                                                        *)
(***************************************************************************)
EXTENDS DistributedRun, DataInduction

(***************************************************************************)
(* The threads of one call, any number of them, whatever they come to and  *)
(* in whatever order they run                                              *)
(***************************************************************************)
(* The state of every thread, its slot in the two lists and the counters   *)
(* of the caller say the same.                                             *)
ThreadAccounted(i) ==
  /\ thread[i] = "new" <=> started < i
  /\ i <= joined => thread[i] = "done"
  /\ errors[i] # None => work[i] = errors[i]
  /\ thread[i] = "done" =>
       IF work[i] \in Errors THEN errors[i] = work[i] ELSE results[i] = work[i]

CallerAccounted ==
  /\ caller # "starting" => started = Len(work)
  /\ caller \in {"returned", "raised"} => joined = Len(work)
  /\ caller = "returned" => \A i \in Callables : errors[i] = None
  /\ caller = "raised" => \E i \in Callables : FirstError(i) /\ raised = errors[i]

ParallelInv ==
  /\ ParallelTypeOK
  /\ \A i \in Callables : ThreadAccounted(i)
  /\ CallerAccounted

LEMMA WorkIsIndexed ==
  ASSUME work \in Seq(Outcomes)
  PROVE  Len(work) \in Nat /\ Callables = 1..Len(work) /\ \A i \in Callables : work[i] \in Outcomes
BY DEF Callables

(* The slots that Begins lays out fit any callables.                       *)
LEMMA InitHolds == ParallelInit => ParallelInv
<1> SUFFICES ASSUME ParallelInit PROVE ParallelInv
  OBVIOUS
<1>1. Len(work) \in Nat /\ Callables = 1..Len(work)
  BY WorkIsIndexed DEF ParallelInit
<1>2. ParallelTypeOK
  BY <1>1 DEF ParallelInit, ParallelTypeOK, Begins, Callables
<1>3. \A i \in Callables : ThreadAccounted(i)
  BY <1>1, Z3 DEF ParallelInit, ThreadAccounted, Begins, Callables
<1>4. CallerAccounted
  BY DEF ParallelInit, CallerAccounted
<1> QED
  BY <1>2, <1>3, <1>4 DEF ParallelInv

(* What a step changes of one thread's slots, and of the caller's view, is *)
(* all that has to be looked at again.                                     *)
LEMMA StartThreadKeeps == ParallelInv /\ StartThread => ParallelInv'
<1> SUFFICES ASSUME ParallelInv, StartThread PROVE ParallelInv'
  OBVIOUS
<1>1. Len(work) \in Nat /\ Callables = 1..Len(work)
  BY WorkIsIndexed DEF ParallelInv, ParallelTypeOK
<1>2. started + 1 \in Callables /\ started' = started + 1 /\ started \in Nat
  BY <1>1 DEF StartThread, ParallelInv, ParallelTypeOK
<1>3. thread' \in [Callables -> {"new", "running", "done"}]
  BY <1>2 DEF StartThread, ParallelInv, ParallelTypeOK
<1>4. ParallelTypeOK'
  BY <1>1, <1>2, <1>3 DEF StartThread, ParallelInv, ParallelTypeOK, Callables
<1>5. ASSUME NEW i \in Callables PROVE ThreadAccounted(i)'
  <2>1. ThreadAccounted(i) /\ i \in Nat /\ joined \in 0..started
    BY <1>1 DEF ParallelInv, ParallelTypeOK
  <2>2. CASE i = started + 1
    <3>1. thread'[i] = "running" /\ ~(i <= joined)
      BY <2>1, <2>2, <1>2 DEF StartThread, ParallelInv, ParallelTypeOK
    <3> QED
      BY <3>1, <2>1, <2>2, <1>2 DEF StartThread, ThreadAccounted
  <2>3. CASE i # started + 1
    <3>1. thread'[i] = thread[i]
      BY <2>3, <1>2 DEF StartThread, ParallelInv, ParallelTypeOK
    <3> QED
      BY <3>1, <2>1, <2>3, <1>2 DEF StartThread, ThreadAccounted
  <2> QED
    BY <2>2, <2>3
<1>6. CallerAccounted'
  BY DEF StartThread, ParallelInv, CallerAccounted
<1> QED
  BY <1>4, <1>5, <1>6 DEF ParallelInv, Callables, StartThread

LEMMA AllStartedKeeps == ParallelInv /\ AllStarted => ParallelInv'
<1> SUFFICES ASSUME ParallelInv, AllStarted PROVE ParallelInv'
  OBVIOUS
<1>1. ParallelTypeOK'
  BY DEF AllStarted, ParallelInv, ParallelTypeOK, Callables
<1>2. \A i \in Callables : ThreadAccounted(i)'
  BY DEF AllStarted, ParallelInv, ThreadAccounted
<1>3. CallerAccounted'
  BY DEF AllStarted, ParallelInv, CallerAccounted
<1> QED
  BY <1>1, <1>2, <1>3 DEF ParallelInv, Callables, AllStarted

LEMMA ThreadReturnsKeeps ==
  ASSUME NEW t \in Callables, ParallelInv, ThreadReturns(t)
  PROVE  ParallelInv'
<1>1. t \in Nat /\ work[t] \in Outcomes /\ ~(started < t)
  <2>1. work \in Seq(Outcomes) /\ ThreadAccounted(t) /\ thread[t] = "running"
    BY DEF ThreadReturns, ParallelInv, ParallelTypeOK
  <2>2. t \in Nat /\ work[t] \in Outcomes
    BY <2>1, WorkIsIndexed
  <2> QED
    BY <2>1, <2>2 DEF ThreadAccounted
<1>2. /\ thread' \in [Callables -> {"new", "running", "done"}]
      /\ results' \in [Callables -> Outcomes \cup {None}]
  BY <1>1 DEF ThreadReturns, ParallelInv, ParallelTypeOK
<1>3. ParallelTypeOK'
  BY <1>2 DEF ThreadReturns, ParallelInv, ParallelTypeOK, Callables
<1>4. ASSUME NEW i \in Callables PROVE ThreadAccounted(i)'
  <2>1. CASE i = t
    <3>1. thread'[t] = "done" /\ results'[t] = work[t]
      BY DEF ThreadReturns, ParallelInv, ParallelTypeOK
    <3> QED
      BY <3>1, <2>1, <1>1 DEF ThreadReturns, ThreadAccounted, ParallelInv
  <2>2. CASE i # t
    <3>1. thread'[i] = thread[i] /\ results'[i] = results[i]
      BY <2>2 DEF ThreadReturns, ParallelInv, ParallelTypeOK
    <3> QED
      BY <3>1 DEF ThreadReturns, ThreadAccounted, ParallelInv
  <2> QED
    BY <2>1, <2>2
<1>5. CallerAccounted'
  BY DEF ThreadReturns, ParallelInv, CallerAccounted, FirstError, Callables
<1> QED
  BY <1>3, <1>4, <1>5 DEF ParallelInv, Callables, ThreadReturns

(* A thread that still runs keeps the caller waiting, so that no error can *)
(* come after the caller has looked at them.                               *)
LEMMA CallerWaits ==
  ASSUME ParallelInv, NEW t \in Callables, thread[t] = "running"
  PROVE  caller \in {"starting", "joining"}
<1>1. joined = Len(work) => t <= joined
  BY WorkIsIndexed DEF ParallelInv, ParallelTypeOK
<1> QED
  BY <1>1 DEF ParallelInv, ParallelTypeOK, ThreadAccounted, CallerAccounted

LEMMA ThreadRaisesKeeps ==
  ASSUME NEW t \in Callables, ParallelInv, ThreadRaises(t)
  PROVE  ParallelInv'
<1>1. t \in Nat /\ work[t] \in Errors /\ ~(started < t) /\ caller \in {"starting", "joining"}
  BY WorkIsIndexed, CallerWaits DEF ThreadRaises, ParallelInv, ParallelTypeOK, ThreadAccounted
<1>2. /\ thread' \in [Callables -> {"new", "running", "done"}]
      /\ errors' \in [Callables -> Errors \cup {None}]
  BY <1>1 DEF ThreadRaises, ParallelInv, ParallelTypeOK
<1>3. ParallelTypeOK'
  BY <1>2 DEF ThreadRaises, ParallelInv, ParallelTypeOK, Callables
<1>4. ASSUME NEW i \in Callables PROVE ThreadAccounted(i)'
  <2>1. CASE i = t
    <3>1. thread'[t] = "done" /\ errors'[t] = work[t]
      BY DEF ThreadRaises, ParallelInv, ParallelTypeOK
    <3> QED
      BY <3>1, <2>1, <1>1 DEF ThreadRaises, ThreadAccounted, ParallelInv
  <2>2. CASE i # t
    <3>1. thread'[i] = thread[i] /\ errors'[i] = errors[i]
      BY <2>2 DEF ThreadRaises, ParallelInv, ParallelTypeOK
    <3> QED
      BY <3>1 DEF ThreadRaises, ThreadAccounted, ParallelInv
  <2> QED
    BY <2>1, <2>2
<1>5. CallerAccounted'
  BY <1>1 DEF ThreadRaises, ParallelInv, CallerAccounted
<1> QED
  BY <1>3, <1>4, <1>5 DEF ParallelInv, Callables, ThreadRaises

LEMMA JoinThreadKeeps == ParallelInv /\ JoinThread => ParallelInv'
<1> SUFFICES ASSUME ParallelInv, JoinThread PROVE ParallelInv'
  OBVIOUS
<1>1. Len(work) \in Nat /\ Callables = 1..Len(work) /\ started = Len(work) /\ joined \in Nat
  BY WorkIsIndexed DEF JoinThread, ParallelInv, ParallelTypeOK, CallerAccounted
<1>2. ParallelTypeOK'
  BY <1>1 DEF JoinThread, ParallelInv, ParallelTypeOK, Callables
<1>3. ASSUME NEW i \in Callables PROVE ThreadAccounted(i)'
  <2>1. i <= joined' => i <= joined \/ i = joined + 1
    BY <1>1 DEF JoinThread
  <2> QED
    BY <2>1 DEF JoinThread, ThreadAccounted, ParallelInv
<1>4. CallerAccounted'
  BY DEF JoinThread, ParallelInv, CallerAccounted
<1> QED
  BY <1>2, <1>3, <1>4 DEF ParallelInv, Callables, JoinThread

LEMMA EndKeeps == ParallelInv /\ (RaiseFirst \/ ReturnResults) => ParallelInv'
<1> SUFFICES ASSUME ParallelInv, RaiseFirst \/ ReturnResults PROVE ParallelInv'
  OBVIOUS
<1>1. CASE RaiseFirst
  <2>1. PICK i \in Callables : FirstError(i) /\ raised' = errors[i]
    BY <1>1 DEF RaiseFirst
  <2>2. errors[i] \in Errors
    BY <2>1 DEF FirstError, ParallelInv, ParallelTypeOK
  <2>3. ParallelTypeOK'
    BY <1>1, <2>1, <2>2 DEF RaiseFirst, ParallelInv, ParallelTypeOK, Callables
  <2>4. \A k \in Callables : ThreadAccounted(k)'
    BY <1>1 DEF RaiseFirst, ParallelInv, ThreadAccounted
  <2>5. CallerAccounted'
    BY <1>1, <2>1 DEF RaiseFirst, ParallelInv, CallerAccounted, FirstError, Callables
  <2> QED
    BY <1>1, <2>3, <2>4, <2>5 DEF ParallelInv, Callables, RaiseFirst
<1>2. CASE ReturnResults
  <2>1. ParallelTypeOK'
    BY <1>2 DEF ReturnResults, ParallelInv, ParallelTypeOK, Callables
  <2>2. \A i \in Callables : ThreadAccounted(i)'
    BY <1>2 DEF ReturnResults, ParallelInv, ThreadAccounted
  <2>3. CallerAccounted'
    BY <1>2 DEF ReturnResults, ParallelInv, CallerAccounted, Callables
  <2> QED
    BY <1>2, <2>1, <2>2, <2>3 DEF ParallelInv, Callables, ReturnResults
<1> QED
  BY <1>1, <1>2

LEMMA StepKeeps == ParallelInv /\ [ParallelNext]_parallelVars => ParallelInv'
<1> SUFFICES ASSUME ParallelInv, [ParallelNext]_parallelVars PROVE ParallelInv'
  OBVIOUS
<1>1. CASE Caller
  BY <1>1, StartThreadKeeps, AllStartedKeeps, JoinThreadKeeps, EndKeeps DEF Caller
<1>2. CASE \E i \in Callables : Thread(i)
  BY <1>2, ThreadReturnsKeeps, ThreadRaisesKeeps DEF Thread
<1>3. CASE UNCHANGED parallelVars
  BY <1>3 DEF parallelVars, ParallelInv, ParallelTypeOK, ThreadAccounted, CallerAccounted,
              FirstError, Callables
<1> QED
  BY <1>1, <1>2, <1>3 DEF ParallelNext

LEMMA ParallelInvHolds == ParallelSpec => []ParallelInv
<1> QED
  BY InitHolds, StepKeeps, PTL DEF ParallelSpec

(* Before the caller goes on it has joined every thread.                   *)
LEMMA InvLeavesNobody == ParallelInv => NobodyLeftBehind
<1> SUFFICES ASSUME ParallelInv, caller \in {"returned", "raised"}, NEW i \in Callables
             PROVE  thread[i] = "done"
  BY DEF NobodyLeftBehind
<1>1. i <= joined
  BY WorkIsIndexed DEF ParallelInv, ParallelTypeOK, CallerAccounted
<1> QED
  BY <1>1 DEF ParallelInv, ThreadAccounted

(* A thread that returned has filled its own slot.                         *)
LEMMA InvKeepsOrder == ParallelInv => ResultsInOrder
<1> SUFFICES ASSUME ParallelInv, caller = "returned"
             PROVE  results = work /\ \A i \in Callables : work[i] \notin Errors
  BY DEF ResultsInOrder
<1>1. ASSUME NEW i \in Callables PROVE work[i] \notin Errors /\ results[i] = work[i]
  <2>1. i <= joined /\ errors[i] = None
    BY WorkIsIndexed DEF ParallelInv, ParallelTypeOK, CallerAccounted
  <2>2. None \notin Errors
    BY OutcomesAssumption
  <2> QED
    BY <2>1, <2>2 DEF ParallelInv, ThreadAccounted
<1>2. results = [i \in Callables |-> results[i]]
  BY DEF ParallelInv, ParallelTypeOK
<1>3. work = [i \in Callables |-> work[i]]
  BY DEF ParallelInv, ParallelTypeOK, Callables
<1> QED
  BY <1>1, <1>2, <1>3

(* The first slot with an exception is the first callable that raised.     *)
LEMMA InvRaisesFirst == ParallelInv => FirstErrorIsRaised
<1> SUFFICES ASSUME ParallelInv, caller = "raised" PROVE FirstErrorIsRaised
  BY DEF FirstErrorIsRaised
<1>1. PICK i \in Callables : FirstError(i) /\ raised = errors[i]
  BY DEF ParallelInv, CallerAccounted
<1>2. work[i] = raised /\ raised \in Errors
  BY <1>1 DEF FirstError, ParallelInv, ParallelTypeOK, ThreadAccounted
<1>3. ASSUME NEW j \in 1..(i - 1) PROVE work[j] \notin Errors
  <2>1. j \in Callables /\ j <= joined
    BY WorkIsIndexed DEF ParallelInv, ParallelTypeOK, CallerAccounted
  <2>2. errors[j] = None /\ None \notin Errors
    BY <1>1, OutcomesAssumption DEF FirstError
  <2> QED
    BY <2>1, <2>2 DEF ParallelInv, ThreadAccounted
<1> QED
  BY <1>2, <1>3 DEF FirstErrorIsRaised

(***************************************************************************)
(* What follows                                                            *)
(***************************************************************************)
(* The lists have one slot for each callable and only started threads are  *)
(* joined.                                                                 *)
THEOREM ParallelTypesHold == ParallelSpec => []ParallelTypeOK
<1>1. ParallelInv => ParallelTypeOK
  BY DEF ParallelInv
<1> QED
  BY <1>1, ParallelInvHolds, PTL

(* _run_parallel waits for every thread, also when one has raised.         *)
THEOREM NobodyIsLeftBehind == ParallelSpec => []NobodyLeftBehind
<1> QED
  BY InvLeavesNobody, ParallelInvHolds, PTL

(* Results come back in the order of the callables, whatever order the     *)
(* threads finish in.                                                      *)
THEOREM ResultsComeInOrder == ParallelSpec => []ResultsInOrder
<1> QED
  BY InvKeepsOrder, ParallelInvHolds, PTL

(* The error that comes out is that of the first callable that raises.     *)
THEOREM FirstErrorComesOut == ParallelSpec => []FirstErrorIsRaised
<1> QED
  BY InvRaisesFirst, ParallelInvHolds, PTL

(***************************************************************************)
(* The answer that a request deserves                                      *)
(***************************************************************************)
FirstFailure(outs) ==
  CHOOSE i \in DOMAIN outs : outs[i] \in Errors /\ \A k \in 1..(i - 1) : outs[k] \notin Errors

(* What the threads' work comes to, whoever is first to finish.            *)
Expected(j) ==
  IF ~ShardsFit(j) THEN ShapeError
  ELSE IF ~j.oneMesh THEN MeshError
  ELSE IF \E i \in DOMAIN WorkOf(j) : WorkOf(j)[i] \in Errors
       THEN WorkOf(j)[FirstFailure(WorkOf(j))]
       ELSE Combined(j, WorkOf(j))

(* Before _run_parallel, its lists are empty; from then on it is given the *)
(* work of this request, made of every shard of every argument.            *)
NotLaunched ==
  /\ work = << >> /\ thread = << >> /\ results = << >> /\ errors = << >>
  /\ started = 0 /\ joined = 0 /\ caller = "starting" /\ raised = None

RequestInv ==
  /\ job \in Jobs
  /\ comes = WorkOf(job)
  /\ due = SingleDevice(job)

SplittingInv ==
  /\ Len(shards) \in 0..Len(job.arguments) /\ DOMAIN shards = 1..Len(shards)
  /\ IsSequence(shards)
  /\ \A k \in DOMAIN shards :
       /\ SplitFits(job.arguments[k], job.placed[k], Len(job.mesh))
       /\ shards[k] = FromTensor(job.arguments[k], job.placed[k], Len(job.mesh))

StageInv ==
  /\ stage \in {"split", "launch", "parallel", "returned", "raised"}
  /\ stage \in {"launch", "parallel", "returned"} => Len(shards) = Len(job.arguments)
  /\ stage \in {"split", "launch"} => NotLaunched
  /\ stage \in {"parallel", "returned"} => work = comes /\ job.oneMesh
  /\ answer = IF stage \in {"returned", "raised"} THEN Expected(job) ELSE Pending

DistributedInv == RequestInv /\ SplittingInv /\ StageInv /\ ParallelInv

(***************************************************************************)
(* The invariant                                                           *)
(***************************************************************************)
LEMMA ArgumentsAreIndexed ==
  ASSUME NEW j \in Jobs
  PROVE  Len(j.arguments) \in Nat /\ DOMAIN j.arguments = 1..Len(j.arguments)
<1>1. IsSequence(j.arguments)
  BY JobsAssumption DEF IsSequence
<1> QED
  BY <1>1, SequenceIsAFunction

LEMMA AllSplitsFit ==
  ASSUME RequestInv, SplittingInv, Len(shards) = Len(job.arguments)
  PROVE  ShardsFit(job)
BY ArgumentsAreIndexed DEF RequestInv, SplittingInv, ShardsFit

LEMMA NotLaunchedFits == NotLaunched => ParallelInv
<1>1. NotLaunched => ParallelInit
  <2> SUFFICES ASSUME NotLaunched PROVE ParallelInit
    OBVIOUS
  <2>1. work \in Seq(Outcomes) /\ DOMAIN work = {}
    BY DEF NotLaunched
  <2>2. [i \in DOMAIN work |-> "new"] = << >> /\ [i \in DOMAIN work |-> None] = << >>
    BY <2>1
  <2> QED
    BY <2>1, <2>2 DEF NotLaunched, ParallelInit, Begins
<1> QED
  BY <1>1, InitHolds

LEMMA StartHolds == Init => DistributedInv
<1> SUFFICES ASSUME Init PROVE DistributedInv
  OBVIOUS
<1>1. RequestInv
  BY DEF Init, RequestInv, Comes, Due
<1>2. NotLaunched
  BY DEF Init, NotLaunched
<1>3. SplittingInv
  <2>1. shards = << >> /\ job \in Jobs
    BY DEF Init
  <2>2. IsSequence(shards) /\ Len(shards) = 0 /\ DOMAIN shards = {} /\ DOMAIN shards = 1..0
    BY <2>1 DEF IsSequence
  <2>3. Len(job.arguments) \in Nat
    BY <2>1, ArgumentsAreIndexed
  <2> QED
    BY <2>2, <2>3 DEF SplittingInv
<1>4. StageInv
  BY <1>2 DEF Init, StageInv
<1> QED
  BY <1>1, <1>2, <1>3, <1>4, NotLaunchedFits DEF DistributedInv

LEMMA SplitKeeps == DistributedInv /\ Split => DistributedInv'
<1> SUFFICES ASSUME DistributedInv, Split PROVE DistributedInv'
  OBVIOUS
<1> DEFINE k == Len(shards) + 1
           n == Len(job.mesh)
<1>1. RequestInv' /\ ParallelInv' /\ NotLaunched' /\ job \in Jobs
  BY DEF Split, DistributedInv, RequestInv, request, NotLaunched, parallelVars, ParallelInv,
         ParallelTypeOK, ThreadAccounted, CallerAccounted, FirstError, Callables, StageInv
<1>2. Len(job.arguments) \in Nat /\ DOMAIN job.arguments = 1..Len(job.arguments)
  BY <1>1, ArgumentsAreIndexed
<1>3. stage = "split" /\ k \in DOMAIN job.arguments /\ k \in 1..Len(job.arguments) /\ answer = Pending
  BY <1>2 DEF Split, DistributedInv, StageInv, SplittingInv
<1>4. CASE SplitFits(job.arguments[k], job.placed[k], n)
  <2> DEFINE next == FromTensor(job.arguments[k], job.placed[k], n)
  <2>1. /\ shards' = Append(shards, next) /\ job' = job
        /\ stage' = IF k = Len(job.arguments) THEN "launch" ELSE "split"
        /\ answer' = answer
    BY <1>4 DEF Split, request
  <2>2. /\ Len(shards') = k /\ DOMAIN shards' = 1..k /\ IsSequence(shards')
        /\ \A i \in 1..k : shards'[i] = IF i = k THEN next ELSE shards[i]
    BY <2>1, AppendToAnything DEF DistributedInv, SplittingInv
  <2>3. SplittingInv'
    <3>1. Len(shards') \in 0..Len(job'.arguments) /\ DOMAIN shards' = 1..Len(shards')
      BY <2>1, <2>2, <1>3
    <3>2. ASSUME NEW i \in DOMAIN shards'
          PROVE  /\ SplitFits(job.arguments[i], job.placed[i], n)
                 /\ shards'[i] = FromTensor(job.arguments[i], job.placed[i], n)
      <4>1. i = k \/ i \in DOMAIN shards
        BY <2>2 DEF DistributedInv, SplittingInv
      <4>2. CASE i = k
        BY <4>2, <2>2, <1>3, <1>4
      <4>3. CASE i # k
        BY <4>1, <4>3, <2>2 DEF DistributedInv, SplittingInv
      <4> QED
        BY <4>2, <4>3
    <3> QED
      BY <3>1, <3>2, <2>1, <2>2 DEF SplittingInv
  <2>4. StageInv'
    <3>1. stage' \in {"split", "launch"} /\ (stage' = "launch" => Len(shards') = Len(job'.arguments))
      BY <2>1, <2>2
    <3> QED
      BY <3>1, <2>1, <1>1, <1>3 DEF StageInv
  <2> QED
    BY <1>1, <2>3, <2>4 DEF DistributedInv
<1>5. CASE ~ SplitFits(job.arguments[k], job.placed[k], n)
  <2>1. stage' = "raised" /\ answer' = ShapeError /\ shards' = shards /\ job' = job
    BY <1>5 DEF Split, Raises, request
  <2>2. ~ ShardsFit(job)
    BY <1>3, <1>5 DEF ShardsFit
  <2>3. SplittingInv'
    BY <2>1 DEF DistributedInv, SplittingInv
  <2>4. StageInv'
    BY <2>1, <2>2 DEF StageInv, Expected
  <2> QED
    BY <1>1, <2>3, <2>4 DEF DistributedInv
<1> QED
  BY <1>4, <1>5

LEMMA LaunchKeeps == DistributedInv /\ Launch => DistributedInv'
<1> SUFFICES ASSUME DistributedInv, Launch PROVE DistributedInv'
  OBVIOUS
<1>1. RequestInv' /\ SplittingInv' /\ job' = job /\ comes' = comes /\ shards' = shards
  BY DEF Launch, DistributedInv, RequestInv, SplittingInv, request
<1>2. /\ NotLaunched /\ answer = Pending /\ Len(shards) = Len(job.arguments) /\ ShardsFit(job)
      /\ job \in Jobs /\ comes = WorkOf(job)
  BY AllSplitsFit DEF Launch, DistributedInv, StageInv, RequestInv
<1>3. CASE job.oneMesh
  <2>1. /\ stage' = "parallel" /\ work' = comes /\ answer' = answer
        /\ thread' = Begins(job.mesh).thread /\ results' = Begins(job.mesh).results
        /\ errors' = Begins(job.mesh).errors
        /\ started' = 0 /\ joined' = 0 /\ caller' = "starting" /\ raised' = None
    BY <1>2, <1>3 DEF Launch, NotLaunched
  <2>2. DOMAIN work' = DOMAIN job.mesh /\ work' \in Seq(Outcomes)
    BY <2>1, <1>2, JobsAssumption DEF WorkOf, Devices
  <2>3. (ParallelInit)'
    BY <2>1, <2>2 DEF ParallelInit, Begins
  <2>4. ParallelInv'
    BY <2>3, InitHolds, PTL
  <2>5. StageInv'
    BY <2>1, <1>1, <1>2, <1>3 DEF StageInv
  <2> QED
    BY <1>1, <2>4, <2>5 DEF DistributedInv
<1>4. CASE ~ job.oneMesh
  <2>1. /\ stage' = "raised" /\ answer' = MeshError
        /\ UNCHANGED <<work, thread, results, errors, started, joined, caller, raised>>
    BY <1>4 DEF Launch, Raises
  <2>2. ParallelInv'
    BY <2>1 DEF DistributedInv, ParallelInv, ParallelTypeOK, ThreadAccounted, CallerAccounted,
                FirstError, Callables
  <2>3. StageInv'
    BY <2>1, <1>1, <1>2, <1>4 DEF StageInv, Expected
  <2> QED
    BY <1>1, <2>2, <2>3 DEF DistributedInv
<1> QED
  BY <1>3, <1>4

LEMMA RunKeeps ==
  DistributedInv /\ stage = "parallel" /\ ParallelNext /\ UNCHANGED <<request, stage, shards, answer>>
    => DistributedInv'
<1> SUFFICES ASSUME DistributedInv, stage = "parallel", ParallelNext,
                    UNCHANGED <<request, stage, shards, answer>>
             PROVE  DistributedInv'
  OBVIOUS
<1>1. ParallelInv'
  BY StepKeeps DEF DistributedInv
<1>2. work' = work
  BY DEF ParallelNext, Caller, Thread, StartThread, AllStarted, JoinThread, RaiseFirst, ReturnResults,
         ThreadReturns, ThreadRaises
<1>3. RequestInv' /\ SplittingInv'
  BY DEF DistributedInv, RequestInv, SplittingInv, request
<1>4. StageInv'
  BY <1>2 DEF DistributedInv, StageInv, request
<1> QED
  BY <1>1, <1>3, <1>4 DEF DistributedInv

LEMMA FinishKeeps == DistributedInv /\ Finish => DistributedInv'
<1> SUFFICES ASSUME DistributedInv, Finish PROVE DistributedInv'
  OBVIOUS
<1>1. /\ stage = "parallel" /\ caller = "returned"
      /\ stage' = "returned" /\ answer' = Combined(job, results)
      /\ UNCHANGED <<request, shards, parallelVars>>
  BY DEF Finish
<1>2. RequestInv' /\ SplittingInv' /\ ParallelInv'
  BY <1>1 DEF DistributedInv, RequestInv, SplittingInv, ParallelInv, ParallelTypeOK, ThreadAccounted,
              CallerAccounted, FirstError, Callables, request, parallelVars
<1>3. ShardsFit(job) /\ job.oneMesh /\ work = WorkOf(job) /\ Len(shards) = Len(job.arguments)
  BY AllSplitsFit DEF Finish, DistributedInv, StageInv, RequestInv
<1>4. results = work /\ \A i \in DOMAIN work : work[i] \notin Errors
  BY <1>1, InvKeepsOrder DEF DistributedInv, ResultsInOrder, Callables
<1>5. answer' = Expected(job)
  BY <1>1, <1>3, <1>4 DEF Expected
<1>6. StageInv'
  BY <1>1, <1>3, <1>5 DEF StageInv, DistributedInv, request, parallelVars
<1> QED
  BY <1>2, <1>6 DEF DistributedInv

LEMMA FirstFailureIs ==
  ASSUME NEW outs, DOMAIN outs \subseteq Nat,
         NEW i \in DOMAIN outs, outs[i] \in Errors, \A k \in 1..(i - 1) : outs[k] \notin Errors,
         \A k \in DOMAIN outs : 1..k \subseteq DOMAIN outs /\ k >= 1
  PROVE  FirstFailure(outs) = i
<1>1. ASSUME NEW f \in DOMAIN outs, outs[f] \in Errors, \A k \in 1..(f - 1) : outs[k] \notin Errors
      PROVE  f = i
  <2>1. f \in Nat /\ i \in Nat /\ f >= 1 /\ i >= 1
    OBVIOUS
  <2>2. f < i => f \in 1..(i - 1)
    BY <2>1
  <2>3. i < f => i \in 1..(f - 1)
    BY <2>1
  <2> QED
    BY <1>1, <2>1, <2>2, <2>3
<1> QED
  BY <1>1 DEF FirstFailure

LEMMA PassOnKeeps == DistributedInv /\ PassOn => DistributedInv'
<1> SUFFICES ASSUME DistributedInv, PassOn PROVE DistributedInv'
  OBVIOUS
<1>1. /\ stage = "parallel" /\ caller = "raised"
      /\ stage' = "raised" /\ answer' = raised
      /\ UNCHANGED <<request, shards, parallelVars>>
  BY DEF PassOn, Raises
<1>2. RequestInv' /\ SplittingInv' /\ ParallelInv'
  BY <1>1 DEF DistributedInv, RequestInv, SplittingInv, ParallelInv, ParallelTypeOK, ThreadAccounted,
              CallerAccounted, FirstError, Callables, request, parallelVars
<1>3. ShardsFit(job) /\ job.oneMesh /\ work = WorkOf(job) /\ Len(shards) = Len(job.arguments)
  BY AllSplitsFit DEF PassOn, DistributedInv, StageInv, RequestInv
<1>4. PICK i \in DOMAIN work :
        work[i] = raised /\ raised \in Errors /\ \A k \in 1..(i - 1) : work[k] \notin Errors
  BY <1>1, InvRaisesFirst DEF DistributedInv, FirstErrorIsRaised, Callables
<1>5. DOMAIN work = 1..Len(work) /\ Len(work) \in Nat
  BY DEF DistributedInv, ParallelInv, ParallelTypeOK
<1>6. FirstFailure(work) = i
  BY <1>4, <1>5, FirstFailureIs
<1>7. answer' = Expected(job)
  BY <1>1, <1>3, <1>4, <1>6 DEF Expected
<1>8. StageInv'
  BY <1>1, <1>3, <1>7 DEF StageInv, DistributedInv, request, parallelVars
<1> QED
  BY <1>2, <1>8 DEF DistributedInv

LEMMA NextKeeps == DistributedInv /\ [Next]_vars => DistributedInv'
<1> SUFFICES ASSUME DistributedInv, [Next]_vars PROVE DistributedInv'
  OBVIOUS
<1>1. CASE RunParallel(Caller)
  BY <1>1, RunKeeps DEF RunParallel, ParallelNext
<1>2. CASE \E i \in AnyDevice : ThreadSteps(i)
  BY <1>2, RunKeeps DEF ThreadSteps, RunParallel, ParallelNext
<1>3. CASE UNCHANGED vars
  <2>1. RequestInv' /\ SplittingInv' /\ ParallelInv'
    BY <1>3 DEF DistributedInv, RequestInv, SplittingInv, ParallelInv, ParallelTypeOK, ThreadAccounted,
                CallerAccounted, FirstError, Callables, request, parallelVars, vars
  <2>2. StageInv'
    BY <1>3 DEF DistributedInv, StageInv, NotLaunched, request, parallelVars, vars
  <2> QED
    BY <2>1, <2>2 DEF DistributedInv
<1> QED
  BY <1>1, <1>2, <1>3, SplitKeeps, LaunchKeeps, FinishKeeps, PassOnKeeps DEF Next, CallerSteps

LEMMA DistributedInvHolds == Spec => []DistributedInv
<1> QED
  BY StartHolds, NextKeeps, PTL DEF Spec

(***************************************************************************)
(* Slices                                                                  *)
(***************************************************************************)
(* An index is a quadruple with a number in reach for each axis.           *)
Reaches(sizes, i) == i = <<i[1], i[2], i[3], i[4]>> /\ \A axis \in Axes : i[axis] \in 1..sizes[axis]

Sizes(shape) == [axis \in Axes |-> Size(shape, axis)]

LEMMA IndexReaches ==
  ASSUME NEW shape, NEW i
  PROVE  i \in Indices(shape) <=> Reaches(Sizes(shape), i)
<1>1. ASSUME i \in Indices(shape) PROVE Reaches(Sizes(shape), i)
  BY <1>1 DEF Indices, Reaches, Sizes, Axes
<1>2. ASSUME Reaches(Sizes(shape), i) PROVE i \in Indices(shape)
  BY <1>2 DEF Indices, Reaches, Sizes, Axes
<1> QED
  BY <1>1, <1>2

(* One axis of an index is moved.                                          *)
Put(i, axis, x) == [i EXCEPT ![axis] = x]

LEMMA PutIndex ==
  ASSUME NEW i, i = <<i[1], i[2], i[3], i[4]>>, NEW a \in Axes, NEW x
  PROVE  /\ Put(i, a, x) = <<Put(i, a, x)[1], Put(i, a, x)[2], Put(i, a, x)[3], Put(i, a, x)[4]>>
         /\ \A axis \in Axes : Put(i, a, x)[axis] = IF axis = a THEN x ELSE i[axis]
<1> DEFINE m == [i EXCEPT ![a] = x]
<1>2. DOMAIN i = 1..4
  OBVIOUS
<1>3. DOMAIN m = 1..4
  BY <1>2
<1>4. \A axis \in Axes : m[axis] = IF axis = a THEN x ELSE i[axis]
  BY <1>2 DEF Axes
<1>5. m = [k \in 1..4 |-> m[k]]
  BY <1>3
<1>6. <<m[1], m[2], m[3], m[4]>> = [k \in 1..4 |-> m[k]]
  <2> HIDE DEF m
  <2> QED
    OBVIOUS
<1>7. Put(i, a, x) = m
  BY DEF Put
<1> HIDE DEF m
<1> QED
  BY <1>4, <1>5, <1>6, <1>7

LEMMA AxisInReach ==
  ASSUME NEW r \in 1..4, NEW dim \in 1..r
  PROVE  dim + 4 - r \in 1..4
OBVIOUS

(* A dimension of a shape is replaced.                                     *)
Resized(shape, dim, n) == [shape EXCEPT ![dim] = n]

LEMMA ResizedShape ==
  ASSUME NEW shape \in Seq(Nat), Len(shape) \in Axes, NEW dim \in 1..Len(shape), NEW n \in Nat
  PROVE  /\ Axis(shape, dim) \in Axes
         /\ Axis(Resized(shape, dim, n), dim) = Axis(shape, dim)
         /\ Resized(shape, dim, n)[dim] = n
         /\ Sizes(Resized(shape, dim, n)) = [Sizes(shape) EXCEPT ![Axis(shape, dim)] = n]
<1> DEFINE s == Resized(shape, dim, n)
<1>1. s \in Seq(Nat) /\ Len(s) = Len(shape) /\ s[dim] = n
      /\ \A d \in 1..Len(shape) : d # dim => s[d] = shape[d]
  BY DEF Resized
<1> HIDE DEF s
<1> DEFINE a == Axis(shape, dim)
<1>0. PICK r \in 1..4 : r = Len(shape)
  BY DEF Axes
<1>2. a \in Axes /\ dim \in 1..r /\ a = dim + 4 - r
  <2>1. dim \in 1..r /\ a = dim + 4 - r
    BY <1>0 DEF Axis
  <2>2. a \in 1..4
    BY <2>1, <1>0, AxisInReach
  <2> QED
    BY <2>1, <2>2 DEF Axes
<1>3. Axis(s, dim) = a
  BY <1>0, <1>1 DEF Axis
<1>4. ASSUME NEW axis \in Axes
      PROVE  /\ Size(s, axis) = IF axis - 4 + r >= 1 THEN s[axis - 4 + r] ELSE 1
             /\ Size(shape, axis) = IF axis - 4 + r >= 1 THEN shape[axis - 4 + r] ELSE 1
  BY <1>0, <1>1 DEF Size
<1> HIDE DEF a
<1>7. ASSUME NEW axis \in Axes
      PROVE  Size(s, axis) = IF axis = a THEN n ELSE Size(shape, axis)
  <2> DEFINE d == axis - 4 + r
  <2>1. axis = a <=> d = dim
    BY <1>0, <1>2 DEF Axes
  <2>2. d \in Int /\ d <= r
    BY <1>0 DEF Axes
  <2>3. CASE d >= 1
    <3>1. d \in 1..r /\ (d # dim => s[d] = shape[d]) /\ s[dim] = n
      BY <2>2, <2>3, <1>0, <1>1
    <3>2. Size(s, axis) = s[d] /\ Size(shape, axis) = shape[d]
      BY <2>3, <1>4
    <3> QED
      BY <2>1, <3>1, <3>2
  <2>4. CASE ~ (d >= 1)
    BY <2>1, <2>2, <2>4, <1>2, <1>4
  <2> QED
    BY <2>3, <2>4
<1>5. Sizes(s) = [Sizes(shape) EXCEPT ![Axis(shape, dim)] = n]
  BY <1>2, <1>7 DEF Sizes, a
<1> QED
  BY <1>1, <1>2, <1>3, <1>5 DEF s, a

(* The CHOOSE of Tensor has its one candidate when that is of numbers.     *)
LEMMA TensorHasElements ==
  ASSUME NEW shape, NEW f, f \in [Indices(shape) -> Numbers]
  PROVE  (CHOOSE at \in {f} : at \in [Indices(shape) -> Numbers]) = f
OBVIOUS

LEMMA NumbersAreReduced ==
  ASSUME NEW x \in Numbers
  PROVE  x % P = x
BY PAssumption DEF Numbers

(***************************************************************************)
(* Rows                                                                    *)
(***************************************************************************)
(* The part of a tensor from + 1 to to along dim.                          *)
Moved(i, axis, by) == [i EXCEPT ![axis] = @ + by]

Rows(t, dim, from, to) ==
  [shape |-> Resized(t.shape, dim, to - from),
   at |-> [i \in Indices(Resized(t.shape, dim, to - from)) |->
             t.at[Moved(i, Axis(t.shape, dim), from)]]]

LEMMA ShapeOfTensor ==
  ASSUME NEW t, IsArgument(t)
  PROVE  t.shape \in Seq(Nat) /\ Len(t.shape) \in Axes
BY DEF IsArgument

(* Indices of a part, moved, are indices of the tensor.                    *)
LEMMA MovedInto ==
  ASSUME NEW shape \in Seq(Nat), Len(shape) \in Axes, NEW dim \in 1..Len(shape),
         NEW n \in Nat, NEW m \in Nat, NEW by \in Int, NEW i \in Indices(Resized(shape, dim, n)),
         i[Axis(shape, dim)] + by \in 1..m
  PROVE  Moved(i, Axis(shape, dim), by) \in Indices(Resized(shape, dim, m))
<1> DEFINE a == Axis(shape, dim)
           j == Moved(i, a, by)
<1>1. a \in Axes /\ Sizes(Resized(shape, dim, n)) = [Sizes(shape) EXCEPT ![a] = n]
      /\ Sizes(Resized(shape, dim, m)) = [Sizes(shape) EXCEPT ![a] = m]
  BY ResizedShape
<1>2. i = <<i[1], i[2], i[3], i[4]>> /\ \A axis \in Axes : i[axis] \in 1..Sizes(Resized(shape, dim, n))[axis]
  BY IndexReaches DEF Reaches
<1> HIDE DEF a
<1>3. j = <<j[1], j[2], j[3], j[4]>> /\ \A axis \in Axes : j[axis] = IF axis = a THEN i[a] + by ELSE i[axis]
  <2>1. j = Put(i, a, i[a] + by)
    BY DEF Moved, Put
  <2>2. a \in Axes /\ i = <<i[1], i[2], i[3], i[4]>>
    BY <1>1, <1>2
  <2> HIDE DEF j
  <2> QED
    BY <2>1, <2>2, PutIndex
<1> HIDE DEF j
<1>4. ASSUME NEW axis \in Axes PROVE j[axis] \in 1..Sizes(Resized(shape, dim, m))[axis]
  BY <1>1, <1>2, <1>3 DEF Sizes, a
<1>5. Reaches(Sizes(Resized(shape, dim, m)), j)
  BY <1>3, <1>4 DEF Reaches
<1> QED
  BY <1>5, IndexReaches DEF j, a

LEMMA WholeShape ==
  ASSUME NEW shape \in Seq(Nat), NEW dim \in 1..Len(shape)
  PROVE  Resized(shape, dim, shape[dim]) = shape /\ shape[dim] \in Nat
BY DEF Resized

(* Indices of a part name rows of the tensor.                              *)
LEMMA RowsReach ==
  ASSUME NEW t, IsArgument(t), NEW dim \in 1..Len(t.shape), NEW from \in Nat, NEW to \in Nat,
         from <= to, to <= t.shape[dim],
         NEW i \in Indices(Resized(t.shape, dim, to - from))
  PROVE  /\ i[Axis(t.shape, dim)] \in 1..(to - from)
         /\ Moved(i, Axis(t.shape, dim), from) \in Indices(t.shape)
         /\ t.at[Moved(i, Axis(t.shape, dim), from)] \in Numbers
<1> DEFINE s == t.shape
           a == Axis(s, dim)
           n == to - from
<1>1. s \in Seq(Nat) /\ Len(s) \in Axes /\ s[dim] \in Nat /\ n \in Nat
  BY ShapeOfTensor, WholeShape
<1>2. t.at \in [Indices(s) -> Numbers]
  BY DEF IsArgument
<1>3. to <= s[dim] /\ dim \in 1..Len(s) /\ i \in Indices(Resized(s, dim, n))
  OBVIOUS
<1> HIDE DEF s, n
<1>4. a \in Axes /\ Sizes(Resized(s, dim, n)) = [Sizes(s) EXCEPT ![a] = n]
  BY <1>1, <1>3, ResizedShape
<1>5. i[a] \in 1..Sizes(Resized(s, dim, n))[a]
  BY <1>3, <1>4, IndexReaches DEF Reaches
<1>6. i[a] \in 1..n
  BY <1>4, <1>5 DEF Sizes
<1>7. i[a] + from \in 1..s[dim]
  BY <1>1, <1>3, <1>6, SMTT(30) DEF n
<1>8. Moved(i, a, from) \in Indices(s)
  BY <1>1, <1>3, <1>7, MovedInto, WholeShape
<1> QED
  BY <1>2, <1>6, <1>8 DEF s, n

LEMMA SliceIsRows ==
  ASSUME NEW t, IsArgument(t), NEW dim \in 1..Len(t.shape), NEW from \in Nat, NEW to \in Nat,
         from <= to, to <= t.shape[dim]
  PROVE  Slice(t, dim, from, to) = Rows(t, dim, from, to)
<1> DEFINE s == Resized(t.shape, dim, to - from)
           a == Axis(t.shape, dim)
           f == [i \in Indices(s) |-> t.at[Moved(i, a, from)]]
           g == [i \in Indices(s) |-> t.at[Moved(i, a, from)] % P]
<1>1. \A i \in Indices(s) : t.at[Moved(i, a, from)] \in Numbers
  BY RowsReach
<1>2. \A i \in Indices(s) : t.at[Moved(i, a, from)] % P = t.at[Moved(i, a, from)]
  BY <1>1, NumbersAreReduced
<1>3. g = f /\ f \in [Indices(s) -> Numbers]
  <2> HIDE DEF s, a
  <2> QED
    BY <1>1, <1>2
<1>4. (CHOOSE at \in {g} : at \in [Indices(s) -> Numbers]) = f
  <2> HIDE DEF s, f, g
  <2> QED
    BY <1>3, TensorHasElements
<1>5. Slice(t, dim, from, to) = [shape |-> s, at |-> CHOOSE at \in {g} : at \in [Indices(s) -> Numbers]]
  BY Zenon DEF Slice, Tensor, Resized, Moved
<1> QED
  BY <1>4, <1>5 DEF Rows

(* All its rows are the tensor.                                            *)
LEMMA AllRows ==
  ASSUME NEW t, IsArgument(t), NEW dim \in 1..Len(t.shape)
  PROVE  Rows(t, dim, 0, t.shape[dim]) = t
<1> DEFINE s == t.shape
           a == Axis(s, dim)
<1>1. s \in Seq(Nat) /\ Len(s) \in Axes /\ s[dim] \in Nat /\ Resized(s, dim, s[dim]) = s
  BY ShapeOfTensor, WholeShape
<1>2. t.at \in [Indices(s) -> Numbers] /\ t = [shape |-> s, at |-> t.at]
  BY DEF IsArgument
<1>3. Resized(s, dim, s[dim] - 0) = s
  BY <1>1
<1>4. a \in Axes
  BY <1>1, ResizedShape
<1> HIDE DEF s, a
<1>5. ASSUME NEW i \in Indices(s) PROVE Moved(i, a, 0) = i
  <2>1. i = <<i[1], i[2], i[3], i[4]>> /\ i[a] \in Int
    BY <1>4, IndexReaches DEF Reaches
  <2>2. DOMAIN i = 1..4
    BY <2>1
  <2> QED
    BY <2>1, <2>2, <1>4 DEF Moved, Axes
<1>6. [i \in Indices(s) |-> t.at[Moved(i, a, 0)]] = t.at
  BY <1>2, <1>5
<1>7. Rows(t, dim, 0, s[dim]) = [shape |-> s, at |-> [i \in Indices(s) |-> t.at[Moved(i, a, 0)]]]
  BY <1>3, Zenon DEF Rows, s, a
<1> QED
  BY <1>2, <1>6, <1>7 DEF s

LEMMA MovedTwice ==
  ASSUME NEW shape, NEW i \in Indices(shape), NEW a \in Axes, NEW x \in Int, NEW y \in Int
  PROVE  Moved(Moved(i, a, x), a, y) = Moved(i, a, x + y) /\ i[a] \in Int
<1>1. i = <<i[1], i[2], i[3], i[4]>> /\ i[a] \in Int
  BY IndexReaches DEF Reaches
<1>2. DOMAIN i = 1..4
  BY <1>1
<1>3. a \in DOMAIN i
  BY <1>2 DEF Axes
<1>4. Moved(i, a, x) = Put(i, a, i[a] + x) /\ Moved(i, a, x + y) = Put(i, a, i[a] + (x + y))
  BY DEF Moved, Put
<1>5. Moved(Moved(i, a, x), a, y) = Put(Put(i, a, i[a] + x), a, Put(i, a, i[a] + x)[a] + y)
  BY <1>4 DEF Moved, Put
<1>6. Put(i, a, i[a] + x)[a] + y = i[a] + (x + y)
  BY <1>1, <1>3 DEF Put
<1>7. \A u, v : Put(Put(i, a, u), a, v) = Put(i, a, v)
  BY <1>3 DEF Put
<1> QED
  BY <1>1, <1>4, <1>5, <1>6, <1>7

(* Adjacent rows are put together.                                         *)
LEMMA CatOfRows ==
  ASSUME NEW t, IsArgument(t), NEW dim \in 1..Len(t.shape),
         NEW from \in Nat, NEW mid \in Nat, NEW to \in Nat, from <= mid, mid <= to, to <= t.shape[dim]
  PROVE  Cat2(Rows(t, dim, from, mid), Rows(t, dim, mid, to), dim) = Rows(t, dim, from, to)
<1> DEFINE a == Axis(t.shape, dim)
           left  == Resized(t.shape, dim, mid - from)
           right == Resized(t.shape, dim, to - mid)
           both  == Resized(t.shape, dim, to - from)
           A == Rows(t, dim, from, mid)
           B == Rows(t, dim, mid, to)
           f == [i \in Indices(both) |-> t.at[Moved(i, a, from)]]
           axis == Axis(A.shape, dim)
           size == A.shape[dim]
           shape == [A.shape EXCEPT ![dim] = @ + B.shape[dim]]
           element(i) == IF i[axis] <= size THEN A.at[i] ELSE B.at[[i EXCEPT ![axis] = @ - size]]
           g == [i \in Indices(shape) |-> element(i) % P]
<1>1. t.shape \in Seq(Nat) /\ Len(t.shape) \in Axes /\ a \in Axes
  BY ShapeOfTensor, ResizedShape
<1>2. mid - from \in Nat /\ to - mid \in Nat /\ to - from \in Nat /\ mid <= t.shape[dim] /\ from <= to
  BY <1>1
<1>3. /\ left[dim] = mid - from /\ right[dim] = to - mid /\ Axis(left, dim) = a
      /\ [left EXCEPT ![dim] = @ + right[dim]] = both
  <2>1. \A n \in Nat : Resized(t.shape, dim, n)[dim] = n /\ Axis(Resized(t.shape, dim, n), dim) = a
    BY <1>1, ResizedShape
  <2>4. left[dim] = mid - from /\ right[dim] = to - mid /\ Axis(left, dim) = a
    <3> HIDE DEF a
    <3> QED
      BY <2>1, <1>2
  <2>2. left[dim] + right[dim] = to - from
    BY <2>4, <1>2
  <2>3. [left EXCEPT ![dim] = left[dim] + right[dim]] = [t.shape EXCEPT ![dim] = left[dim] + right[dim]]
    BY <1>1 DEF Resized
  <2> QED
    BY <2>2, <2>3, <2>4 DEF Resized
<1>4. A.shape = left /\ B.shape = right
  BY DEF Rows
<1>9. axis = a /\ size = mid - from /\ shape = both
  BY <1>3, <1>4
<1> HIDE DEF axis, size, shape
<1>5. ASSUME NEW i \in Indices(both) PROVE element(i) = t.at[Moved(i, a, from)]
  <2>1. i[a] \in 1..(to - from)
    BY <1>2, RowsReach
  <2>2. CASE i[a] <= mid - from
    <3>1. Moved(i, a, 0) \in Indices(left)
      BY <1>1, <1>2, <2>1, <2>2, MovedInto
    <3>2. Moved(i, a, 0) = i
      <4>1. i = <<i[1], i[2], i[3], i[4]>>
        BY IndexReaches DEF Reaches
      <4>2. DOMAIN i = 1..4 /\ i[a] + 0 = i[a]
        BY <4>1, <2>1
      <4> HIDE DEF a
      <4> QED
        BY <4>1, <4>2, <1>1 DEF Moved, Axes
    <3>3. A.at[i] = t.at[Moved(i, a, from)]
      BY <3>1, <3>2 DEF Rows
    <3> QED
      BY <2>2, <3>3, <1>9
  <2>3. CASE ~ (i[a] <= mid - from)
    <3> DEFINE j == Moved(i, a, - (mid - from))
    <3>1. i[a] + (- (mid - from)) \in 1..(to - mid) /\ - (mid - from) \in Int
      BY <1>2, <2>1, <2>3, SMTT(30)
    <3>2. j \in Indices(right)
      BY <1>1, <1>2, <3>1, MovedInto
    <3>3. [i EXCEPT ![a] = @ - (mid - from)] = j
      <4>1. i[a] - (mid - from) = i[a] + (- (mid - from))
        BY <1>2, <2>1
      <4> HIDE DEF a
      <4> QED
        BY <4>1 DEF Moved
    <3>4. Moved(j, a, mid) = Moved(i, a, from)
      <4>1. - (mid - from) + mid = from
        OBVIOUS
      <4>2. Moved(j, a, mid) = Moved(i, a, - (mid - from) + mid)
        BY <1>1, <3>1, MovedTwice
      <4> QED
        BY <4>1, <4>2
    <3> HIDE DEF j
    <3>5. B.at[j] = t.at[Moved(j, a, mid)]
      BY <3>2 DEF Rows
    <3> QED
      BY <2>3, <3>3, <3>4, <3>5, <1>9
  <2> QED
    BY <2>2, <2>3
<1>6. g = f /\ g \in [Indices(shape) -> Numbers]
  <2>1. \A i \in Indices(both) : t.at[Moved(i, a, from)] \in Numbers
    BY <1>2, RowsReach
  <2>2. \A i \in Indices(both) : element(i) % P = t.at[Moved(i, a, from)]
    BY <1>5, <2>1, NumbersAreReduced
  <2> HIDE DEF both, element, a
  <2> QED
    BY <2>1, <2>2, <1>9
<1>7. (CHOOSE at \in {g} : at \in [Indices(shape) -> Numbers]) = f
  <2> HIDE DEF f, g
  <2> QED
    BY <1>6, TensorHasElements
<1>8. Cat2(A, B, dim) = [shape |-> shape, at |-> CHOOSE at \in {g} : at \in [Indices(shape) -> Numbers]]
  <2> HIDE DEF A, B
  <2> QED
    BY Zenon DEF Cat2, Tensor, shape, axis, size
<1> QED
  BY <1>7, <1>8, <1>9 DEF Rows

(***************************************************************************)
(* Chunks                                                                  *)
(***************************************************************************)
(* The loop of _split_tensor, unfolded.                                    *)
Offsets(sizes, n, f) == f = [k \in 1..n |-> IF k = 1 THEN 0 ELSE f[k - 1] + sizes[k - 1]]

LEMMA OffsetsExist ==
  ASSUME NEW sizes, NEW n \in Nat
  PROVE  \E f : Offsets(sizes, n, f)
<1> DEFINE S == {m \in Nat : \E f : Offsets(sizes, m, f)}
<1>1. 0 \in S
  <2>1. Offsets(sizes, 0, [i \in 1..0 |-> 0])
    BY DEF Offsets
  <2> QED
    BY <2>1
<1>2. ASSUME NEW m \in Nat, m \in S PROVE m + 1 \in S
  <2>1. PICK f : Offsets(sizes, m, f)
    BY <1>2
  <2> DEFINE g == [i \in 1..(m + 1) |->
                     IF i = m + 1 THEN IF m = 0 THEN 0 ELSE f[m] + sizes[m] ELSE f[i]]
  <2>2. ASSUME NEW i \in 1..(m + 1)
        PROVE  g[i] = IF i = 1 THEN 0 ELSE g[i - 1] + sizes[i - 1]
    <3>1. CASE i = m + 1
      <4>1. i # 1 => m \in 1..(m + 1) /\ m # m + 1 /\ i - 1 = m
        BY <3>1
      <4>2. i # 1 => g[i - 1] = f[m]
        BY <4>1
      <4>3. g[i] = IF m = 0 THEN 0 ELSE f[m] + sizes[m]
        BY <3>1
      <4> HIDE DEF g
      <4> QED
        BY <3>1, <4>1, <4>2, <4>3
    <3>2. CASE i # m + 1
      <4>1. i \in 1..m /\ (i # 1 => i - 1 \in 1..m)
        BY <3>2
      <4>2. g[i] = f[i] /\ (i # 1 => g[i - 1] = f[i - 1])
        BY <3>2, <4>1
      <4>3. f[i] = IF i = 1 THEN 0 ELSE f[i - 1] + sizes[i - 1]
        BY <2>1, <4>1 DEF Offsets
      <4> HIDE DEF g
      <4> QED
        BY <4>1, <4>2, <4>3
    <3> QED
      BY <3>1, <3>2
  <2>3. Offsets(sizes, m + 1, g)
    BY <2>2 DEF Offsets
  <2> HIDE DEF g
  <2> QED
    BY <2>3
<1> HIDE DEF S
<1>3. n \in S
  BY <1>1, <1>2, SetInduction
<1> QED
  BY <1>3 DEF S

LEMMA OffsetUnfolds ==
  ASSUME NEW sizes, NEW i \in Nat
  PROVE  \E f : Offsets(sizes, i, f) /\ Offset(sizes, i) = f[i]
<1> DEFINE f == CHOOSE f : Offsets(sizes, i, f)
<1>1. Offset(sizes, i) = f[i]
  BY Zenon DEF Offset, Offsets
<1>2. Offsets(sizes, i, f)
  BY OffsetsExist
<1> QED
  BY <1>1, <1>2

(* The first k chunks: k times the quotient, and one more each until the   *)
(* remainder is used up.                                                   *)
Ahead(q, r, k) == k * q + (IF k <= r THEN k ELSE r)

LEMMA Quotient ==
  ASSUME NEW total \in Nat, NEW n \in Nat \ {0}
  PROVE  /\ total \div n \in Nat /\ total % n \in 0..(n - 1)
         /\ n * (total \div n) + (total % n) = total
OBVIOUS

LEMMA NextChunk ==
  ASSUME NEW q \in Nat, NEW r \in Nat, NEW k \in Nat
  PROVE  /\ Ahead(q, r, k) \in Nat
         /\ Ahead(q, r, k + 1) = Ahead(q, r, k) + (IF k + 1 <= r THEN q + 1 ELSE q)
<1>1. k * q \in Nat /\ (k + 1) * q = k * q + q
  OBVIOUS
<1> QED
  BY <1>1 DEF Ahead

LEMMA ChunksFit ==
  ASSUME NEW q \in Nat, NEW n \in Nat, NEW r \in 0..n, NEW k \in 0..n
  PROVE  Ahead(q, r, k) <= Ahead(q, r, n) /\ Ahead(q, r, n) = n * q + r
<1>1. PICK m \in Nat : n = k + m
  <2>1. n - k \in Nat /\ n = k + (n - k)
    OBVIOUS
  <2> QED
    BY <2>1
<1>2. n * q = k * q + m * q /\ m * q \in Nat /\ k * q \in Nat
  BY <1>1
<1> QED
  BY <1>2 DEF Ahead

LEMMA OffsetOfChunk ==
  ASSUME NEW total \in Nat, NEW n \in Nat \ {0}, NEW i \in 1..n
  PROVE  Offset(ChunkSizes(total, n), i) = Ahead(total \div n, total % n, i - 1)
<1> DEFINE q == total \div n
           r == total % n
           sizes == ChunkSizes(total, n)
<1>1. q \in Nat /\ r \in Nat
  BY Quotient
<1>2. \A k \in 1..n : sizes[k] = IF k <= r THEN q + 1 ELSE q
  BY DEF ChunkSizes
<1> HIDE DEF q, r, sizes
<1>3. PICK f : Offsets(sizes, i, f) /\ Offset(sizes, i) = f[i]
  BY OffsetUnfolds
<1> DEFINE S == {k \in 0..i : k # 0 => f[k] = Ahead(q, r, k - 1)}
<1>4. 0 \in S
  OBVIOUS
<1>5. ASSUME NEW k \in 0..(i - 1), k \in S PROVE k + 1 \in S
  <2>1. f[k + 1] = IF k + 1 = 1 THEN 0 ELSE f[(k + 1) - 1] + sizes[(k + 1) - 1]
    <3>1. k + 1 \in 1..i
      OBVIOUS
    <3> QED
      BY <3>1, <1>3 DEF Offsets
  <2>2. CASE k = 0
    <3>1. Ahead(q, r, 0) = 0
      BY <1>1 DEF Ahead
    <3> QED
      BY <2>1, <2>2, <3>1
  <2>3. CASE k # 0
    <3>1. k \in 1..n /\ k - 1 \in Nat /\ (k - 1) + 1 = k /\ (k + 1) - 1 = k
      BY <2>3
    <3>2. f[k] = Ahead(q, r, k - 1)
      BY <1>5, <2>3
    <3>3. Ahead(q, r, k) = Ahead(q, r, k - 1) + (IF k <= r THEN q + 1 ELSE q)
      <4> DEFINE p == k - 1
      <4>1. p \in Nat /\ p + 1 = k
        BY <3>1
      <4> HIDE DEF p
      <4>2. Ahead(q, r, p + 1) = Ahead(q, r, p) + (IF p + 1 <= r THEN q + 1 ELSE q)
        BY <1>1, <4>1, NextChunk
      <4> QED
        BY <4>1, <4>2 DEF p
    <3>4. f[k + 1] = f[k] + sizes[k]
      BY <2>1, <2>3, <3>1
    <3>5. f[k + 1] = Ahead(q, r, k)
      BY <3>1, <3>2, <3>3, <3>4, <1>2
    <3> QED
      BY <3>1, <3>5
  <2> QED
    BY <2>2, <2>3
<1> HIDE DEF S
<1>6. i \in S
  BY <1>4, <1>5, BoundedInduction
<1> QED
  BY <1>3, <1>6 DEF S, q, r, sizes

(***************************************************************************)
(* Putting the shards together                                             *)
(***************************************************************************)
(* The loop of Cat, unfolded.                                              *)
Joins(ts, dim, D, f) == f = [k \in D |-> IF k = 1 THEN ts[1] ELSE Cat2(f[k - 1], ts[k], dim)]

LEMMA JoinsExist ==
  ASSUME NEW ts, NEW dim, NEW n \in Nat
  PROVE  \E f : Joins(ts, dim, 1..n, f)
<1> DEFINE S == {m \in Nat : \E f : Joins(ts, dim, 1..m, f)}
<1>1. 0 \in S
  <2>1. Joins(ts, dim, 1..0, [i \in 1..0 |-> 0])
    BY DEF Joins
  <2> QED
    BY <2>1
<1>2. ASSUME NEW m \in Nat, m \in S PROVE m + 1 \in S
  <2>1. PICK f : Joins(ts, dim, 1..m, f)
    BY <1>2
  <2> DEFINE g == [i \in 1..(m + 1) |->
                     IF i = m + 1 THEN IF m = 0 THEN ts[1] ELSE Cat2(f[m], ts[m + 1], dim) ELSE f[i]]
  <2>2. ASSUME NEW i \in 1..(m + 1)
        PROVE  g[i] = IF i = 1 THEN ts[1] ELSE Cat2(g[i - 1], ts[i], dim)
    <3>1. CASE i = m + 1
      <4>1. i # 1 => m \in 1..(m + 1) /\ m # m + 1 /\ i - 1 = m
        BY <3>1
      <4>2. i # 1 => g[i - 1] = f[m]
        BY <4>1
      <4>3. g[i] = IF m = 0 THEN ts[1] ELSE Cat2(f[m], ts[m + 1], dim)
        BY <3>1
      <4> HIDE DEF g
      <4> QED
        BY <3>1, <4>1, <4>2, <4>3
    <3>2. CASE i # m + 1
      <4>1. i \in 1..m /\ (i # 1 => i - 1 \in 1..m)
        BY <3>2
      <4>2. g[i] = f[i] /\ (i # 1 => g[i - 1] = f[i - 1])
        BY <3>2, <4>1
      <4>3. f[i] = IF i = 1 THEN ts[1] ELSE Cat2(f[i - 1], ts[i], dim)
        BY <2>1, <4>1 DEF Joins
      <4> HIDE DEF g
      <4> QED
        BY <4>1, <4>2, <4>3
    <3> QED
      BY <3>1, <3>2
  <2>3. Joins(ts, dim, 1..(m + 1), g)
    BY <2>2 DEF Joins
  <2> HIDE DEF g
  <2> QED
    BY <2>3
<1> HIDE DEF S
<1>3. n \in S
  BY <1>1, <1>2, SetInduction
<1> QED
  BY <1>3 DEF S

LEMMA CatUnfolds ==
  ASSUME NEW ts, NEW dim, NEW n \in Nat, Len(ts) = n, DOMAIN ts = 1..n
  PROVE  \E f : Joins(ts, dim, 1..n, f) /\ Cat(ts, dim) = f[n]
<1> DEFINE f == CHOOSE f : Joins(ts, dim, DOMAIN ts, f)
<1>1. Cat(ts, dim) = f[Len(ts)]
  BY Zenon DEF Cat, Joins
<1>2. Joins(ts, dim, 1..n, f)
  BY JoinsExist
<1> QED
  BY <1>1, <1>2

(* The row at which a shard ends.                                          *)
ChunkEnd(t, dim, n, i) == Ahead(t.shape[dim] \div n, t.shape[dim] % n, i)

(* The shards of a tensor are consecutive parts of it, each with the rows  *)
(* that _chunk_sizes gives it.                                             *)
LEMMA ShardsAreRows ==
  ASSUME NEW t, IsArgument(t), NEW dim \in 1..Len(t.shape), NEW n \in Nat \ {0}
  PROVE  /\ ChunkEnd(t, dim, n, 0) = 0 /\ ChunkEnd(t, dim, n, n) = t.shape[dim]
         /\ \A i \in 1..n :
              /\ ChunkEnd(t, dim, n, i - 1) \in Nat /\ ChunkEnd(t, dim, n, i) \in Nat
              /\ ChunkEnd(t, dim, n, i) - ChunkEnd(t, dim, n, i - 1) - (t.shape[dim] \div n) \in {0, 1}
              /\ ChunkEnd(t, dim, n, i - 1) <= ChunkEnd(t, dim, n, i)
              /\ ChunkEnd(t, dim, n, i) <= t.shape[dim]
              /\ SplitTensor(t, dim, n)[i]
                   = Rows(t, dim, ChunkEnd(t, dim, n, i - 1), ChunkEnd(t, dim, n, i))
<1> DEFINE total == t.shape[dim]
           q == total \div n
           r == total % n
           sizes == ChunkSizes(total, n)
<1>1. total \in Nat
  BY ShapeOfTensor, WholeShape
<1> HIDE DEF total
<1>2. q \in Nat /\ r \in 0..n /\ n * q + r = total
  <2>1. total \div n \in Nat /\ total % n \in 0..(n - 1) /\ n * (total \div n) + (total % n) = total
    BY <1>1, Quotient
  <2> QED
    BY <2>1
<1>3. \A i \in 1..n : sizes[i] = IF i <= r THEN q + 1 ELSE q
  BY DEF ChunkSizes
<1>4. \A i \in 1..n : Offset(sizes, i) = Ahead(q, r, i - 1)
  BY <1>1, OffsetOfChunk
<1>5. \A i \in 1..n : SplitTensor(t, dim, n)[i] = Slice(t, dim, Offset(sizes, i), Offset(sizes, i) + sizes[i])
  BY DEF SplitTensor, total
<1> HIDE DEF q, r, sizes
<1>6. Ahead(q, r, 0) = 0 /\ Ahead(q, r, n) = total
  <2>1. Ahead(q, r, 0) = 0
    BY <1>2 DEF Ahead
  <2>2. Ahead(q, r, n) = n * q + r
    BY <1>2, ChunksFit
  <2> QED
    BY <2>1, <2>2, <1>2
<1>7. ASSUME NEW i \in 1..n
      PROVE  /\ Ahead(q, r, i - 1) \in Nat /\ Ahead(q, r, i) \in Nat
             /\ Ahead(q, r, i) = Ahead(q, r, i - 1) + sizes[i]
             /\ Ahead(q, r, i) - Ahead(q, r, i - 1) - q \in {0, 1}
             /\ Ahead(q, r, i - 1) <= Ahead(q, r, i) /\ Ahead(q, r, i) <= total
  <2> DEFINE p == i - 1
  <2>1. p \in Nat /\ p + 1 = i /\ i \in Nat /\ r \in Nat /\ i \in 0..n
    BY <1>2
  <2> HIDE DEF p
  <2>2. /\ Ahead(q, r, p) \in Nat
        /\ Ahead(q, r, p + 1) = Ahead(q, r, p) + (IF p + 1 <= r THEN q + 1 ELSE q)
    BY <1>2, <2>1, NextChunk
  <2>3. Ahead(q, r, i) = Ahead(q, r, p) + sizes[i]
    BY <2>1, <2>2, <1>3
  <2>4. Ahead(q, r, i) <= Ahead(q, r, n)
    BY <1>2, <2>1, ChunksFit
  <2>5. sizes[i] \in {q, q + 1} /\ sizes[i] \in Nat
    BY <1>2, <1>3
  <2>6. Ahead(q, r, i) \in Nat /\ Ahead(q, r, p) <= Ahead(q, r, i) /\ Ahead(q, r, i) <= total
        /\ Ahead(q, r, i) - Ahead(q, r, p) - q \in {0, 1}
    BY <2>2, <2>3, <2>4, <2>5, <1>2, <1>6, SMTT(30)
  <2> QED
    BY <2>2, <2>3, <2>6 DEF p
<1>8. ASSUME NEW i \in 1..n
      PROVE  SplitTensor(t, dim, n)[i] = Rows(t, dim, Ahead(q, r, i - 1), Ahead(q, r, i))
  <2> DEFINE from == Ahead(q, r, i - 1)
             to == Ahead(q, r, i)
  <2>1. from \in Nat /\ to \in Nat /\ from <= to /\ to <= t.shape[dim]
    BY <1>7 DEF total
  <2>2. SplitTensor(t, dim, n)[i] = Slice(t, dim, from, to)
    BY <1>4, <1>5, <1>7
  <2> HIDE DEF from, to
  <2>3. Slice(t, dim, from, to) = Rows(t, dim, from, to)
    BY <2>1, SliceIsRows
  <2> QED
    BY <2>2, <2>3 DEF from, to
<1> QED
  BY <1>6, <1>7, <1>8 DEF ChunkEnd, total, q, r

LEMMA SplitIsIndexed ==
  ASSUME NEW t, NEW dim, NEW n \in Nat
  PROVE  DOMAIN SplitTensor(t, dim, n) = 1..n /\ Len(SplitTensor(t, dim, n)) = n
<1>1. DOMAIN SplitTensor(t, dim, n) = 1..n
  BY DEF SplitTensor
<1>2. SplitTensor(t, dim, n) = [i \in 1..n |-> SplitTensor(t, dim, n)[i]]
  BY DEF SplitTensor
<1> DEFINE ts == SplitTensor(t, dim, n)
<1> HIDE DEF ts
<1>3. ts \in [1..n -> {ts[i] : i \in 1..n}]
  BY <1>1, <1>2 DEF ts
<1>4. Len(ts) = n
  BY <1>3, SequenceByDomain
<1> QED
  BY <1>1, <1>4 DEF ts

(* to_tensor undoes from_tensor.                                           *)
LEMMA CatOfShards ==
  ASSUME NEW t, IsArgument(t), NEW dim \in 1..Len(t.shape), NEW n \in Nat \ {0}
  PROVE  Cat(SplitTensor(t, dim, n), dim) = t
<1> DEFINE ts == SplitTensor(t, dim, n)
           end(i) == ChunkEnd(t, dim, n, i)
<1>1. Len(ts) = n /\ DOMAIN ts = 1..n
  BY SplitIsIndexed
<1>2. end(0) = 0 /\ end(n) = t.shape[dim]
  BY ShardsAreRows
<1>3. ASSUME NEW i \in 1..n
      PROVE  /\ end(i - 1) \in Nat /\ end(i) \in Nat /\ end(i - 1) <= end(i)
             /\ end(i) <= t.shape[dim] /\ ts[i] = Rows(t, dim, end(i - 1), end(i))
  BY ShardsAreRows, SMTT(30)
<1> HIDE DEF ts, end
<1>4. PICK f : Joins(ts, dim, 1..n, f) /\ Cat(ts, dim) = f[n]
  BY <1>1, CatUnfolds
<1> DEFINE S == {k \in 0..n : k # 0 => f[k] = Rows(t, dim, 0, end(k))}
<1>5. 0 \in S
  OBVIOUS
<1>6. ASSUME NEW k \in 0..(n - 1), k \in S PROVE k + 1 \in S
  <2>1. f[k + 1] = IF k + 1 = 1 THEN ts[1] ELSE Cat2(f[(k + 1) - 1], ts[k + 1], dim)
    <3>1. k + 1 \in 1..n
      OBVIOUS
    <3> QED
      BY <3>1, <1>4 DEF Joins
  <2>2. CASE k = 0
    <3>1. 1 \in 1..n /\ 1 - 1 = 0
      OBVIOUS
    <3>2. f[1] = Rows(t, dim, 0, end(1))
      BY <2>1, <2>2, <3>1, <1>2, <1>3
    <3> QED
      BY <2>2, <3>2
  <2>3. CASE k # 0
    <3>1. k \in 1..n /\ k + 1 \in 1..n /\ (k + 1) - 1 = k
      BY <2>3
    <3>2. f[k] = Rows(t, dim, 0, end(k)) /\ ts[k + 1] = Rows(t, dim, end(k), end(k + 1))
      BY <1>3, <1>6, <2>3, <3>1
    <3>3. end(k) \in Nat /\ end(k + 1) \in Nat /\ end(k) <= end(k + 1) /\ end(k + 1) <= t.shape[dim]
      BY <1>3, <3>1
    <3>4. Cat2(Rows(t, dim, 0, end(k)), Rows(t, dim, end(k), end(k + 1)), dim) = Rows(t, dim, 0, end(k + 1))
      BY <3>3, CatOfRows
    <3>5. f[k + 1] = Rows(t, dim, 0, end(k + 1))
      BY <2>1, <2>3, <3>1, <3>2, <3>4
    <3> QED
      BY <3>1, <3>5
  <2> QED
    BY <2>2, <2>3
<1> HIDE DEF S
<1>7. n \in S
  <2>1. n \in Nat /\ n \in 0..n
    OBVIOUS
  <2>2. \A k \in 0..n : k \in S
    BY <1>5, <1>6, <2>1, BoundedInduction
  <2> QED
    BY <2>1, <2>2
<1>8. f[n] = Rows(t, dim, 0, end(n))
  BY <1>7 DEF S
<1>9. Rows(t, dim, 0, t.shape[dim]) = t
  BY AllRows
<1> QED
  BY <1>2, <1>4, <1>8, <1>9 DEF ts

(* Shards differ only along dim, and there by at most one.                 *)
LEMMA ShardShapes ==
  ASSUME NEW t, IsArgument(t), NEW dim \in 1..Len(t.shape), NEW n \in Nat \ {0},
         NEW i \in 1..n, NEW j \in 1..n
  PROVE  LET ts == SplitTensor(t, dim, n)
         IN  /\ Len(ts[i].shape) = Len(t.shape) /\ DOMAIN ts[i].shape = DOMAIN t.shape
             /\ \A d \in DOMAIN t.shape : d # dim => ts[i].shape[d] = t.shape[d]
             /\ ts[i].shape[dim] - ts[j].shape[dim] \in {-1, 0, 1}
<1> DEFINE ts == SplitTensor(t, dim, n)
           end(k) == ChunkEnd(t, dim, n, k)
           s == t.shape
<1>1. s \in Seq(Nat) /\ dim \in 1..Len(s) /\ s[dim] \in Nat
  BY ShapeOfTensor
<1>2. \A k \in 1..n :
        /\ end(k - 1) \in Nat /\ end(k) \in Nat /\ end(k - 1) <= end(k)
        /\ end(k) - end(k - 1) - (s[dim] \div n) \in {0, 1}
        /\ ts[k] = Rows(t, dim, end(k - 1), end(k))
  BY ShardsAreRows, SMTT(30)
<1> HIDE DEF ts, end
<1>3. \A k \in 1..n : ts[k].shape = Resized(s, dim, end(k) - end(k - 1))
  <2>1. \A from, to : Rows(t, dim, from, to).shape = Resized(s, dim, to - from)
    BY DEF Rows
  <2> QED
    BY <1>2, <2>1
<1> HIDE DEF s
<1>4. ASSUME NEW x \in Nat
      PROVE  /\ Len(Resized(s, dim, x)) = Len(s) /\ DOMAIN Resized(s, dim, x) = DOMAIN s
             /\ Resized(s, dim, x)[dim] = x
             /\ \A d \in DOMAIN s : d # dim => Resized(s, dim, x)[d] = s[d]
  BY <1>1 DEF Resized
<1>5. \A k \in 1..n : end(k) - end(k - 1) \in Nat
  BY <1>2
<1>6. ts[i].shape[dim] = end(i) - end(i - 1) /\ ts[j].shape[dim] = end(j) - end(j - 1)
  BY <1>3, <1>4, <1>5
<1>7. ts[i].shape[dim] - ts[j].shape[dim] \in {-1, 0, 1}
  <2>1. PICK q \in Nat : q = s[dim] \div n
    BY <1>1, Quotient
  <2>2. end(i) - end(i - 1) - q \in {0, 1} /\ end(j) - end(j - 1) - q \in {0, 1}
    BY <1>2, <2>1
  <2>3. end(i) - end(i - 1) \in Nat /\ end(j) - end(j - 1) \in Nat
    BY <1>5
  <2> DEFINE x == end(i) - end(i - 1)
             y == end(j) - end(j - 1)
  <2> HIDE DEF x, y
  <2>4. x \in Nat /\ y \in Nat /\ x - q \in {0, 1} /\ y - q \in {0, 1}
    BY <2>2, <2>3 DEF x, y
  <2>5. x - y \in {-1, 0, 1}
    BY <2>4
  <2> QED
    BY <1>6, <2>5 DEF x, y
<1> QED
  BY <1>3, <1>4, <1>5, <1>7, SMTT(30) DEF ts, s

(* The shards of every argument that has been split so far are the         *)
(* argument, whatever its shape, the dimension and the number of devices.  *)
LEMMA SplitArgumentIsWhole ==
  ASSUME NEW t, IsArgument(t), NEW placement \in 0..Len(t.shape), NEW n \in Nat \ {0}
  PROVE  LET ts == FromTensor(t, placement, n)
         IN  /\ ToTensor(ts, placement) = t
             /\ placement # 0 =>
                  \A i, j \in DOMAIN ts : ts[i].shape[placement] - ts[j].shape[placement] \in {-1, 0, 1}
<1>1. CASE placement = 0
  BY <1>1 DEF FromTensor, ToTensor
<1>2. CASE placement # 0
  <2> DEFINE ts == SplitTensor(t, placement, n)
  <2>1. placement \in 1..Len(t.shape) /\ FromTensor(t, placement, n) = ts
    BY <1>2, ShapeOfTensor DEF FromTensor
  <2>2. DOMAIN ts = 1..n
    BY SplitIsIndexed
  <2>3. \A i, j \in 1..n :
          /\ Len(ts[i].shape) = Len(t.shape) /\ DOMAIN ts[i].shape = DOMAIN t.shape
          /\ \A d \in DOMAIN t.shape : d # placement => ts[i].shape[d] = t.shape[d]
          /\ ts[i].shape[placement] - ts[j].shape[placement] \in {-1, 0, 1}
    BY <2>1, ShardShapes
  <2>4. Cat(ts, placement) = t
    BY <2>1, CatOfShards
  <2> HIDE DEF ts
  <2>5. CatFits(ts, placement)
    BY <2>2, <2>3 DEF CatFits
  <2>6. ToTensor(ts, placement) = t
    BY <1>2, <2>4, <2>5 DEF ToTensor
  <2> QED
    BY <2>1, <2>2, <2>3, <2>6
<1> QED
  BY <1>1, <1>2

(* No row of an argument is lost or repeated when it is split, and         *)
(* to_tensor gives it back.                                                *)
THEOREM ShardsGiveTheArgument == Spec => []ShardsAreTheArgument
<1>1. DistributedInv => ShardsAreTheArgument
  <2> SUFFICES ASSUME DistributedInv, NEW k \in DOMAIN shards
               PROVE  /\ ToTensor(shards[k], job.placed[k]) = job.arguments[k]
                      /\ job.placed[k] # 0 =>
                           \A i, j \in DOMAIN shards[k] :
                             shards[k][i].shape[job.placed[k]] - shards[k][j].shape[job.placed[k]] \in {-1, 0, 1}
    BY DEF ShardsAreTheArgument
  <2> DEFINE t == job.arguments[k]
             n == Len(job.mesh)
  <2>1. job \in Jobs /\ k \in DOMAIN job.arguments /\ shards[k] = FromTensor(t, job.placed[k], n)
    <3>1. job \in Jobs /\ k \in 1..Len(shards) /\ Len(shards) \in 0..Len(job.arguments)
          /\ shards[k] = FromTensor(t, job.placed[k], n)
      BY DEF DistributedInv, RequestInv, SplittingInv
    <3> QED
      BY <3>1, ArgumentsAreIndexed
  <2>2. IsArgument(t) /\ job.placed[k] \in 0..Len(t.shape) /\ n \in Nat \ {0}
    <3>1. job.mesh \in Seq({"cpu", "metal"}) /\ job.mesh # << >>
      BY <2>1, JobsAssumption
    <3>2. n \in Nat \ {0}
      BY <3>1, EmptySeq
    <3> QED
      BY <2>1, <3>2, JobsAssumption
  <2> HIDE DEF t, n
  <2>3. /\ ToTensor(shards[k], job.placed[k]) = t
        /\ job.placed[k] # 0 =>
             \A i, j \in DOMAIN shards[k] :
               shards[k][i].shape[job.placed[k]] - shards[k][j].shape[job.placed[k]] \in {-1, 0, 1}
    BY <2>1, <2>2, SplitArgumentIsWhole
  <2> QED
    BY <2>3 DEF t
<1> QED
  BY <1>1, DistributedInvHolds, PTL

(***************************************************************************)
(* What follows for the threads                                            *)
(***************************************************************************)
(* The lists of _run_parallel have a slot for each device, at every stage  *)
(* of a request.                                                           *)
THEOREM DevicesHaveSlots == Spec => []ParallelTypeOK
<1>1. DistributedInv => ParallelTypeOK
  BY DEF DistributedInv, ParallelInv
<1> QED
  BY <1>1, DistributedInvHolds, PTL

(* dtensor_run and dtensor_grad go on only when every device is done, give *)
(* each device's result its place, and raise the first device's exception. *)
THEOREM DevicesAreAwaited ==
  Spec => [](NobodyLeftBehind /\ ResultsInOrder /\ FirstErrorIsRaised)
<1>1. DistributedInv => NobodyLeftBehind /\ ResultsInOrder /\ FirstErrorIsRaised
  BY InvLeavesNobody, InvKeepsOrder, InvRaisesFirst DEF DistributedInv
<1> QED
  BY <1>1, DistributedInvHolds, PTL

(* Whatever order the threads start, finish and fail in, a request has one *)
(* answer, which its arguments decide.                                     *)
AnswerIsDetermined == answer \in {Pending, Expected(job)}

THEOREM OrderDoesNotMatter == Spec => []AnswerIsDetermined
<1>1. DistributedInv => AnswerIsDetermined
  BY DEF DistributedInv, StageInv, AnswerIsDetermined
<1> QED
  BY <1>1, DistributedInvHolds, PTL

(***************************************************************************)
(* One answer                                                              *)
(***************************************************************************)
(* What each device computes of its shards, unless its backend fails.      *)
OnShards(j) ==
  [i \in Devices(j) |->
     Outcome(Lowered(Program(j), j.mesh[i]), [k \in DOMAIN j.arguments |->
       FromTensor(j.arguments[k], j.placed[k], Len(j.mesh))[i]])]

(* The graphs that the two calls are for: they accept the shards, and what *)
(* they make of them, put together, is what they make of the whole.        *)
SplitsOverTheBatch(j) ==
  /\ \A i \in Devices(j) : OnShards(j)[i] \notin Errors
  /\ Combined(j, OnShards(j)) = Outcome(Program(j), j.arguments)

LEMMA FirstBrokenDevice ==
  ASSUME NEW S, S \subseteq Nat, S # {}
  PROVE  Min(S) \in S /\ \A i \in S : Min(S) <= i
<1> DEFINE R == {ss \in Nat \X Nat : ss[1] < ss[2]}
<1>1. IsWellFoundedOn(R, Nat)
  BY NatLessThanWellFounded DEF OpToRel
<1>2. \E x \in S : \A y \in S : ~ (<<y, x>> \in R)
  <2> HIDE DEF R
  <2> QED
    BY <1>1, WFMin
<1>3. PICK x \in S : \A y \in S : x <= y
  <2>1. PICK x \in S : \A y \in S : ~ (<<y, x>> \in R)
    BY <1>2
  <2>2. ASSUME NEW y \in S PROVE x <= y
    <3>1. x \in Nat /\ y \in Nat /\ ~ (y < x)
      BY <2>1
    <3> QED
      BY <3>1
  <2> QED
    BY <2>2
<1> QED
  BY <1>3 DEF Min

LEMMA ExpectedOfOneDevice ==
  ASSUME NEW j \in Jobs, ShardsFit(j) /\ j.oneMesh => SplitsOverTheBatch(j)
  PROVE  Expected(j) = SingleDevice(j)
<1>1. SUFFICES ASSUME ShardsFit(j), j.oneMesh PROVE Expected(j) = SingleDevice(j)
  BY DEF Expected, SingleDevice
<1>2. WorkOf(j) = [i \in Devices(j) |-> IF i \in j.broken THEN DeviceErrors[i] ELSE OnShards(j)[i]]
  BY <1>1 DEF WorkOf, DeviceOutcome, OnShards
<1>3. DOMAIN j.mesh = 1..Len(j.mesh) /\ Len(j.mesh) \in Nat /\ j.broken \subseteq Devices(j)
  <2>1. j.mesh \in Seq({"cpu", "metal"}) /\ j.broken \subseteq DOMAIN j.mesh
    BY JobsAssumption
  <2> DEFINE mesh == j.mesh
  <2>2. DOMAIN mesh = 1..Len(mesh) /\ Len(mesh) \in Nat
    <3> HIDE DEF mesh
    <3> QED
      BY <2>1, LenProperties DEF mesh
  <2> QED
    BY <2>1, <2>2 DEF Devices
<1>4. \A i \in Devices(j) : OnShards(j)[i] \notin Errors
  BY <1>1 DEF SplitsOverTheBatch
<1>5. CASE j.broken = {}
  <2>1. WorkOf(j) = OnShards(j)
    BY <1>2, <1>5 DEF OnShards
  <2>2. ~ \E i \in DOMAIN WorkOf(j) : WorkOf(j)[i] \in Errors
    BY <1>2, <1>4, <1>5
  <2> QED
    BY <1>1, <1>5, <2>1, <2>2 DEF Expected, SingleDevice, SplitsOverTheBatch
<1>6. CASE j.broken # {}
  <2> DEFINE first == Min(j.broken)
  <2>1. first \in j.broken /\ \A i \in j.broken : first <= i
    BY <1>3, <1>6, FirstBrokenDevice DEF Devices
  <2>2. first \in DOMAIN WorkOf(j) /\ WorkOf(j)[first] = DeviceErrors[first]
    BY <1>2, <1>3, <2>1
  <2>3. DeviceErrors[first] \in Errors
    BY <2>1, JobsAssumption, ErrorsAssumption
  <2>4. ASSUME NEW k \in 1..(first - 1) PROVE WorkOf(j)[k] \notin Errors
    <3>1. k \in Devices(j) /\ k \notin j.broken
      BY <1>3, <2>1 DEF Devices
    <3> QED
      BY <3>1, <1>2, <1>4
  <2>5. /\ DOMAIN WorkOf(j) = 1..Len(j.mesh)
        /\ \A k \in DOMAIN WorkOf(j) : 1..k \subseteq DOMAIN WorkOf(j) /\ k >= 1
    BY <1>2, <1>3 DEF Devices
  <2> HIDE DEF first
  <2>6. FirstFailure(WorkOf(j)) = first
    BY <2>2, <2>3, <2>4, <2>5, FirstFailureIs
  <2>7. Expected(j) = DeviceErrors[first]
    BY <1>1, <2>2, <2>3, <2>6 DEF Expected
  <2> QED
    BY <1>1, <1>6, <2>7 DEF SingleDevice, first
<1> QED
  BY <1>5, <1>6

(* Requests whose graphs split over the batch get what one device would    *)
(* compute from the whole, or the exception of the first device that       *)
(* fails, once and for all: the steps of the threads and of the collectives*)
(* are steps of OneAnswer.  That the answer comes is left to TLC.          *)
THEOREM DevicesAnswerAsOne ==
  ASSUME \A j \in Jobs : ShardsFit(j) /\ j.oneMesh => SplitsOverTheBatch(j)
  PROVE  Spec => Single!Init /\ [][Single!Reply]_<<due, answer>>
<1>1. Init => Single!Init
  BY DEF Init, Single!Init
<1>2. DistributedInv /\ DistributedInv' /\ [Next]_vars => [Single!Reply]_<<due, answer>>
  <2> SUFFICES ASSUME DistributedInv, DistributedInv', [Next]_vars
               PROVE  [Single!Reply]_<<due, answer>>
    OBVIOUS
  <2>1. UNCHANGED request
    BY DEF Next, CallerSteps, Split, Launch, RunParallel, Finish, PassOn, ThreadSteps, vars
  <2>2. \/ UNCHANGED answer
        \/ stage \in {"split", "launch", "parallel"} /\ stage' \in {"returned", "raised"}
    BY DEF Next, CallerSteps, Split, Launch, RunParallel, Finish, PassOn, ThreadSteps, vars, Raises
  <2>3. CASE UNCHANGED answer
    BY <2>1, <2>3 DEF request
  <2>4. CASE stage \in {"split", "launch", "parallel"} /\ stage' \in {"returned", "raised"}
    <3>1. answer = Pending /\ answer' = Expected(job)
      BY <2>1, <2>4 DEF DistributedInv, StageInv, request
    <3>2. due = Expected(job)
      BY ExpectedOfOneDevice DEF DistributedInv, RequestInv
    <3> QED
      BY <3>1, <3>2, <2>1 DEF Single!Reply, request
  <2> QED
    BY <2>2, <2>3, <2>4
<1> QED
  BY <1>1, <1>2, DistributedInvHolds, PTL DEF Spec
=============================================================================
