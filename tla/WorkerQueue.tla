---------------------------- MODULE WorkerQueue ----------------------------
(***************************************************************************)
(* The thread pool of codegen.c: run_parallel_jobs runs a job array on the *)
(* calling thread, or on worker threads that take the next job under the   *)
(* queue's mutex.  The C backend writes its chunk files with it, and on    *)
(* Windows the LLVM backend its objects.  Each mutex section is one step.  *)
(***************************************************************************)
EXTENDS Integers, FiniteSets

CONSTANTS
  JobCount,     \* jobs of the array
  MaxRequest,   \* the largest -j tried
  HandleLimit   \* threads one wait can cover: 64 on Windows

Job == 1..JobCount
Thread == 1..HandleLimit

ASSUME QueueAssumption ==
  /\ JobCount \in Nat
  /\ MaxRequest \in Nat \ {0}
  /\ HandleLimit \in Nat \ {0}

VARIABLES
  requested,  \* requested_jobs, clamped when the call starts
  caller,     \* the step of run_parallel_jobs
  created,    \* threads started so far
  nextJob,    \* queue.next_job, or the index of the sequential loop
  failed,     \* queue.failed
  thread,     \* the step of each worker
  job,        \* the job a worker holds
  done,       \* jobs whose function returned 1
  verdict     \* the value returned

queue == <<nextJob, failed>>
workers == <<thread, job>>
vars == <<requested, caller, created, queue, workers, done, verdict>>

TypeOK ==
  /\ requested \in 0..MaxRequest
  /\ caller \in {"start", "sequential", "create", "join", "returned"}
  /\ created \in 0..HandleLimit
  /\ nextJob \in 1..JobCount + 1
  /\ failed \in BOOLEAN
  /\ thread \in [Thread -> {"none", "take", "work", "mark", "exit"}]
  /\ job \in [Thread -> Job \cup {0}]
  /\ \A t \in Thread : thread[t] = "work" => job[t] # 0
  /\ done \subseteq Job
  /\ verdict \in {"none", "ok", "failed"}

Init ==
  /\ requested \in 0..MaxRequest
  /\ caller = "start"
  /\ created = 0
  /\ nextJob = 1
  /\ failed = FALSE
  /\ thread = [t \in Thread |-> "none"]
  /\ job = [t \in Thread |-> 0]
  /\ done = {}
  /\ verdict = "none"

(* Zero means one; more threads than jobs, or than one wait can cover, are *)
(* never started.                                                          *)
Least(a, b) == IF a <= b THEN a ELSE b
ClampedToJobs(r) == Least(IF r = 0 THEN 1 ELSE r, JobCount)  \* mutant: no limit
Clamped(r) == Least(Least(IF r = 0 THEN 1 ELSE r, JobCount), HandleLimit)

Return(ok) ==
  /\ caller' = "returned"
  /\ verdict' = IF ok THEN "ok" ELSE "failed"

(* The queue or its thread array may fail to be made.                      *)
Start ==
  /\ caller = "start"
  /\ \/ /\ JobCount = 0
        /\ Return(TRUE)
        /\ UNCHANGED requested
     \/ /\ JobCount > 0
        /\ requested' = Clamped(requested)
        /\ \/ /\ requested' = 1
              /\ caller' = "sequential"
              /\ UNCHANGED verdict
           \/ /\ requested' > 1
              /\ caller' = "create"
              /\ UNCHANGED verdict
           \/ /\ requested' > 1
              /\ Return(FALSE)
  /\ UNCHANGED <<created, queue, workers, done>>

SequentialJob ==
  /\ caller = "sequential"
  /\ \/ /\ nextJob \in Job
        /\ done' = done \cup {nextJob}
        /\ nextJob' = nextJob + 1
        /\ UNCHANGED <<caller, verdict>>
     \/ /\ nextJob \in Job
        /\ Return(FALSE)
        /\ UNCHANGED <<done, nextJob>>
     \/ /\ nextJob = JobCount + 1
        /\ Return(TRUE)
        /\ UNCHANGED <<done, nextJob>>
  /\ UNCHANGED <<requested, created, failed, workers>>

(* pthread_create or CreateThread; a failure stops the queue, and the      *)
(* threads already running are joined.                                     *)
CreateThread ==
  /\ caller = "create"
  /\ created < requested
  /\ \/ /\ created' = created + 1
        /\ thread' = [thread EXCEPT ![created + 1] = "take"]
        /\ UNCHANGED <<failed, caller>>
     \/ /\ failed' = TRUE
        /\ caller' = "join"
        /\ UNCHANGED <<created, thread>>
  /\ UNCHANGED <<requested, nextJob, job, done, verdict>>

AllCreated ==
  /\ caller = "create"
  /\ created = requested
  /\ caller' = "join"
  /\ UNCHANGED <<requested, created, queue, workers, done, verdict>>

(* Mutant: the first worker to leave ends the wait.                        *)
JoinAny ==
  /\ caller = "join"
  /\ created = 0 \/ \E t \in 1..created : thread[t] = "exit"
  /\ Return(~failed)
  /\ UNCHANGED <<requested, created, queue, workers, done>>

Join ==
  /\ caller = "join"
  /\ \A t \in 1..created : thread[t] = "exit"
  /\ Return(~failed)
  /\ UNCHANGED <<requested, created, queue, workers, done>>
-----------------------------------------------------------------------------
(* Mutants: the index is not advanced with the job taken; a worker that    *)
(* finds the queue failed does not leave.                                  *)
TakeLate(t) ==
  /\ thread[t] = "take"
  /\ \/ /\ ~failed /\ nextJob \in Job
        /\ job' = [job EXCEPT ![t] = nextJob]
        /\ thread' = [thread EXCEPT ![t] = "work"]
     \/ /\ failed \/ nextJob = JobCount + 1
        /\ thread' = [thread EXCEPT ![t] = "exit"]
        /\ UNCHANGED job
  /\ UNCHANGED <<requested, caller, created, queue, done, verdict>>
TakeForever(t) ==
  /\ thread[t] = "take"
  /\ \/ /\ ~failed /\ nextJob \in Job
        /\ job' = [job EXCEPT ![t] = nextJob]
        /\ nextJob' = nextJob + 1
        /\ thread' = [thread EXCEPT ![t] = "work"]
     \/ /\ ~failed /\ nextJob = JobCount + 1
        /\ thread' = [thread EXCEPT ![t] = "exit"]
        /\ UNCHANGED <<job, nextJob>>
  /\ UNCHANGED <<requested, caller, created, failed, done, verdict>>

(* queue_take_job, one mutex section.                                      *)
Take(t) ==
  /\ thread[t] = "take"
  /\ \/ /\ ~failed /\ nextJob \in Job
        /\ job' = [job EXCEPT ![t] = nextJob]
        /\ nextJob' = nextJob + 1
        /\ thread' = [thread EXCEPT ![t] = "work"]
     \/ /\ failed \/ nextJob = JobCount + 1
        /\ thread' = [thread EXCEPT ![t] = "exit"]
        /\ UNCHANGED <<job, nextJob>>
  /\ UNCHANGED <<requested, caller, created, failed, done, verdict>>

(* The job function returns 1, or 0.                                       *)
Work(t) ==
  /\ thread[t] = "work"
  /\ \/ /\ done' = done \cup {job[t]}
        /\ thread' = [thread EXCEPT ![t] = "take"]
     \/ /\ thread' = [thread EXCEPT ![t] = "mark"]
        /\ UNCHANGED done
  /\ UNCHANGED <<requested, caller, created, queue, job, verdict>>

(* queue_mark_failed, then the worker leaves its loop.                     *)
MarkFailed(t) ==
  /\ thread[t] = "mark"
  /\ failed' = TRUE
  /\ thread' = [thread EXCEPT ![t] = "exit"]
  /\ UNCHANGED <<requested, caller, created, nextJob, job, done, verdict>>
-----------------------------------------------------------------------------
Caller == Start \/ SequentialJob \/ CreateThread \/ AllCreated \/ Join
Worker(t) == Take(t) \/ Work(t) \/ MarkFailed(t)

(* The call has returned and nothing is left running.                      *)
Finished ==
  /\ caller = "returned"
  /\ UNCHANGED vars

Next == Caller \/ (\E t \in Thread : Worker(t)) \/ Finished

Spec == Init /\ [][Next]_vars

(* Every thread is scheduled and every job function returns.               *)
FairSpec ==
  Spec /\ WF_vars(Caller) /\ \A t \in Thread : WF_vars(Worker(t))
-----------------------------------------------------------------------------
(* No two workers hold the same job, and none is handed out again: a chunk *)
(* file has one writer.                                                    *)
OneWriter ==
  \A t \in Thread : thread[t] = "work" =>
    /\ job[t] \notin done
    /\ \A u \in Thread \ {t} : thread[u] = "work" => job[u] # job[t]

(* A call that fails still lets every worker leave: the caller returns.    *)
CallerReturns == <>(caller = "returned")

(* The batch contract: success means that all jobs were done and no worker *)
(* is left.                                                                *)
Batch == INSTANCE JobBatch
ImplementsBatch == Batch!Spec
=============================================================================
