------------------------- MODULE WorkerQueueProofs -------------------------
(***************************************************************************)
(* Proofs about WorkerQueue, for any number of jobs and threads: one       *)
(* writer per job, and the batch contract.  The invariant relates the      *)
(* index of the queue to the jobs done and the jobs held.                  *)
(***************************************************************************)
EXTENDS WorkerQueue, TLAPS

(* The jobs below the index are done, or held by a worker, or the worker   *)
(* that held one is about to mark the queue failed or has done so.         *)
Handed ==
  /\ \A t \in Thread : thread[t] = "work" => job[t] \in Job /\ job[t] < nextJob
  /\ \A j \in done : j < nextJob
  /\ \A j \in Job : j < nextJob =>
       \/ j \in done
       \/ failed
       \/ \E t \in Thread : job[t] = j /\ thread[t] \in {"work", "mark"}

(* Which steps the caller and the workers can be at together.              *)
Phases ==
  /\ caller \in {"start", "sequential"} => created = 0
  /\ caller \in {"start", "sequential"} => done = 1..nextJob - 1
  /\ caller = "create" => requested \in 2..HandleLimit /\ created <= requested
  /\ caller = "join" /\ ~failed => created > 0
  /\ \A t \in Thread : thread[t] # "none" => t \in 1..created
  /\ \A t \in Thread : thread[t] = "exit" => failed \/ nextJob = JobCount + 1

(* What a verdict says about the jobs and the workers.                     *)
Verdict ==
  /\ caller = "returned" <=> verdict # "none"
  /\ verdict = "ok" => done = Job
  /\ verdict # "none" => \A t \in Thread : thread[t] \in {"none", "exit"}

QueueInv == OneWriter /\ Handed /\ Phases /\ Verdict

(* The clamped request lies between one and the limits.                    *)
LEMMA ClampedRange ==
  ASSUME NEW r \in 0..MaxRequest, JobCount > 0
  PROVE  /\ Clamped(r) \in 1..HandleLimit
         /\ Clamped(r) <= MaxRequest
  BY QueueAssumption DEF Clamped, Least

(* Every step keeps the types; a thread is created only below the limit.   *)
LEMMA NextTypeOK ==
  ASSUME TypeOK, Phases, [Next]_vars
  PROVE  TypeOK'
<1> USE QueueAssumption DEF TypeOK
<1>1. CASE Start
  <2>1. CASE JobCount = 0
    BY <1>1, <2>1 DEF Start, Return, queue, workers
  <2>2. CASE JobCount > 0
    BY <1>1, <2>2, ClampedRange DEF Start, Return, queue, workers
  <2>3. QED
    BY <2>1, <2>2
<1>2. CASE SequentialJob
  <2>1. UNCHANGED <<requested, created, failed, thread, job>>
    BY <1>2 DEF SequentialJob, workers
  <2>2. /\ done' \subseteq Job
        /\ nextJob' \in 1..JobCount + 1
    <3>1. CASE nextJob \in Job /\ done' = done \cup {nextJob} /\ nextJob' = nextJob + 1
      <4>1. nextJob + 1 \in 1..JobCount + 1
        BY <3>1 DEF Job
      <4>2. QED
        BY <3>1, <4>1
    <3>2. CASE UNCHANGED <<done, nextJob>>
      BY <3>2
    <3>3. QED
      BY <1>2, <3>1, <3>2 DEF SequentialJob
  <2>3. /\ caller' \in {"sequential", "returned"}
        /\ verdict' \in {"none", "ok", "failed"}
    BY <1>2 DEF SequentialJob, Return
  <2>4. QED
    BY <2>1, <2>2, <2>3
<1>3. CASE CreateThread
  <2>1. created' \in 0..HandleLimit
    BY <1>3 DEF CreateThread, Phases
  <2>2. thread' \in [Thread -> {"none", "take", "work", "mark", "exit"}]
    BY <1>3 DEF CreateThread
  <2>3. \A t \in Thread : thread'[t] = "work" => job[t] # 0
    BY <1>3 DEF CreateThread
  <2>4. QED
    BY <1>3, <2>1, <2>2, <2>3 DEF CreateThread
<1>4. CASE AllCreated
  BY <1>4 DEF AllCreated, queue, workers
<1>5. CASE Join
  BY <1>5 DEF Join, Return, queue, workers
<1>6. ASSUME NEW t \in Thread, Take(t) PROVE TypeOK'
  BY <1>6 DEF Take, Job
<1>7. ASSUME NEW t \in Thread, Work(t) PROVE TypeOK'
  BY <1>7 DEF Work, queue
<1>8. ASSUME NEW t \in Thread, MarkFailed(t) PROVE TypeOK'
  BY <1>8 DEF MarkFailed
<1>9. CASE UNCHANGED vars
  BY <1>9 DEF vars, queue, workers
<1>10. QED
  BY <1>1, <1>2, <1>3, <1>4, <1>5, <1>6, <1>7, <1>8, <1>9
  DEF Next, Caller, Worker, Finished

(* Every step keeps the invariant.                                         *)
LEMMA NextQueueInv ==
  ASSUME TypeOK, QueueInv, [Next]_vars
  PROVE  QueueInv'
<1> USE QueueAssumption
    DEF TypeOK, Job, Thread, QueueInv, OneWriter, Handed, Phases, Verdict
<1>1. CASE Start
  <2>1. CASE JobCount = 0
    BY <1>1, <2>1 DEF Start, Return, queue, workers
  <2>2. CASE JobCount > 0
    <3>1. UNCHANGED <<created, nextJob, failed, thread, job, done>>
      BY <1>1 DEF Start, queue, workers
    <3>2. caller = "start" /\ created = 0 /\ verdict = "none"
      BY <1>1 DEF Start
    <3>3. \A t \in Thread : thread[t] = "none"
      BY <3>2
    <3>4. \/ caller' = "sequential" /\ verdict' = verdict
          \/ caller' = "create" /\ verdict' = verdict /\ requested' \in 2..HandleLimit
          \/ caller' = "returned" /\ verdict' = "failed"
      BY <1>1, <2>2, ClampedRange DEF Start, Return
    <3>5. OneWriter' /\ Handed'
      BY <3>1
    <3>6. Phases'
      BY <3>1, <3>2, <3>3, <3>4
    <3>7. Verdict'
      BY <3>1, <3>2, <3>3, <3>4
    <3>8. QED
      BY <3>5, <3>6, <3>7
  <2>3. QED
    BY <2>1, <2>2
<1>2. CASE SequentialJob
  <2>1. UNCHANGED <<requested, created, failed, thread, job>>
    BY <1>2 DEF SequentialJob, workers
  <2>2. CASE /\ nextJob \in Job /\ nextJob' = nextJob + 1
             /\ done' = done \cup {nextJob} /\ UNCHANGED <<caller, verdict>>
    <3>0. done = 1..nextJob - 1 /\ caller = "sequential"
      BY <1>2 DEF SequentialJob
    <3>1. done' = 1..nextJob /\ caller' = "sequential" /\ verdict' = verdict
      <4>1. caller' = "sequential" /\ verdict' = verdict
        BY <2>2, <3>0
      <4>2. \A n : n \in done' <=> n \in 1..nextJob
        BY <2>2, <3>0
      <4>3. done' = 1..nextJob
        BY <4>2
      <4>4. QED
        BY <4>1, <4>3
    <3>2. QED
      BY <1>2, <2>1, <2>2, <3>1 DEF SequentialJob
  <2>3. CASE nextJob' = nextJob
    <3>1. done' = done /\ caller' = "returned" /\ verdict' \in {"ok", "failed"}
      BY <1>2, <2>3 DEF SequentialJob, Return
    <3>2. verdict' = "ok" => nextJob = JobCount + 1
      BY <1>2, <2>3 DEF SequentialJob, Return
    <3>3. \A t \in Thread : thread[t] = "none"
      BY <1>2 DEF SequentialJob
    <3>4. verdict' = "ok" => done = 1..JobCount
      BY <3>2, <1>2 DEF SequentialJob
    <3>5. QED
      BY <1>2, <2>1, <2>3, <3>1, <3>3, <3>4
  <2>4. QED
    BY <1>2, <2>2, <2>3 DEF SequentialJob
<1>3. CASE CreateThread
  <2>1. /\ caller = "create" /\ created < requested
        /\ UNCHANGED <<requested, nextJob, job, done, verdict>>
    BY <1>3 DEF CreateThread
  <2>2. CASE created' = created + 1
    <3>1. /\ thread' = [thread EXCEPT ![created + 1] = "take"]
          /\ UNCHANGED <<failed, caller>>
      BY <1>3, <2>2 DEF CreateThread
    <3>2. created + 1 \in Thread
      BY <2>1
    <3>3. thread[created + 1] = "none"
      BY <3>2
    <3>4. OneWriter' /\ Handed'
      BY <2>1, <3>1, <3>2, <3>3
    <3>5. Phases' /\ Verdict'
      BY <2>1, <2>2, <3>1, <3>2
    <3>6. QED
      BY <3>4, <3>5
  <2>3. CASE created' = created
    <3>1. failed' = TRUE /\ caller' = "join" /\ UNCHANGED thread
      BY <1>3, <2>3 DEF CreateThread
    <3>2. QED
      BY <2>1, <2>3, <3>1
  <2>4. QED
    BY <1>3, <2>2, <2>3 DEF CreateThread
<1>4. CASE AllCreated
  BY <1>4 DEF AllCreated, queue, workers
<1>5. CASE Join
  <2>1. UNCHANGED <<requested, created, nextJob, failed, thread, job, done>>
    BY <1>5 DEF Join, queue, workers
  <2>2. caller' = "returned" /\ verdict' = IF ~failed THEN "ok" ELSE "failed"
    BY <1>5 DEF Join, Return
  <2>3. \A t \in Thread : thread[t] \in {"none", "exit"}
    BY <1>5 DEF Join
  <2>4. ~failed => nextJob = JobCount + 1
    <3>1. SUFFICES ASSUME ~failed PROVE nextJob = JobCount + 1
      OBVIOUS
    <3>2. 1 \in 1..created /\ 1 \in Thread
      BY <1>5, <3>1 DEF Join
    <3>3. QED
      BY <1>5, <3>1, <3>2 DEF Join
  <2>5. ~failed => done = Job
    <3>1. ASSUME ~failed, NEW j \in Job PROVE j \in done
      <4>1. j < nextJob
        BY <2>4, <3>1
      <4>2. \A t \in Thread : thread[t] \notin {"work", "mark"}
        BY <2>3
      <4>3. QED
        BY <3>1, <4>1, <4>2
    <3>2. QED
      BY <3>1
  <2>6. QED
    BY <2>1, <2>2, <2>3, <2>5
<1>6. ASSUME NEW t \in Thread, Take(t) PROVE QueueInv'
  <2>1. UNCHANGED <<requested, caller, created, failed, done, verdict>>
    BY <1>6 DEF Take
  <2>2. CASE ~failed /\ nextJob \in Job /\ nextJob' = nextJob + 1
    <3>1. /\ thread' = [thread EXCEPT ![t] = "work"]
          /\ job' = [job EXCEPT ![t] = nextJob]
      BY <1>6, <2>2 DEF Take
    <3>2. OneWriter'
      BY <1>6, <2>1, <2>2, <3>1 DEF Take
    <3>3. Handed'
      BY <1>6, <2>1, <2>2, <3>1 DEF Take
    <3>4. Phases' /\ Verdict'
      BY <1>6, <2>1, <2>2, <3>1 DEF Take
    <3>5. QED
      BY <3>2, <3>3, <3>4
  <2>3. CASE nextJob' = nextJob
    <3>1. /\ thread' = [thread EXCEPT ![t] = "exit"]
          /\ job' = job /\ (failed \/ nextJob = JobCount + 1)
      BY <1>6, <2>3 DEF Take
    <3>2. OneWriter' /\ Handed'
      BY <1>6, <2>1, <2>3, <3>1 DEF Take
    <3>3. Phases' /\ Verdict'
      BY <1>6, <2>1, <2>3, <3>1 DEF Take
    <3>4. QED
      BY <3>2, <3>3
  <2>4. QED
    BY <1>6, <2>2, <2>3 DEF Take
<1>7. ASSUME NEW t \in Thread, Work(t) PROVE QueueInv'
  <2>1. UNCHANGED <<requested, caller, created, nextJob, failed, job, verdict>>
    BY <1>7 DEF Work, queue
  <2>2. CASE thread' = [thread EXCEPT ![t] = "take"]
    <3>1. done' = done \cup {job[t]}
      BY <1>7, <2>2 DEF Work
    <3>2. OneWriter' /\ Handed'
      BY <1>7, <2>1, <2>2, <3>1 DEF Work
    <3>3. Phases' /\ Verdict'
      BY <1>7, <2>1, <2>2, <3>1 DEF Work
    <3>4. QED
      BY <3>2, <3>3
  <2>3. CASE thread' = [thread EXCEPT ![t] = "mark"]
    <3>1. done' = done
      BY <1>7, <2>3 DEF Work
    <3>2. QED
      BY <1>7, <2>1, <2>3, <3>1 DEF Work
  <2>4. QED
    BY <1>7, <2>2, <2>3 DEF Work
<1>8. ASSUME NEW t \in Thread, MarkFailed(t) PROVE QueueInv'
  BY <1>8 DEF MarkFailed
<1>9. CASE UNCHANGED vars
  BY <1>9 DEF vars, queue, workers
<1>10. QED
  BY <1>1, <1>2, <1>3, <1>4, <1>5, <1>6, <1>7, <1>8, <1>9
  DEF Next, Caller, Worker, Finished

(* The types and the invariant hold throughout; neither is inductive alone.*)
LEMMA QueueInvariant == Spec => [](TypeOK /\ QueueInv)
<1>1. Init => TypeOK
  <2>1. ASSUME Init PROVE nextJob \in 1..JobCount + 1 /\ created \in 0..HandleLimit
    BY <2>1, QueueAssumption DEF Init
  <2>2. QED
    BY <2>1 DEF Init, TypeOK
<1>2. Init => QueueInv
  BY QueueAssumption
  DEF Init, QueueInv, OneWriter, Handed, Phases, Verdict, Job, Thread
<1>3. TypeOK /\ QueueInv /\ [Next]_vars => (TypeOK /\ QueueInv)'
  BY NextTypeOK, NextQueueInv DEF QueueInv
<1>4. QED
  BY <1>1, <1>2, <1>3, PTL DEF Spec

(* The queue's variables keep their types.                                 *)
THEOREM TypeCorrect == Spec => []TypeOK
  BY QueueInvariant, PTL

(* No two workers ever hold the same job.                                  *)
THEOREM WritersAreAlone == Spec => []OneWriter
<1>1. QueueInv => OneWriter
  BY DEF QueueInv
<1>2. QED
  BY <1>1, QueueInvariant, PTL

(* The thread pool implements the batch contract.                          *)
THEOREM QueueImplementsBatch == Spec => ImplementsBatch
<1>1. Init => Batch!Init
  BY DEF Init, Batch!Init
<1>2. ASSUME TypeOK, TypeOK', QueueInv, QueueInv', [Next]_vars
      PROVE  [Batch!Next]_(Batch!bvars)
  <2>1. CASE Start
    <3>1. CASE JobCount = 0
      BY <1>2, <2>1, <3>1
      DEF Start, Return, Batch!Next, Batch!Succeed, QueueInv, Phases, Verdict, Job
    <3>2. CASE JobCount # 0
      BY <1>2, <2>1, <3>2
      DEF Start, Return, Batch!Next, Batch!Fail, Batch!bvars, QueueInv, Verdict
    <3>3. QED
      BY <3>1, <3>2
  <2>2. CASE SequentialJob
    BY <1>2, <2>2
    DEF SequentialJob, Return, Batch!Next, Batch!Finish, Batch!Succeed, Batch!Fail,
        Batch!bvars, QueueInv, Verdict, TypeOK
  <2>3. CASE CreateThread \/ AllCreated \/ UNCHANGED vars
    BY <2>3 DEF CreateThread, AllCreated, vars, Batch!bvars
  <2>4. CASE Join
    BY <1>2, <2>4
    DEF Join, Return, Batch!Next, Batch!Succeed, Batch!Fail, QueueInv, Verdict, TypeOK
  <2>5. ASSUME NEW t \in Thread, Worker(t) PROVE [Batch!Next]_(Batch!bvars)
    BY <1>2, <2>5
    DEF Worker, Take, Work, MarkFailed, Batch!Next, Batch!Finish, Batch!bvars,
        QueueInv, Verdict, Handed, TypeOK
  <2>6. QED
    BY <1>2, <2>1, <2>2, <2>3, <2>4, <2>5 DEF Next, Caller, Finished
<1>3. QED
  BY <1>1, <1>2, QueueInvariant, PTL DEF Spec, ImplementsBatch, Batch!Spec
=============================================================================
