---------------------------- MODULE LLVMJobPool ----------------------------
(***************************************************************************)
(* run_llvm_chunk_jobs of pipeline.c: the objects of a section are first   *)
(* looked for in earlier outputs, the others are emitted by forked worker  *)
(* processes, a batch of jobs each, and what a failed worker leaves is     *)
(* retried, one job per process, one process at a time.                    *)
(*                                                                         *)
(* A batch is named by the position of its first job among the pending     *)
(* ones.  What a worker does for one job is one step here; ObjectStore     *)
(* looks inside it.                                                        *)
(***************************************************************************)
EXTENDS Integers, Sequences, FiniteSets

CONSTANTS
  JobCount,    \* jobs of the section
  Workers,     \* effective_chunk_jobs
  BatchSize,   \* llvm_worker_batch_size
  Strangers    \* children the process had before it was exec'ed

Job == 1..JobCount

ASSUME PoolAssumption ==
  /\ JobCount \in Nat
  /\ Workers \in Nat /\ Workers <= JobCount
  /\ JobCount > 0 => Workers > 0
  /\ BatchSize \in Nat \ {0}
  /\ Strangers \in Nat

VARIABLES
  autoReap,    \* SIGCHLD is ignored: children vanish and waitpid finds none
  stranger,    \* strangers that may still be reaped
  parent,      \* the step of run_llvm_chunk_jobs
  states,      \* how a job's object came to be
  completed,   \* jobs counted as complete
  reported,    \* jobs announced so far, next_report
  pending,     \* the jobs to emit, in order
  next,        \* pending jobs given to a worker or to retry
  retry,       \* the jobs to emit again, in order
  retried,     \* how many of them were
  failed,      \* some wait failed or some retry did
  life,        \* per batch: no process, running, or ended and not reaped
  at,          \* per batch: jobs its process is through with
  good,        \* per batch: its process reports success if it ends now
  retrier,     \* the process of the retry under way
  published,   \* jobs whose object is in place
  verdict      \* what the caller was told

ledger  == <<states, completed, reported>>
lists   == <<pending, next, retry, retried>>
process == <<life, at, good, retrier>>
kernel  == <<autoReap, stranger>>
vars == <<kernel, parent, ledger, lists, failed, process, published, verdict>>

Position == 1..JobCount

Init ==
  /\ autoReap \in BOOLEAN
  /\ stranger = Strangers
  /\ parent = "reuse"
  /\ states = [j \in Job |-> "none"]
  /\ completed = 0
  /\ reported = 0
  /\ pending = <<>>
  /\ next = 0
  /\ retry = <<>>
  /\ retried = 0
  /\ failed = FALSE
  /\ life = [b \in Position |-> "none"]
  /\ at = [b \in Position |-> 0]
  /\ good = [b \in Position |-> FALSE]
  /\ retrier = "none"
  /\ published = {}
  /\ verdict = "none"
-----------------------------------------------------------------------------
(* The jobs of S in ascending order.                                       *)
InOrder(S) ==
  CHOOSE s \in [1..Cardinality(S) -> S] :
    \A m, n \in 1..Cardinality(S) : m < n => s[m] < s[n]

(* The jobs a process forked at position b is given.                       *)
Least(m, n) == IF m <= n THEN m ELSE n
Size(b) == Least(BatchSize, Len(pending) - b + 1)
Batch(b) == SubSeq(pending, b, b + Size(b) - 1)
Members(s) == {s[n] : n \in DOMAIN s}

Active == {b \in Position : life[b] # "none"}
Running == {b \in Position : life[b] = "running"}

(* report_llvm_progress: announce jobs as long as the next one has a state.*)
Announced(st) ==
  CHOOSE n \in reported..JobCount :
    /\ \A j \in reported + 1..n : st[j] # "none"
    /\ n < JobCount => st[n + 1] = "none"

(* Jobs S are complete in the way w.                                       *)
Complete(S, w) ==
  /\ states' = [j \in Job |-> IF j \in S THEN w ELSE states[j]]
  /\ completed' = completed + Cardinality(S)
  /\ reported' = Announced(states')

(* reuse_llvm_object on every job, before the first fork.                  *)
Reuse ==
  /\ parent = "reuse"
  /\ \E S \in SUBSET Job :
       /\ published' = published \cup S
       /\ Complete(S, "reused")
       /\ pending' = InOrder(Job \ S)
  /\ parent' = "dispatch"
  /\ UNCHANGED <<kernel, next, retry, retried, failed, process, verdict>>

CanDispatch == next < Len(pending) /\ Cardinality(Active) < Workers

(* Mutant: the batches overlap.                                            *)
ForkOverlaps ==
  /\ parent = "dispatch"
  /\ CanDispatch
  /\ next' = next + 1
  /\ life' = [life EXCEPT ![next + 1] = "running"]
  /\ good' = [good EXCEPT ![next + 1] = TRUE]
  /\ UNCHANGED <<kernel, parent, ledger, pending, retry, retried, failed, at,
                 retrier, published, verdict>>

(* fork: the child starts on its batch, or the parent has no child and     *)
(* leaves the batch to the retries.                                        *)
Fork ==
  /\ parent = "dispatch"
  /\ CanDispatch
  /\ LET b == next + 1 IN
       /\ next' = next + Size(b)
       /\ \/ /\ life' = [life EXCEPT ![b] = "running"]
             /\ good' = [good EXCEPT ![b] = TRUE]
             /\ UNCHANGED retry
          \/ /\ retry' = retry \o Batch(b)
             /\ UNCHANGED <<life, good>>
  /\ UNCHANGED <<kernel, parent, ledger, pending, retried, failed, at, retrier,
                 published, verdict>>

(* The dispatch loop is over: wait for a child, or leave when none is left.*)
DispatchEnds ==
  /\ parent = "dispatch"
  /\ ~CanDispatch
  /\ parent' = IF Active = {} THEN "retry" ELSE "wait"
  /\ UNCHANGED <<kernel, ledger, lists, failed, process, published, verdict>>
-----------------------------------------------------------------------------
(***************************************************************************)
(* The worker processes.                                                   *)
(***************************************************************************)

(* emit_llvm_chunk_job for the next job of the batch; a job that fails     *)
(* does not stop the batch.                                                *)
Emit(b) ==
  /\ life[b] = "running"
  /\ at[b] < Size(b)
  /\ at' = [at EXCEPT ![b] = @ + 1]
  /\ \/ /\ published' = published \cup {pending[b + at[b]]}
        /\ UNCHANGED good
     \/ /\ good' = [good EXCEPT ![b] = FALSE]
        /\ UNCHANGED published
  /\ UNCHANGED <<kernel, parent, ledger, lists, failed, life, retrier, verdict>>

Exit(b) ==
  /\ life[b] = "running"
  /\ at[b] = Size(b)
  /\ life' = [life EXCEPT ![b] = "ended"]
  /\ UNCHANGED <<kernel, parent, ledger, lists, failed, at, good, retrier,
                 published, verdict>>

(* A signal, an abort inside LLVM or the out-of-memory killer.             *)
Die(b) ==
  /\ life[b] = "running"
  /\ life' = [life EXCEPT ![b] = "ended"]
  /\ good' = [good EXCEPT ![b] = FALSE]
  /\ UNCHANGED <<kernel, parent, ledger, lists, failed, at, retrier,
                 published, verdict>>
-----------------------------------------------------------------------------
(***************************************************************************)
(* The parent waits.                                                       *)
(***************************************************************************)
LoopHead == IF next < Len(pending) \/ Active' # {} THEN "dispatch" ELSE "retry"

(* Mutant: the exit status is not looked at.                               *)
ReapTrusting(b) ==
  /\ parent = "wait" /\ ~autoReap
  /\ life[b] = "ended"
  /\ life' = [life EXCEPT ![b] = "none"]
  /\ Complete(Members(Batch(b)), "emitted")
  /\ parent' = LoopHead
  /\ UNCHANGED <<kernel, lists, failed, at, good, retrier, published, verdict>>

(* waitpid returns a worker: its whole batch is complete, or retried.      *)
Reap(b) ==
  /\ parent = "wait" /\ ~autoReap
  /\ life[b] = "ended"
  /\ life' = [life EXCEPT ![b] = "none"]
  /\ \/ /\ good[b]
        /\ Complete(Members(Batch(b)), "emitted")
        /\ UNCHANGED retry
     \/ /\ ~good[b]
        /\ retry' = retry \o Batch(b)
        /\ UNCHANGED ledger
  /\ parent' = LoopHead
  /\ UNCHANGED <<kernel, pending, next, retried, failed, at, good, retrier,
                 published, verdict>>

(* waitpid returns a child that is no worker of this pool.                 *)
ReapStranger ==
  /\ parent = "wait" /\ ~autoReap
  /\ stranger > 0
  /\ stranger' = stranger - 1
  /\ failed' = TRUE
  /\ parent' = "dispatch"
  /\ UNCHANGED <<autoReap, ledger, lists, process, published, verdict>>

(* Mutant: what was not dispatched is forgotten.                           *)
WaitFailsForgets ==
  /\ parent = "wait" /\ autoReap
  /\ Running = {}
  /\ failed' = TRUE
  /\ next' = Len(pending)
  /\ parent' = "retry"
  /\ UNCHANGED <<kernel, ledger, pending, retry, retried, process, published, verdict>>

(* waitpid fails, which it does only once every child has ended and none   *)
(* can be reaped.  What was not dispatched is left to the retries.         *)
WaitFails ==
  /\ parent = "wait" /\ autoReap
  /\ Running = {}
  /\ failed' = TRUE
  /\ retry' = retry \o SubSeq(pending, next + 1, Len(pending))
  /\ next' = Len(pending)
  /\ parent' = "retry"
  /\ UNCHANGED <<kernel, ledger, pending, retried, process, published, verdict>>
-----------------------------------------------------------------------------
(***************************************************************************)
(* The retries, one process at a time.                                     *)
(***************************************************************************)
RetryFork ==
  /\ parent = "retry"
  /\ retried < Len(retry)
  /\ \/ /\ retrier' = "running"
        /\ parent' = "retryWait"
        /\ UNCHANGED <<retried, failed>>
     \/ /\ failed' = TRUE
        /\ retried' = retried + 1
        /\ UNCHANGED <<retrier, parent>>
  /\ UNCHANGED <<kernel, ledger, pending, next, retry, life, at, good,
                 published, verdict>>

RetryEmit ==
  /\ retrier = "running"
  /\ \/ /\ published' = published \cup {retry[retried + 1]}
        /\ retrier' = "ok"
     \/ /\ retrier' = "bad"
        /\ UNCHANGED published
  /\ UNCHANGED <<kernel, parent, ledger, lists, failed, life, at, good, verdict>>

(* Mutant: a job is retried until it succeeds.                             *)
RetryReapInsists ==
  /\ parent = "retryWait"
  /\ retrier \in {"ok", "bad"}
  /\ retrier' = "none"
  /\ parent' = "retry"
  /\ \/ /\ retrier = "ok" /\ ~autoReap
        /\ retried' = retried + 1
        /\ Complete({retry[retried + 1]}, "emitted")
     \/ /\ retrier = "bad" \/ autoReap
        /\ UNCHANGED <<retried, ledger>>
  /\ UNCHANGED <<kernel, pending, next, retry, failed, life, at, good,
                 published, verdict>>

(* waitpid on the retrier; it fails when children vanish.                  *)
RetryReap ==
  /\ parent = "retryWait"
  /\ retrier \in {"ok", "bad"}
  /\ retrier' = "none"
  /\ retried' = retried + 1
  /\ parent' = "retry"
  /\ \/ /\ retrier = "ok" /\ ~autoReap
        /\ Complete({retry[retried + 1]}, "emitted")
        /\ UNCHANGED failed
     \/ /\ retrier = "bad" \/ autoReap
        /\ failed' = TRUE
        /\ UNCHANGED ledger
  /\ UNCHANGED <<kernel, pending, next, retry, life, at, good, published, verdict>>

Return ==
  /\ parent = "retry"
  /\ retried = Len(retry)
  /\ verdict' = IF ~failed /\ completed = JobCount THEN "ok" ELSE "failed"
  /\ parent' = "returned"
  /\ UNCHANGED <<kernel, ledger, lists, failed, process, published>>
-----------------------------------------------------------------------------
Parent ==
  \/ Reuse \/ Fork \/ DispatchEnds
  \/ \E b \in Position : Reap(b)
  \/ ReapStranger \/ WaitFails
  \/ RetryFork \/ RetryReap \/ Return

Child(b) == Emit(b) \/ Exit(b) \/ Die(b)

Finished ==
  /\ parent = "returned"
  /\ UNCHANGED vars

Next == Parent \/ (\E b \in Position : Child(b)) \/ RetryEmit \/ Finished

Spec == Init /\ [][Next]_vars

(* The parent is scheduled, and a worker ends: it emits, exits or dies.    *)
FairSpec ==
  /\ Spec
  /\ WF_vars(Parent) /\ WF_vars(RetryEmit)
  /\ \A b \in Position : WF_vars(Child(b))
-----------------------------------------------------------------------------
(* An object has one writer: no two processes are inside the same job, and *)
(* a retry starts only after every worker is gone.                         *)
Current(b) == pending[b + at[b]]
Busy == {b \in Running : at[b] < Size(b)}
OneEmitter ==
  /\ \A b, c \in Busy : b # c => Current(b) # Current(c)
  /\ retrier = "running" => Running = {}

Completed == {j \in Job : states[j] # "none"}
Waiting   == {pending[n] : n \in next + 1..Len(pending)}
Held      == UNION {Members(Batch(b)) : b \in Active}
ToRetry   == {retry[n] : n \in retried + 1..Len(retry)}
GivenUp   == IF failed THEN {retry[n] : n \in 1..retried} \ Completed ELSE {}
Places    == <<Completed, Waiting, Held, ToRetry, GivenUp>>
InOnePlace ==
  parent # "reuse" =>
    \A j \in Job : Cardinality({n \in 1..5 : j \in Places[n]}) = 1

(* The counter, the states and the announcements agree, and what they call *)
(* complete has its object in place; the retries fit their array.          *)
LedgerAgrees ==
  /\ completed = Cardinality(Completed)
  /\ Completed \subseteq published
  /\ 1..reported \subseteq Completed
  /\ verdict = "ok" => reported = JobCount
  /\ Len(retry) <= Len(pending)

(* No job is lost and none is run again after it was counted: it is        *)
(* complete, waiting, with a worker, or to be retried, or its only retry   *)
(* was in vain and the call will fail.  What is counted and announced as   *)
(* complete is, and the retry array is never written past its end.         *)
NoJobLost == InOnePlace /\ LedgerAgrees

(* The call comes back whatever fork, waitpid and the workers do.          *)
PoolReturns == <>(parent = "returned")

(* The batch contract: success means that every object is in place.        *)
Batches == INSTANCE JobBatch WITH done <- published
ImplementsBatch == Batches!Spec
=============================================================================
