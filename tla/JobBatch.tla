------------------------------ MODULE JobBatch ------------------------------
(***************************************************************************)
(* What running a batch of independent jobs promises its caller, whichever *)
(* way the jobs are spread over threads or processes: the verdict comes    *)
(* once, and "ok" means that every job was done and that none is still     *)
(* being worked on.  After "failed" a straggler may still finish a job.    *)
(***************************************************************************)
CONSTANT Job

VARIABLES
  done,     \* the jobs whose output exists
  verdict   \* what the caller was told: none, ok or failed

bvars == <<done, verdict>>

Init ==
  /\ done = {}
  /\ verdict = "none"

Finish(S) ==
  /\ verdict # "ok"
  /\ done' = done \cup S
  /\ UNCHANGED verdict

Succeed ==
  /\ verdict = "none"
  /\ done = Job
  /\ verdict' = "ok"
  /\ UNCHANGED done

Fail ==
  /\ verdict = "none"
  /\ verdict' = "failed"
  /\ UNCHANGED done

Next == (\E S \in SUBSET Job : Finish(S)) \/ Succeed \/ Fail

Spec == Init /\ [][Next]_bvars
=============================================================================
