---- MODULE BatchQueue ----
(***************************************************************************)
(* The Slurm or PBS queue as yall-run uses it, and the batch scripts it    *)
(* runs.  A job is submitted held, with afterok dependencies on other jobs *)
(* (sbatch --hold --dependency, qsub -h -W depend); a released job runs    *)
(* when all of these have exited with zero, and waits for ever when one    *)
(* has not.  A task's script calls run_task up to %retry + 1 times         *)
(* (retry_shell); the postflight script runs the frozen hooks.  Each job   *)
(* is a process, so Job is a part of Proc.                                 *)
(***************************************************************************)
EXTENDS Worker

CONSTANTS
  Job,            \* job ids, handed out in increasing order
  Retries,        \* Retries[t]: %retry of t
  PostflightName  \* the name under which the postflight job is recorded

NoJob == 0
Name == Task \cup {PostflightName}

ASSUME QueueAssumption ==
  /\ Job \subseteq Proc \cap (Nat \ {0})
  /\ Retries \in [Task -> Nat]
  /\ PostflightName \notin Task

VARIABLES
  queue,  \* queue[j]: what the scheduler knows of job j
  runs,   \* runs[j]: the task, or postflight, its script is for
  after,  \* after[j]: the jobs it must come after
  left,   \* left[j]: further calls of run_task its script may make
  hook    \* postflight/ and postflight.json

queueVars == <<queue, runs, after>>
jobVars == <<queueVars, left, hook>>

JobState == {"none", "held", "queued", "running", "done", "failed", "cancelled"}

(* "tried": the runner has begun; "done": postflight.json exists.          *)
HookState == {"none", "tried", "done"}

QueueTypeOK ==
  /\ queue \in [Job -> JobState]
  /\ runs \in [Job -> Name]
  /\ after \in [Job -> SUBSET Job]
  /\ left \in [Job -> Nat]
  /\ hook \in HookState

QueueInit ==
  /\ queue = [j \in Job |-> "none"]
  /\ runs = [j \in Job |-> PostflightName]
  /\ after = [j \in Job |-> {}]
  /\ left = [j \in Job |-> 0]
  /\ hook = "none"

Unused == {j \in Job : queue[j] = "none"}
Released == {j \in Job : queue[j] \in {"queued", "running", "done", "failed"}}

----
(* The scheduler's commands                                                *)

(* Mutant: submitted without a hold.                                       *)
SubmitHeld_NotHeld(j, n, deps) ==
  /\ j \in Unused /\ \A k \in Unused : j <= k
  /\ queue' = [queue EXCEPT ![j] = "queued"]
  /\ runs' = [runs EXCEPT ![j] = n]
  /\ after' = [after EXCEPT ![j] = deps]

(* sbatch, qsub: job j, the next id, is queued and held.                   *)
SubmitHeld(j, n, deps) ==
  /\ j \in Unused /\ \A k \in Unused : j <= k
  /\ queue' = [queue EXCEPT ![j] = "held"]
  /\ runs' = [runs EXCEPT ![j] = n]
  /\ after' = [after EXCEPT ![j] = deps]

(* scontrol release, qrls.                                                 *)
Release(S) ==
  /\ queue' = [j \in Job |-> IF j \in S /\ queue[j] = "held" THEN "queued" ELSE queue[j]]
  /\ UNCHANGED <<runs, after>>

(* scancel, qdel of jobs that have not begun.                              *)
CancelWaiting(S) ==
  /\ queue' = [j \in Job |-> IF j \in S /\ queue[j] \in {"held", "queued"}
                             THEN "cancelled" ELSE queue[j]]
  /\ UNCHANGED <<runs, after>>

----
(* The scripts                                                             *)

EndJob(j, st) ==
  /\ queue[j] = "running"
  /\ queue' = [queue EXCEPT ![j] = st]
  /\ UNCHANGED <<runs, after>>

Dispatched(j) ==
  /\ queue[j] = "queued"
  /\ \A d \in after[j] : queue[d] = "done"
  /\ queue' = [queue EXCEPT ![j] = "running"]
  /\ UNCHANGED <<runs, after>>

DispatchTask(j, t) ==
  /\ runs[j] = t
  /\ Dispatched(j)
  /\ Enter(j, t)
  /\ left' = [left EXCEPT ![j] = Retries[t]]
  /\ UNCHANGED <<diskVars, number, verdict, hook>>

(* run_task failed or raised, and the loop of retry_shell goes round.      *)
CallFailed(j, t) ==
  at[j][t] = "raised" \/ (at[j][t] = "returned" /\ verdict[j][t] = "failed")

RetryTask(j, t) ==
  /\ queue[j] = "running" /\ CallFailed(j, t) /\ left[j] > 0
  /\ at' = [at EXCEPT ![j][t] = "choose"]
  /\ left' = [left EXCEPT ![j] = @ - 1]
  /\ UNCHANGED <<diskVars, number, verdict, queueVars, hook>>

TaskFails(j, t) ==
  /\ CallFailed(j, t) /\ left[j] = 0
  /\ EndJob(j, "failed")
  /\ ForgetCalls(j, {t})
  /\ UNCHANGED <<diskVars, left, hook>>

TaskSucceeds(j, t) ==
  /\ at[j][t] = "returned" /\ verdict[j][t] = "completed"
  /\ EndJob(j, "done")
  /\ ForgetCalls(j, {t})
  /\ UNCHANGED <<diskVars, left, hook>>

(* The postflight runner checks nothing: its job's dependencies do.        *)
DispatchPostflight(j) ==
  /\ runs[j] = PostflightName
  /\ Dispatched(j)
  /\ hook' = IF hook = "done" THEN hook ELSE "tried"
  /\ UNCHANGED <<diskVars, callVars, left>>

PostflightSucceeds(j) ==
  /\ runs[j] = PostflightName
  /\ EndJob(j, "done")
  /\ hook' = "done"
  /\ UNCHANGED <<diskVars, callVars, left>>

PostflightFails(j) ==
  /\ runs[j] = PostflightName
  /\ EndJob(j, "failed")
  /\ UNCHANGED <<diskVars, callVars, left, hook>>

(* The scheduler ends a running job: wall time, memory, a lost node.       *)
EvictJob(j) ==
  /\ EndJob(j, "failed")
  /\ KillCalls(j)
  /\ UNCHANGED <<left, hook>>

RunWorker(j, t) == WorkerStep(j, t) /\ UNCHANGED jobVars

JobStep(j) ==
  \/ \E t \in Task : \/ DispatchTask(j, t) \/ RunWorker(j, t) \/ RetryTask(j, t)
                     \/ TaskFails(j, t) \/ TaskSucceeds(j, t)
  \/ DispatchPostflight(j) \/ PostflightSucceeds(j) \/ PostflightFails(j)
====
