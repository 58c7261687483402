---- MODULE BatchSubmit ----
(***************************************************************************)
(* submit_slurm and submit_pbs: the whole graph is submitted held, the job *)
(* ids are recorded in submit.json, the campaign is begun, and only then   *)
(* are the jobs released.  A failure on the way cancels what was submitted *)
(* as far as the scheduler lets it and withdraws the pending start.        *)
(* Several processes may submit one campaign, and each may be killed       *)
(* between any two of these steps.                                         *)
(***************************************************************************)
EXTENDS BatchQueue, StartProtocol, Sequences

CONSTANTS
  Submitter,     \* processes that run `yall-run start`
  TaskOrder,     \* task_order of the manifest
  HasPostflight, \* whether a postflight script was rendered
  InitialFiles,  \* the sets of products that may exist before the start
  Overwrite,     \* bound: whether starts are given --overwrite, or either
  MaxCommands,   \* bound: starts issued in a behaviour
  MaxKills       \* bound: submitters and jobs killed in a behaviour

ASSUME SubmitAssumption ==
  /\ Submitter \subseteq Proc
  /\ Submitter \cap Job = {}
  /\ TaskOrder \in Seq(Task)
  /\ {TaskOrder[i] : i \in 1 .. Len(TaskOrder)} = Task
  /\ HasPostflight \in BOOLEAN
  /\ InitialFiles \subseteq SUBSET File
  /\ Overwrite \subseteq BOOLEAN
  /\ MaxCommands \in Nat
  /\ MaxKills \in Nat

VARIABLES
  ctl,       \* ctl[p]: what submitter p does next
  jobIds,    \* jobIds[p]: the ids it was given, by name
  cursor,    \* cursor[p]: its position in task_order
  returncode,\* submit.json: its returncode ("none": no file)
  recorded,  \* submit.json: its jobs
  overlap,   \* history: whether two submitters were ever at work together
  issued, kills

submitVars == <<jobIds, cursor>>
submitJson == <<returncode, recorded>>
boundVars == <<overlap, issued, kills>>
vars == <<diskVars, callVars, startProcVars, jobVars, ctl, submitVars, submitJson, boundVars>>

Control == {"idle", "prepare", "submit", "postflight", "record",
            "begin", "release", "report_ok", "report_failure",
            "undo", "withdraw", "record_failure", "abort", "abandon"}

(* "null" before the release, then what the release returned.              *)
ReturnCode == {"none", "submit_failed", "null", "zero", "release_failed"}

NoIds == [n \in Name |-> NoJob]

BatchTypeOK ==
  /\ WorkerTypeOK
  /\ StartTypeOK
  /\ QueueTypeOK
  /\ ctl \in [Submitter -> Control]
  /\ jobIds \in [Submitter -> [Name -> Job \cup {NoJob}]]
  /\ cursor \in [Submitter -> 1 .. Len(TaskOrder) + 1]
  /\ returncode \in ReturnCode
  /\ recorded \in [Name -> Job \cup {NoJob}]
  /\ overlap \in BOOLEAN
  /\ issued \in 0 .. MaxCommands
  /\ kills \in 0 .. MaxKills

Init ==
  /\ DiskInit
  /\ files \in InitialFiles
  /\ WorkerInit
  /\ StartInit
  /\ QueueInit
  /\ ctl = [p \in Submitter |-> "idle"]
  /\ jobIds = [p \in Submitter |-> NoIds]
  /\ cursor = [p \in Submitter |-> 1]
  /\ returncode = "none"
  /\ recorded = NoIds
  /\ overlap = FALSE
  /\ issued = 0
  /\ kills = 0

Step(p, from, to) ==
  /\ ctl[p] = from
  /\ ctl' = [ctl EXCEPT ![p] = to]

(* The jobs p knows it submitted, to be cancelled or released.             *)
JobsOf(p) == {jobIds[p][n] : n \in Name} \ {NoJob}

----
(* The start                                                               *)

IssueSubmit(p, asked) ==
  /\ issued < MaxCommands
  /\ returncode # "zero"
  /\ CheckPrepare(p, asked)
  /\ Step(p, "idle", "prepare")
  /\ issued' = issued + 1
  /\ overlap' = (overlap \/ \E q \in Submitter \ {p} : ctl[q] # "idle")
  /\ UNCHANGED <<callVars, jobVars, submitVars, submitJson, kills>>

Prepare(p) ==
  /\ Step(p, "prepare", "submit")
  /\ WritePending(p)
  /\ UNCHANGED <<callVars, jobVars, submitVars, submitJson, boundVars>>

(* Positions of the tasks that can be submitted: their parents' ids are    *)
(* known.  A pass goes on from the cursor; the next one begins at 1.       *)
Submittable(p) ==
  {i \in 1 .. Len(TaskOrder) :
     /\ jobIds[p][TaskOrder[i]] = NoJob
     /\ \A u \in Parents[TaskOrder[i]] : jobIds[p][u] # NoJob}

IsNext(p, i) ==
  LET ahead == {k \in Submittable(p) : k >= cursor[p]}
      candidates == IF ahead # {} THEN ahead ELSE Submittable(p)
  IN i \in candidates /\ \A k \in candidates : i <= k

(* Tasks nothing comes after.                                              *)
Leaves == {t \in Task : \A u \in Task : t \notin Parents[u]}

(* What is submitted next, and the jobs it is to come after.               *)
Pending(p, n) ==
  \/ ctl[p] = "submit" /\ \E i \in Submittable(p) : IsNext(p, i) /\ n = TaskOrder[i]
  \/ ctl[p] = "postflight" /\ n = PostflightName

(* Mutant: postflight comes after the tasks without parents.               *)
Dependencies_Roots(p, n) ==
  {jobIds[p][u] : u \in IF n = PostflightName THEN {t \in Task : Parents[t] = {}}
                        ELSE Parents[n]}

Dependencies(p, n) ==
  {jobIds[p][u] : u \in IF n = PostflightName THEN Leaves ELSE Parents[n]}

SubmitTask(p) ==
  ctl[p] = "submit" /\ \E i \in Submittable(p), j \in Job :
    /\ IsNext(p, i)
    /\ SubmitHeld(j, TaskOrder[i], Dependencies(p, TaskOrder[i]))
    /\ jobIds' = [jobIds EXCEPT ![p][TaskOrder[i]] = j]
    /\ cursor' = [cursor EXCEPT ![p] = i + 1]
    /\ UNCHANGED <<diskVars, callVars, startProcVars, left, hook, ctl, submitJson,
                   boundVars>>

AllSubmitted(p) ==
  /\ Step(p, "submit", IF HasPostflight THEN "postflight" ELSE "record")
  /\ \A t \in Task : jobIds[p][t] # NoJob
  /\ UNCHANGED <<diskVars, callVars, startProcVars, jobVars, submitVars, submitJson,
                 boundVars>>

SubmitPostflight(p) ==
  \E j \in Job :
    /\ Step(p, "postflight", "record")
    /\ SubmitHeld(j, PostflightName, Dependencies(p, PostflightName))
    /\ jobIds' = [jobIds EXCEPT ![p][PostflightName] = j]
    /\ UNCHANGED <<diskVars, callVars, startProcVars, left, hook, cursor, submitJson,
                   boundVars>>

(* sbatch or qsub fails, or answers without an id: the job may have been   *)
(* accepted all the same, and then nobody knows it.                        *)
SubmissionFails(p) ==
  \E n \in Name :
    /\ Pending(p, n)
    /\ ctl' = [ctl EXCEPT ![p] = "undo"]
    /\ Move(p, "prepared", "cancel")
    /\ \/ UNCHANGED queueVars
       \/ \E j \in Job : SubmitHeld(j, n, Dependencies(p, n))
    /\ UNCHANGED <<diskVars, callVars, policy, left, hook, submitVars, submitJson,
                   boundVars>>

RecordHeld(p) ==
  /\ Step(p, "record", "begin")
  /\ returncode' = "null"
  /\ recorded' = jobIds[p]
  /\ UNCHANGED <<diskVars, callVars, startProcVars, jobVars, submitVars, boundVars>>

(* begin_campaign, step by step; a refusal is an exception.                *)
Begin(p) ==
  /\ ctl[p] = "begin"
  /\ \/ (BeginAccepted(p) \/ CommitStart(p)) /\ UNCHANGED ctl
     \/ UnlinkPending(p) /\ Step(p, "begin", "release")
     \/ BeginRefused(p) /\ Step(p, "begin", "abort")
  /\ UNCHANGED <<callVars, jobVars, submitVars, submitJson, boundVars>>

(* Mutant: the return code of the release is not looked at.                *)
ReleaseJobs_IgnoresFailure(p) ==
  /\ Step(p, "release", "report_ok")
  /\ \E S \in SUBSET JobsOf(p) : Release(S)
  /\ UNCHANGED <<diskVars, callVars, startProcVars, left, hook, submitVars, submitJson,
                 boundVars>>

(* The scheduler releases all of the jobs, or reports a failure after some.*)
ReleaseJobs(p) ==
  /\ \/ Step(p, "release", "report_ok") /\ Release(JobsOf(p))
     \/ /\ Step(p, "release", "report_failure")
        /\ \E S \in SUBSET JobsOf(p) : Release(S)
  /\ UNCHANGED <<diskVars, callVars, startProcVars, left, hook, submitVars, submitJson,
                 boundVars>>

----
(* The ends                                                                *)

Forget(p) ==
  /\ jobIds' = [jobIds EXCEPT ![p] = NoIds]
  /\ cursor' = [cursor EXCEPT ![p] = 1]

(* submit.json is read again: only its returncode changes.                 *)
Report(p) ==
  /\ \/ Step(p, "report_ok", "idle") /\ returncode' = "zero"
     \/ Step(p, "report_failure", "idle") /\ returncode' = "release_failed"
  /\ Forget(p)
  /\ ForgetStart(p)
  /\ UNCHANGED <<diskVars, callVars, jobVars, recorded, boundVars>>

(* _cancel_jobs is best effort: some of the jobs may stay.                 *)
CancelSubmitted(p) ==
  /\ Step(p, "undo", "withdraw") \/ Step(p, "abort", "abandon")
  /\ \E S \in SUBSET JobsOf(p) : CancelWaiting(S)
  /\ UNCHANGED <<diskVars, callVars, startProcVars, left, hook, submitVars, submitJson,
                 boundVars>>

(* cancel_prepared_start; submit.json is written after a failed submission *)
(* only.                                                                   *)
Withdraw(p) ==
  /\ Step(p, "withdraw", "record_failure")
  /\ CancelPrepared(p)
  /\ UNCHANGED <<callVars, jobVars, submitVars, submitJson, boundVars>>

RecordFailure(p) ==
  /\ Step(p, "record_failure", "idle")
  /\ returncode' = "submit_failed"
  /\ recorded' = jobIds[p]
  /\ Forget(p)
  /\ UNCHANGED <<diskVars, callVars, startProcVars, jobVars, boundVars>>

Abandon(p) ==
  /\ Step(p, "abandon", "idle")
  /\ CancelPrepared(p)
  /\ Forget(p)
  /\ UNCHANGED <<callVars, jobVars, submitJson, boundVars>>

(* The process is killed, or interrupted from the keyboard, or the release *)
(* command cannot be executed: none of these reaches an except clause, so  *)
(* nothing is cancelled or withdrawn.                                      *)
KillSubmitter(p) ==
  /\ kills < MaxKills
  /\ ctl[p] # "idle"
  /\ ctl' = [ctl EXCEPT ![p] = "idle"]
  /\ kills' = kills + 1
  /\ Forget(p)
  /\ ForgetStart(p)
  /\ UNCHANGED <<diskVars, callVars, jobVars, submitJson, overlap, issued>>

----
SubmitterStep(p) ==
  \/ Prepare(p) \/ SubmitTask(p) \/ AllSubmitted(p) \/ SubmitPostflight(p)
  \/ SubmissionFails(p) \/ RecordHeld(p) \/ Begin(p) \/ ReleaseJobs(p) \/ Report(p)
  \/ CancelSubmitted(p) \/ Withdraw(p) \/ RecordFailure(p) \/ Abandon(p)

RunJob(j) ==
  /\ JobStep(j)
  /\ UNCHANGED <<startProcVars, ctl, submitVars, submitJson, boundVars>>

LoseJob(j) ==
  /\ kills < MaxKills
  /\ EvictJob(j)
  /\ kills' = kills + 1
  /\ UNCHANGED <<startProcVars, ctl, submitVars, submitJson, overlap, issued>>

StrayRuns ==
  /\ StrayOutput
  /\ UNCHANGED <<startProcVars, jobVars, ctl, submitVars, submitJson, boundVars>>

Quiet ==
  /\ \A p \in Submitter : ctl[p] = "idle"
  /\ \A j \in Job : queue[j] # "running"

(* Nobody has to start the campaign; a job may wait for ever.              *)
Rest == Quiet /\ UNCHANGED vars

Next ==
  \/ \E p \in Submitter :
       \/ \E overwrite \in Overwrite :
            IssueSubmit(p, IF overwrite THEN "overwrite" ELSE "keep")
       \/ SubmitterStep(p)
       \/ KillSubmitter(p)
  \/ \E j \in Job : RunJob(j) \/ LoseJob(j)
  \/ StrayRuns
  \/ Rest

(* Live submitters go on; the scheduler dispatches what it may, and        *)
(* payloads and hooks end.  Every script is finite, so it is enough that   *)
(* some job goes on while one can.                                         *)
Fairness ==
  /\ WF_vars(\E p \in Submitter : SubmitterStep(p))
  /\ WF_vars(\E j \in Job : RunJob(j))

Spec == Init /\ [][Next]_vars
FairSpec == Spec /\ Fairness
====
