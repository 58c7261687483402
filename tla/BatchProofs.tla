---- MODULE BatchProofs ----
(***************************************************************************)
(* Slurm and PBS submission, for any graph and any number of submitters    *)
(* that overlap, fail or are killed: no job may run before start.json, and *)
(* the afterok dependencies of held jobs keep dependency order.            *)
(***************************************************************************)
EXTENDS BatchProperties, WorkerProofs

(* The tasks the job named n must come after.                              *)
Predecessors(n) == IF n \in Task THEN Parents[n] ELSE Leaves

(* Each of them is completed already, or has a job among deps.             *)
Covers(deps, n) ==
  \A u \in Predecessors(n) :
    \/ HasCompletedAttempt(u)
    \/ \E d \in deps : queue[d] # "none" /\ runs[d] = u

(* A job comes after jobs of all the tasks it must come after.             *)
AfterParents(j) == queue[j] # "none" => Covers(after[j], runs[j])

(* A job that runs comes after jobs that are done.                         *)
AfterDone(j) == queue[j] = "running" => \A d \in after[j] : queue[d] = "done"

JobsOK ==
  /\ queue \in [Job -> JobState]
  /\ runs \in [Job -> Name]
  /\ after \in [Job -> SUBSET Job]
  /\ \A j \in Job : AfterParents(j) /\ AfterDone(j)

(* The ids a submitter keeps are those of jobs of these names.             *)
IdsOK ==
  /\ jobIds \in [Submitter -> [Name -> Job \cup {NoJob}]]
  /\ \A p \in Submitter : \A n \in Name : jobIds[p][n] # NoJob =>
       queue[jobIds[p][n]] # "none" /\ runs[jobIds[p][n]] = n

(* run_task is called by the running job of the task, and by nobody else.  *)
CallsBelong ==
  \A p \in Proc : \A t \in Task : at[p][t] # "idle" =>
    p \in Job /\ queue[p] = "running" /\ runs[p] = t

(* A job exits with zero when its task has a completed attempt.            *)
DoneCompleted ==
  \A j \in Job : queue[j] = "done" /\ runs[j] \in Task => HasCompletedAttempt(runs[j])

QueueInv ==
  /\ WorkerInv
  /\ JobsOK
  /\ IdsOK
  /\ CallsBelong
  /\ DoneCompleted
  /\ AttemptsFollowDependencies
  /\ PostflightFollowsAll

(* Predecessors are tasks.                                                 *)
LEMMA PredecessorsAreTasks ==
  ASSUME NEW n \in Name
  PROVE  Predecessors(n) \subseteq Task
  BY GraphAssumption DEF Predecessors, Leaves

(* A completed attempt stays on record.                                    *)
LEMMA CompletedKept ==
  ASSUME KeepsTerminal, NEW t \in Task, HasCompletedAttempt(t)
  PROVE  HasCompletedAttempt(t)'
  BY DEF KeepsTerminal, HasCompletedAttempt, Terminal

----
(* The scheduler's commands                                                *)

(* Proof-only: what they do to the jobs there are.                         *)
JobsKept ==
  \A j \in Job :
    /\ queue[j] # "none" => queue'[j] # "none" /\ runs'[j] = runs[j]
    /\ queue'[j] = "done" => queue[j] = "done"
    /\ queue[j] = "running" => queue'[j] = "running"

(* What covered a job goes on covering it.                                 *)
LEMMA CoversKept ==
  ASSUME KeepsTerminal, NEW n \in Name, NEW deps \in SUBSET Job, Covers(deps, n),
         \A d \in deps : queue[d] # "none" => queue'[d] # "none" /\ runs'[d] = runs[d]
  PROVE  Covers(deps, n)'
<1> SUFFICES ASSUME NEW u \in Predecessors(n)
             PROVE  \/ HasCompletedAttempt(u)'
                    \/ \E d \in deps : queue'[d] # "none" /\ runs'[d] = u
  BY DEF Covers, Predecessors, Leaves
<1>1. u \in Task
  BY PredecessorsAreTasks
<1>2. CASE HasCompletedAttempt(u)
  BY <1>1, <1>2, CompletedKept
<1>3. CASE \E d \in deps : queue[d] # "none" /\ runs[d] = u
  BY <1>3
<1> QED
  BY <1>2, <1>3 DEF Covers

(* Jobs that are only added, moved on or ended stay as they should be.     *)
LEMMA JobsOKKept ==
  ASSUME JobsOK, KeepsTerminal, queue' \in [Job -> JobState], UNCHANGED <<runs, after>>,
         \A j \in Job : /\ queue'[j] # "none" <=> queue[j] # "none"
                        /\ queue[j] = "done" => queue'[j] = "done"
                        /\ queue'[j] = "running" =>
                             queue[j] = "running" \/ \A d \in after[j] : queue[d] = "done"
  PROVE  JobsOK'
<1>1. ASSUME NEW j \in Job
      PROVE  AfterParents(j)' /\ AfterDone(j)'
  <2>1. AfterParents(j) /\ AfterDone(j) /\ runs[j] \in Name /\ after[j] \in SUBSET Job
    BY DEF JobsOK
  <2>2. AfterParents(j)'
    BY <2>1, CoversKept DEF AfterParents, Covers, Predecessors, Leaves
  <2>3. AfterDone(j)'
    BY <2>1 DEF AfterDone
  <2> QED
    BY <2>2, <2>3
<1> QED
  BY <1>1 DEF JobsOK

(* A new job comes after what it must come after.                          *)
LEMMA SubmitHeldJobs ==
  ASSUME JobsOK, NEW j \in Job, NEW n \in Name, NEW deps \in SUBSET Job, SubmitHeld(j, n, deps),
         Covers(deps, n), UNCHANGED attempt
  PROVE  JobsOK' /\ JobsKept /\ queue'[j] = "held" /\ runs'[j] = n
<1>1. /\ queue[j] = "none"
      /\ queue' \in [Job -> JobState] /\ runs' \in [Job -> Name] /\ after' \in [Job -> SUBSET Job]
      /\ \A k \in Job : /\ queue'[k] = IF k = j THEN "held" ELSE queue[k]
                        /\ runs'[k] = IF k = j THEN n ELSE runs[k]
                        /\ after'[k] = IF k = j THEN deps ELSE after[k]
  BY DEF SubmitHeld, JobsOK, Unused, JobState
<1>2. \A k \in Job : AfterParents(k) /\ AfterDone(k) /\ after[k] \in SUBSET Job /\ runs[k] \in Name
  BY DEF JobsOK
<1>3. KeepsTerminal
  BY DEF KeepsTerminal
<1>4. Covers(deps, n)'
  BY <1>1, <1>3, CoversKept
<1>5. ASSUME NEW k \in Job
      PROVE  AfterParents(k)' /\ AfterDone(k)'
  <2>1. CASE k = j
    BY <1>1, <1>4, <2>1 DEF AfterParents, AfterDone, Covers
  <2>2. CASE k # j
    <3>1. ASSUME queue[k] # "none"
          PROVE  Covers(after[k], runs[k])'
      <4>1. Covers(after[k], runs[k]) /\ after[k] \in SUBSET Job /\ runs[k] \in Name
        BY <1>2, <3>1 DEF AfterParents
      <4>2. \A d \in after[k] : queue[d] # "none" => queue'[d] # "none" /\ runs'[d] = runs[d]
        BY <1>1, <4>1 DEF JobState
      <4>3. after'[k] = after[k] /\ runs'[k] = runs[k]
        BY <1>1, <2>2
      <4> QED
        BY <1>3, <4>1, <4>2, <4>3, CoversKept DEF Covers, Predecessors, Leaves
    <3>2. AfterParents(k)'
      BY <1>1, <2>2, <3>1 DEF AfterParents
    <3>3. AfterDone(k)'
      BY <1>1, <1>2, <2>2 DEF AfterDone
    <3> QED
      BY <3>2, <3>3
  <2> QED
    BY <2>1, <2>2
<1> QED
  BY <1>1, <1>5 DEF JobsOK, JobsKept

(* A release lets held jobs go; it adds none and ends none.                *)
LEMMA ReleaseJobsOK ==
  ASSUME JobsOK, NEW S, Release(S), UNCHANGED attempt
  PROVE  JobsOK' /\ JobsKept
<1>1. /\ queue' \in [Job -> JobState] /\ UNCHANGED <<runs, after>>
      /\ \A k \in Job : queue'[k] = IF k \in S /\ queue[k] = "held" THEN "queued" ELSE queue[k]
  BY DEF Release, JobsOK, JobState
<1>2. KeepsTerminal
  BY DEF KeepsTerminal
<1> QED
  BY <1>1, <1>2, JobsOKKept DEF JobsKept

(* A cancellation takes waiting jobs only.                                 *)
LEMMA CancelWaitingOK ==
  ASSUME JobsOK, NEW S, CancelWaiting(S), UNCHANGED attempt
  PROVE  JobsOK' /\ JobsKept
<1>1. /\ queue' \in [Job -> JobState] /\ UNCHANGED <<runs, after>>
      /\ \A k \in Job : queue'[k] = IF k \in S /\ queue[k] \in {"held", "queued"}
                                    THEN "cancelled" ELSE queue[k]
  BY DEF CancelWaiting, JobsOK, JobState
<1>2. KeepsTerminal
  BY DEF KeepsTerminal
<1> QED
  BY <1>1, <1>2, JobsOKKept DEF JobsKept

(* A step that changes no call and no record, and keeps the jobs.          *)
LEMMA JobsKeptInv ==
  ASSUME QueueInv, JobsOK', JobsKept, IdsOK', DiskTypeOK',
         UNCHANGED <<stateVars, attempt, callVars, hook>>
  PROVE  QueueInv'
<1>1. UNCHANGED <<status, attempts, attempt, at, number, verdict>>
  BY DEF stateVars, callVars
<1>2. WorkerInv'
  BY <1>1, StatusInv DEF QueueInv, callVars
<1>3. CallsBelong'
  BY <1>1 DEF QueueInv, CallsBelong, JobsKept
<1>4. DoneCompleted'
  BY <1>1 DEF QueueInv, DoneCompleted, JobsKept, HasCompletedAttempt
<1>5. AttemptsFollowDependencies'
  BY <1>1 DEF QueueInv, AttemptsFollowDependencies, HasCompletedAttempt
<1>6. PostflightFollowsAll'
  BY <1>1 DEF QueueInv, PostflightFollowsAll, HasCompletedAttempt
<1> QED
  BY <1>2, <1>3, <1>4, <1>5, <1>6 DEF QueueInv

(* Ids that are kept or forgotten stay right while the jobs are kept.      *)
LEMMA IdsKept ==
  ASSUME IdsOK, JobsKept,
         jobIds' \in [Submitter -> [Name -> Job \cup {NoJob}]],
         \A p \in Submitter : \A n \in Name : jobIds'[p][n] \in {jobIds[p][n], NoJob}
  PROVE  IdsOK'
<1>1. \A p \in Submitter : \A n \in Name : jobIds'[p][n] # NoJob =>
        /\ jobIds'[p][n] = jobIds[p][n] /\ jobIds[p][n] \in Job
        /\ queue[jobIds[p][n]] # "none" /\ runs[jobIds[p][n]] = n
  BY DEF IdsOK
<1>2. \A p \in Submitter : \A n \in Name : jobIds'[p][n] # NoJob =>
        queue'[jobIds'[p][n]] # "none" /\ runs'[jobIds'[p][n]] = n
  BY <1>1 DEF JobsKept
<1> QED
  BY <1>2 DEF IdsOK

----
(* Start records and what each submitter knows of them                     *)

(* A submitter past its check knows a policy, and one past its commit, or  *)
(* about to release, knows that start.json exists.                         *)
StartKnown(p) ==
  /\ starting[p] \in {"checked", "prepared", "commit"} => policy[p] # "none"
  /\ starting[p] \in {"unlink", "started"} => start # "none"
  /\ ctl[p] = "release" => start # "none"

(* The postflight job is submitted when every task has its job.            *)
AllNamed(p) == ctl[p] = "postflight" => \A t \in Task : jobIds[p][t] # NoJob

SubmittersOK ==
  /\ StartTypeOK
  /\ ctl \in [Submitter -> Control]
  /\ \A p \in Submitter : StartKnown(p) /\ AllNamed(p)

BatchInv == QueueInv /\ SubmittersOK /\ StartedBeforeRunning

(* A new campaign satisfies the invariant.                                 *)
LEMMA BatchInitInv == Init => BatchInv
<1> SUFFICES ASSUME Init PROVE BatchInv
  OBVIOUS
<1>1. WorkerInv
  BY SubmitAssumption, InitInv DEF Init
<1>2. /\ queue = [j \in Job |-> "none"]
      /\ runs = [j \in Job |-> PostflightName]
      /\ after = [j \in Job |-> {}]
      /\ jobIds = [p \in Submitter |-> [n \in Name |-> NoJob]]
  BY DEF Init, QueueInit, NoIds
<1>3. JobsOK
  BY <1>2 DEF JobsOK, JobState, Name, AfterParents, AfterDone
<1>4. IdsOK
  BY <1>2 DEF IdsOK
<1>5. CallsBelong
  BY DEF Init, WorkerInit, CallsBelong
<1>6. DoneCompleted /\ StartedBeforeRunning
  BY <1>2 DEF DoneCompleted, StartedBeforeRunning
<1>7. AttemptsFollowDependencies /\ PostflightFollowsAll
  BY DEF Init, DiskInit, QueueInit, AttemptsFollowDependencies, PostflightFollowsAll
<1>8. SubmittersOK
  BY SubmitAssumption
  DEF Init, StartInit, StartTypeOK, StartPC, Record, SubmittersOK, Control, StartKnown, AllNamed
<1> QED
  BY <1>1, <1>3, <1>4, <1>5, <1>6, <1>7, <1>8 DEF BatchInv, QueueInv

(* A step of submitter p that leaves jobs, calls and attempts alone.       *)
LEMMA QuietStep ==
  ASSUME BatchInv, NEW p \in Submitter, DiskTypeOK', SubmittersOK',
         UNCHANGED <<stateVars, attempt, callVars, queueVars, hook>>,
         jobIds' = jobIds \/ Forget(p),
         start # "none" => start' # "none"
  PROVE  BatchInv'
<1>1. UNCHANGED <<queue, runs, after>>
  BY DEF queueVars
<1>2. JobsOK' /\ JobsKept
  BY <1>1, JobsOKKept DEF BatchInv, QueueInv, JobsOK, JobsKept, KeepsTerminal
<1>3. /\ jobIds' \in [Submitter -> [Name -> Job \cup {NoJob}]]
      /\ \A q \in Submitter : \A n \in Name : jobIds'[q][n] \in {jobIds[q][n], NoJob}
  BY DEF BatchInv, QueueInv, IdsOK, Forget, NoIds
<1>4. IdsOK'
  BY <1>2, <1>3, IdsKept DEF BatchInv, QueueInv
<1>5. QueueInv'
  BY <1>2, <1>4, JobsKeptInv DEF BatchInv
<1>6. StartedBeforeRunning'
  BY <1>1 DEF BatchInv, StartedBeforeRunning
<1> QED
  BY <1>5, <1>6 DEF BatchInv

----
(* The steps of a submitter: what changes is its own control state, its    *)
(* own start and the start records.                                        *)
USE DEF diskVars, stateVars, fileVars, startVars, callVars, jobVars, queueVars,
        startProcVars, submitVars

(* The checks of a start.                                                  *)
LEMMA IssueSubmitInv ==
  ASSUME BatchInv, NEW p \in Submitter, NEW asked \in Policy, IssueSubmit(p, asked)
  PROVE  BatchInv'
<1>1. DiskTypeOK' /\ (start # "none" => start' # "none")
  BY SubmitAssumption
  DEF BatchInv, QueueInv, WorkerInv, WorkerTypeOK, DiskTypeOK, SubmittersOK,
      StartTypeOK, StartKnown, Record, Move, Step, IssueSubmit, CheckPrepare
<1>2. SubmittersOK'
  BY SubmitAssumption
  DEF BatchInv, QueueInv, IdsOK, SubmittersOK, StartTypeOK, StartPC, Control,
      StartKnown, AllNamed, Record, Policy, Move, Step, IssueSubmit, CheckPrepare
<1> QED
  BY <1>1, <1>2, QuietStep
  DEF Move, Step, IssueSubmit, CheckPrepare

(* The pending record.                                                     *)
LEMMA PrepareInv ==
  ASSUME BatchInv, NEW p \in Submitter, Prepare(p)
  PROVE  BatchInv'
<1>1. DiskTypeOK' /\ (start # "none" => start' # "none")
  BY SubmitAssumption
  DEF BatchInv, QueueInv, WorkerInv, WorkerTypeOK, DiskTypeOK, SubmittersOK,
      StartTypeOK, StartKnown, Record, Move, Step, Prepare, WritePending
<1>2. SubmittersOK'
  BY SubmitAssumption
  DEF BatchInv, QueueInv, IdsOK, SubmittersOK, StartTypeOK, StartPC, Control,
      StartKnown, AllNamed, Record, Policy, Move, Step, Prepare, WritePending
<1> QED
  BY <1>1, <1>2, QuietStep
  DEF Move, Step, Prepare, WritePending

(* The pass over the tasks ends.                                           *)
LEMMA AllSubmittedInv ==
  ASSUME BatchInv, NEW p \in Submitter, AllSubmitted(p)
  PROVE  BatchInv'
<1>1. DiskTypeOK' /\ (start # "none" => start' # "none")
  BY SubmitAssumption
  DEF BatchInv, QueueInv, WorkerInv, WorkerTypeOK, DiskTypeOK, SubmittersOK,
      StartTypeOK, StartKnown, Record, Step, AllSubmitted
<1>2. SubmittersOK'
  BY SubmitAssumption
  DEF BatchInv, QueueInv, IdsOK, SubmittersOK, StartTypeOK, StartPC, Control,
      StartKnown, AllNamed, Record, Policy, Step, AllSubmitted
<1> QED
  BY <1>1, <1>2, QuietStep
  DEF Step, AllSubmitted

(* submit.json names the held jobs.                                        *)
LEMMA RecordHeldInv ==
  ASSUME BatchInv, NEW p \in Submitter, RecordHeld(p)
  PROVE  BatchInv'
<1>1. DiskTypeOK' /\ (start # "none" => start' # "none")
  BY SubmitAssumption
  DEF BatchInv, QueueInv, WorkerInv, WorkerTypeOK, DiskTypeOK, SubmittersOK,
      StartTypeOK, StartKnown, Record, Step, RecordHeld
<1>2. SubmittersOK'
  BY SubmitAssumption
  DEF BatchInv, QueueInv, IdsOK, SubmittersOK, StartTypeOK, StartPC, Control,
      StartKnown, AllNamed, Record, Policy, Step, RecordHeld
<1> QED
  BY <1>1, <1>2, QuietStep
  DEF Step, RecordHeld

(* begin_campaign.                                                         *)
LEMMA BeginStartInv ==
  ASSUME BatchInv, NEW p \in Submitter, Begin(p)
  PROVE  BatchInv'
<1>1. DiskTypeOK' /\ (start # "none" => start' # "none")
  BY SubmitAssumption
  DEF BatchInv, QueueInv, WorkerInv, WorkerTypeOK, DiskTypeOK, SubmittersOK,
      StartTypeOK, StartKnown, Record, Move, Step, Begin, BeginAccepted, BeginRefused,
      CommitStart, UnlinkPending
<1>2. SubmittersOK'
  <2>1. /\ UNCHANGED jobIds
        /\ StartTypeOK /\ ctl \in [Submitter -> Control] /\ p \in Proc
        /\ \A q \in Submitter : StartKnown(q) /\ AllNamed(q)
    BY SubmitAssumption DEF Begin, BatchInv, SubmittersOK
  <2>2. CASE BeginAccepted(p) /\ UNCHANGED ctl
    BY <2>1, <2>2
    DEF BatchInv, QueueInv, WorkerInv, WorkerTypeOK, DiskTypeOK, BeginAccepted, Move,
        SubmittersOK, StartTypeOK, StartPC, Record, StartKnown, AllNamed
  <2>3. CASE CommitStart(p) /\ UNCHANGED ctl
    BY <2>1, <2>3
    DEF CommitStart, Move, SubmittersOK, StartTypeOK, StartPC, StartKnown, AllNamed
  <2>4. CASE UnlinkPending(p) /\ Step(p, "begin", "release")
    BY <2>1, <2>4
    DEF UnlinkPending, Move, Step, SubmittersOK, StartTypeOK, StartPC, Control, StartKnown, AllNamed
  <2>5. CASE BeginRefused(p) /\ Step(p, "begin", "abort")
    BY <2>1, <2>5
    DEF BeginRefused, Move, Step, SubmittersOK, StartTypeOK, StartPC, Control, StartKnown, AllNamed
  <2> QED
    BY <2>2, <2>3, <2>4, <2>5 DEF Begin
<1> QED
  BY <1>1, <1>2, QuietStep
  DEF Move, Step, Begin, BeginAccepted, BeginRefused,
      CommitStart, UnlinkPending

(* The result of the release.                                              *)
LEMMA ReportInv ==
  ASSUME BatchInv, NEW p \in Submitter, Report(p)
  PROVE  BatchInv'
<1>1. DiskTypeOK' /\ (start # "none" => start' # "none")
  BY SubmitAssumption
  DEF BatchInv, QueueInv, WorkerInv, WorkerTypeOK, DiskTypeOK, SubmittersOK,
      StartTypeOK, StartKnown, Record, Step, Report, Forget, ForgetStart
<1>2. SubmittersOK'
  <2>1. /\ ctl' \in [Submitter -> Control] /\ StartTypeOK'
        /\ \A q \in Submitter \ {p} : ctl'[q] = ctl[q] /\ jobIds'[q] = jobIds[q]
                                     /\ starting'[q] = starting[q] /\ policy'[q] = policy[q]
        /\ ctl'[p] = "idle" /\ starting'[p] = "out"
    BY SubmitAssumption, SMTT(30), ZenonT(30)
    DEF BatchInv, QueueInv, IdsOK, SubmittersOK, StartTypeOK, StartPC, Control,
        Record, Step, Report, Forget, ForgetStart
  <2>2. start' = start
    BY DEF Report
  <2>3. \A q \in Submitter : StartKnown(q)' /\ AllNamed(q)'
    BY <2>1, <2>2 DEF BatchInv, SubmittersOK, StartKnown, AllNamed
  <2> QED
    BY <2>1, <2>3 DEF SubmittersOK
<1> QED
  BY <1>1, <1>2, QuietStep
  DEF Step, Report, Forget, ForgetStart

(* The pending record is withdrawn.                                        *)
LEMMA WithdrawInv ==
  ASSUME BatchInv, NEW p \in Submitter, Withdraw(p)
  PROVE  BatchInv'
<1>1. DiskTypeOK' /\ (start # "none" => start' # "none")
  BY SubmitAssumption
  DEF BatchInv, QueueInv, WorkerInv, WorkerTypeOK, DiskTypeOK, SubmittersOK,
      StartTypeOK, StartKnown, Record, Move, Step, Withdraw, CancelPrepared
<1>2. SubmittersOK'
  BY SubmitAssumption
  DEF BatchInv, QueueInv, IdsOK, SubmittersOK, StartTypeOK, StartPC, Control,
      StartKnown, AllNamed, Record, Policy, Move, Step, Withdraw, CancelPrepared
<1> QED
  BY <1>1, <1>2, QuietStep
  DEF Move, Step, Withdraw, CancelPrepared

(* submit.json after a failed submission.                                  *)
LEMMA RecordFailureInv ==
  ASSUME BatchInv, NEW p \in Submitter, RecordFailure(p)
  PROVE  BatchInv'
<1>1. DiskTypeOK' /\ (start # "none" => start' # "none")
  BY SubmitAssumption
  DEF BatchInv, QueueInv, WorkerInv, WorkerTypeOK, DiskTypeOK, SubmittersOK,
      StartTypeOK, StartKnown, Record, Step, RecordFailure, Forget, NoIds
<1>2. SubmittersOK'
  BY SubmitAssumption
  DEF BatchInv, QueueInv, IdsOK, SubmittersOK, StartTypeOK, StartPC, Control,
      StartKnown, AllNamed, Record, Policy, Step, RecordFailure, Forget, NoIds
<1> QED
  BY <1>1, <1>2, QuietStep
  DEF Step, RecordFailure, Forget, NoIds

(* The end of a refused begin.                                             *)
LEMMA AbandonInv ==
  ASSUME BatchInv, NEW p \in Submitter, Abandon(p)
  PROVE  BatchInv'
<1>1. DiskTypeOK' /\ (start # "none" => start' # "none")
  BY SubmitAssumption
  DEF BatchInv, QueueInv, WorkerInv, WorkerTypeOK, DiskTypeOK, SubmittersOK,
      StartTypeOK, StartKnown, Record, Move, Step, Abandon, CancelPrepared, Forget,
      NoIds
<1>2. SubmittersOK'
  BY SubmitAssumption
  DEF BatchInv, QueueInv, IdsOK, SubmittersOK, StartTypeOK, StartPC, Control,
      StartKnown, AllNamed, Record, Policy, Move, Step, Abandon, CancelPrepared,
      Forget, NoIds
<1> QED
  BY <1>1, <1>2, QuietStep
  DEF Move, Step, Abandon, CancelPrepared, Forget,
      NoIds

(* A submitter dies.                                                       *)
LEMMA KillSubmitterInv ==
  ASSUME BatchInv, NEW p \in Submitter, KillSubmitter(p)
  PROVE  BatchInv'
<1>1. DiskTypeOK' /\ (start # "none" => start' # "none")
  BY SubmitAssumption
  DEF BatchInv, QueueInv, WorkerInv, WorkerTypeOK, DiskTypeOK, SubmittersOK,
      StartTypeOK, StartKnown, Record, KillSubmitter, Forget, ForgetStart
<1>2. SubmittersOK'
  <2>1. /\ ctl' \in [Submitter -> Control] /\ StartTypeOK'
        /\ \A q \in Submitter \ {p} : ctl'[q] = ctl[q] /\ jobIds'[q] = jobIds[q]
                                     /\ starting'[q] = starting[q] /\ policy'[q] = policy[q]
        /\ ctl'[p] = "idle" /\ starting'[p] = "out"
    BY SubmitAssumption
    DEF BatchInv, QueueInv, IdsOK, SubmittersOK, StartTypeOK, StartPC, Control,
        Record, KillSubmitter, Forget, ForgetStart
  <2>2. start' = start
    BY DEF KillSubmitter
  <2>3. \A q \in Submitter : StartKnown(q)' /\ AllNamed(q)'
    BY <2>1, <2>2 DEF BatchInv, SubmittersOK, StartKnown, AllNamed
  <2> QED
    BY <2>1, <2>3 DEF SubmittersOK
<1> QED
  BY <1>1, <1>2, QuietStep
  DEF KillSubmitter, Forget, ForgetStart

----
(* The commands a submitter gives the scheduler                            *)

(* Its start records say what they said.                                   *)
LEMMA SubmittersKept ==
  ASSUME SubmittersOK, NEW p \in Submitter, NEW to \in Control, to \notin {"release", "postflight"},
         ctl' = [ctl EXCEPT ![p] = to], UNCHANGED <<start, jobIds>>,
         UNCHANGED startProcVars \/ (Move(p, "prepared", "cancel") /\ UNCHANGED policy)
  PROVE  SubmittersOK'
  BY SubmitAssumption
  DEF SubmittersOK, StartTypeOK, StartPC, Control, StartKnown, AllNamed, Move

(* A command of the scheduler that keeps the jobs and lets none run early. *)
LEMMA CommandStep ==
  ASSUME BatchInv, JobsOK', JobsKept, IdsOK', SubmittersOK',
         UNCHANGED <<diskVars, callVars, hook>>,
         \A j \in Job : queue'[j] \in {"queued", "running"} =>
                         queue[j] \in {"queued", "running"} \/ start # "none"
  PROVE  BatchInv'
<1>1. DiskTypeOK'
  BY DEF BatchInv, QueueInv, WorkerInv, WorkerTypeOK, DiskTypeOK
<1>2. QueueInv'
  BY <1>1, JobsKeptInv DEF BatchInv
<1>3. StartedBeforeRunning'
  BY DEF BatchInv, StartedBeforeRunning
<1> QED
  BY <1>2, <1>3 DEF BatchInv

(* What a submission comes after, in p's ids.                              *)
LEMMA DependenciesAreJobs ==
  ASSUME BatchInv, NEW p \in Submitter, NEW n \in Name, Pending(p, n)
  PROVE  Dependencies(p, n) \in SUBSET Job /\ Covers(Dependencies(p, n), n)
<1>1. /\ jobIds[p] \in [Name -> Job \cup {NoJob}]
      /\ \A m \in Name : jobIds[p][m] # NoJob =>
           queue[jobIds[p][m]] # "none" /\ runs[jobIds[p][m]] = m
  BY DEF BatchInv, QueueInv, IdsOK
<1>2. CASE n = PostflightName
  <2>1. ctl[p] = "postflight"
    BY <1>2, QueueAssumption, SubmitAssumption DEF Pending, Submittable
  <2>2. \A t \in Task : jobIds[p][t] # NoJob
    BY <2>1 DEF BatchInv, SubmittersOK, AllNamed
  <2> QED
    BY <1>1, <1>2, <2>2, QueueAssumption DEF Dependencies, Covers, Predecessors, Leaves, Name
<1>3. CASE n # PostflightName
  <2>1. PICK i \in Submittable(p) : n = TaskOrder[i]
    BY <1>3 DEF Pending
  <2>2. n \in Task /\ \A u \in Parents[n] : jobIds[p][u] # NoJob
    BY <1>3, <2>1 DEF Submittable, Name
  <2>3. Parents[n] \subseteq Task
    BY <2>2, GraphAssumption
  <2>4. Dependencies(p, n) = {jobIds[p][u] : u \in Parents[n]}
    BY <1>3 DEF Dependencies
  <2> QED
    BY <1>1, <2>2, <2>3, <2>4 DEF Covers, Predecessors, Name
<1> QED
  BY <1>2, <1>3

(* The id of a new job is noted.                                           *)
LEMMA IdNoted ==
  ASSUME IdsOK, JobsKept, NEW p \in Submitter, NEW n \in Name, NEW j \in Job,
         queue'[j] = "held", runs'[j] = n, jobIds' = [jobIds EXCEPT ![p][n] = j]
  PROVE  IdsOK'
<1>1. /\ jobIds' \in [Submitter -> [Name -> Job \cup {NoJob}]]
      /\ \A q \in Submitter : \A m \in Name :
           jobIds'[q][m] = IF q = p /\ m = n THEN j ELSE jobIds[q][m]
  BY DEF IdsOK
<1>2. \A q \in Submitter : \A m \in Name : jobIds'[q][m] # NoJob =>
        queue'[jobIds'[q][m]] # "none" /\ runs'[jobIds'[q][m]] = m
  BY <1>1 DEF IdsOK, JobsKept
<1> QED
  BY <1>1, <1>2 DEF IdsOK

(* A task is submitted held, after the jobs of its parents.                *)
LEMMA SubmitTaskInv ==
  ASSUME BatchInv, NEW p \in Submitter, SubmitTask(p)
  PROVE  BatchInv'
<1>1. PICK i \in Submittable(p), j \in Job :
        /\ ctl[p] = "submit"
        /\ IsNext(p, i)
        /\ SubmitHeld(j, TaskOrder[i], Dependencies(p, TaskOrder[i]))
        /\ jobIds' = [jobIds EXCEPT ![p][TaskOrder[i]] = j]
        /\ UNCHANGED <<diskVars, callVars, startProcVars, ctl, hook>>
  BY DEF SubmitTask
<1> DEFINE n == TaskOrder[i]
<1>2. n \in Task /\ n \in Name /\ Pending(p, n)
  BY <1>1, SubmitAssumption DEF Submittable, Name, Pending
<1>3. Dependencies(p, n) \in SUBSET Job /\ Covers(Dependencies(p, n), n)
  BY <1>2, DependenciesAreJobs
<1>4. JobsOK' /\ JobsKept /\ queue'[j] = "held" /\ runs'[j] = n
  BY <1>1, <1>2, <1>3, SubmitHeldJobs DEF BatchInv, QueueInv
<1>5. IdsOK'
  BY <1>1, <1>2, <1>4, IdNoted DEF BatchInv, QueueInv
<1>6. SubmittersOK'
  BY <1>1, <1>2, QueueAssumption
  DEF BatchInv, QueueInv, IdsOK, SubmittersOK, StartTypeOK, StartKnown, AllNamed, Name, NoJob
<1>7. \A k \in Job : queue'[k] \in {"queued", "running"} => queue[k] \in {"queued", "running"}
  BY <1>1 DEF SubmitHeld, BatchInv, QueueInv, JobsOK
<1> QED
  BY <1>1, <1>4, <1>5, <1>6, <1>7, CommandStep

(* The postflight job is submitted held.                                   *)
LEMMA SubmitPostflightInv ==
  ASSUME BatchInv, NEW p \in Submitter, SubmitPostflight(p)
  PROVE  BatchInv'
<1> DEFINE n == PostflightName
<1>1. PICK j \in Job :
        /\ ctl[p] = "postflight" /\ ctl' = [ctl EXCEPT ![p] = "record"]
        /\ SubmitHeld(j, n, Dependencies(p, n))
        /\ jobIds' = [jobIds EXCEPT ![p][n] = j]
        /\ UNCHANGED <<diskVars, callVars, startProcVars, hook>>
  BY DEF SubmitPostflight, Step
<1>2. n \in Name /\ n \notin Task /\ Pending(p, n)
  BY <1>1, QueueAssumption DEF Name, Pending
<1>3. Dependencies(p, n) \in SUBSET Job /\ Covers(Dependencies(p, n), n)
  BY <1>2, DependenciesAreJobs
<1>4. JobsOK' /\ JobsKept /\ queue'[j] = "held" /\ runs'[j] = n
  BY <1>1, <1>2, <1>3, SubmitHeldJobs DEF BatchInv, QueueInv
<1>5. IdsOK'
  BY <1>1, <1>2, <1>4, IdNoted DEF BatchInv, QueueInv
<1>6. SubmittersOK'
  BY <1>1, <1>2
  DEF BatchInv, QueueInv, IdsOK, SubmittersOK, StartTypeOK, StartKnown, AllNamed, Name, Control
<1>7. \A k \in Job : queue'[k] \in {"queued", "running"} => queue[k] \in {"queued", "running"}
  BY <1>1 DEF SubmitHeld, BatchInv, QueueInv, JobsOK
<1> QED
  BY <1>1, <1>4, <1>5, <1>6, <1>7, CommandStep

(* A job accepted without an answer is held and nobody knows it.           *)
LEMMA SubmissionFailsInv ==
  ASSUME BatchInv, NEW p \in Submitter, SubmissionFails(p)
  PROVE  BatchInv'
<1>1. PICK n \in Name :
        /\ Pending(p, n)
        /\ ctl' = [ctl EXCEPT ![p] = "undo"]
        /\ Move(p, "prepared", "cancel") /\ UNCHANGED policy
        /\ UNCHANGED <<diskVars, callVars, jobIds, hook>>
        /\ \/ UNCHANGED queueVars
           \/ \E j \in Job : SubmitHeld(j, n, Dependencies(p, n))
  BY DEF SubmissionFails
<1>2. SubmittersOK'
  BY <1>1, SubmittersKept DEF BatchInv, Control
<1>3. /\ JobsOK' /\ JobsKept
      /\ \A k \in Job : queue'[k] \in {"queued", "running"} => queue[k] \in {"queued", "running"}
  <2>1. CASE UNCHANGED queueVars
    BY <1>1, <2>1, JobsOKKept DEF BatchInv, QueueInv, JobsOK, JobsKept, KeepsTerminal
  <2>2. ASSUME NEW j \in Job, SubmitHeld(j, n, Dependencies(p, n))
        PROVE  /\ JobsOK' /\ JobsKept
               /\ \A k \in Job : queue'[k] \in {"queued", "running"} =>
                                  queue[k] \in {"queued", "running"}
    <3>1. Dependencies(p, n) \in SUBSET Job /\ Covers(Dependencies(p, n), n)
      BY <1>1, DependenciesAreJobs
    <3>2. JobsOK' /\ JobsKept
      BY <1>1, <2>2, <3>1, SubmitHeldJobs DEF BatchInv, QueueInv
    <3> QED
      BY <2>2, <3>2 DEF SubmitHeld, BatchInv, QueueInv, JobsOK
  <2> QED
    BY <1>1, <2>1, <2>2
<1>4. IdsOK'
  BY <1>1, <1>3, IdsKept DEF BatchInv, QueueInv, IdsOK
<1> QED
  BY <1>1, <1>2, <1>3, <1>4, CommandStep

(* The jobs are released after start.json was written.                     *)
LEMMA ReleaseJobsInv ==
  ASSUME BatchInv, NEW p \in Submitter, ReleaseJobs(p)
  PROVE  BatchInv'
<1>1. /\ ctl[p] = "release"
      /\ ctl' = [ctl EXCEPT ![p] = "report_ok"] \/ ctl' = [ctl EXCEPT ![p] = "report_failure"]
      /\ UNCHANGED <<diskVars, callVars, startProcVars, jobIds, hook>>
  BY DEF ReleaseJobs, Step
<1>2. PICK S \in SUBSET JobsOf(p) : Release(S)
  BY DEF ReleaseJobs
<1>3. start # "none"
  BY <1>1 DEF BatchInv, SubmittersOK, StartKnown
<1>4. JobsOK' /\ JobsKept
  BY <1>1, <1>2, ReleaseJobsOK DEF BatchInv, QueueInv
<1>5. IdsOK'
  BY <1>1, <1>4, IdsKept DEF BatchInv, QueueInv, IdsOK
<1>6. SubmittersOK'
  BY <1>1, SubmittersKept DEF BatchInv, Control
<1> QED
  BY <1>1, <1>3, <1>4, <1>5, <1>6, CommandStep

(* The jobs that wait are cancelled, as far as the scheduler lets them.    *)
LEMMA CancelSubmittedInv ==
  ASSUME BatchInv, NEW p \in Submitter, CancelSubmitted(p)
  PROVE  BatchInv'
<1>1. /\ ctl' = [ctl EXCEPT ![p] = "withdraw"] \/ ctl' = [ctl EXCEPT ![p] = "abandon"]
      /\ UNCHANGED <<diskVars, callVars, startProcVars, jobIds, hook>>
  BY DEF CancelSubmitted, Step
<1>2. PICK S \in SUBSET JobsOf(p) : CancelWaiting(S)
  BY DEF CancelSubmitted
<1>3. JobsOK' /\ JobsKept
  BY <1>1, <1>2, CancelWaitingOK DEF BatchInv, QueueInv
<1>4. IdsOK'
  BY <1>1, <1>3, IdsKept DEF BatchInv, QueueInv, IdsOK
<1>5. SubmittersOK'
  BY <1>1, SubmittersKept DEF BatchInv, Control
<1>6. \A k \in Job : queue'[k] \in {"queued", "running"} => queue[k] \in {"queued", "running"}
  BY <1>2 DEF CancelWaiting, BatchInv, QueueInv, JobsOK
<1> QED
  BY <1>1, <1>3, <1>4, <1>5, <1>6, CommandStep

----
(* The steps of the jobs                                                   *)

(* Proof-only: no job is let go, and the jobs there are keep their names.  *)
JobsGoOn ==
  \A j \in Job :
    /\ queue[j] # "none" => queue'[j] # "none"
    /\ queue'[j] \in {"queued", "running"} => queue[j] \in {"queued", "running"}

(* Job j is dispatched after the jobs before it are done, or it ends.      *)
LEMMA JobMoves ==
  ASSUME JobsOK, KeepsTerminal, NEW j \in Job, NEW st \in {"running", "done", "failed"},
         queue' = [queue EXCEPT ![j] = st], UNCHANGED <<runs, after>>,
         \/ queue[j] = "queued" /\ st = "running" /\ \A d \in after[j] : queue[d] = "done"
         \/ queue[j] = "running" /\ st # "running"
  PROVE  JobsOK' /\ JobsGoOn
<1>1. /\ queue' \in [Job -> JobState] /\ after \in [Job -> SUBSET Job]
      /\ \A k \in Job : queue'[k] = IF k = j THEN st ELSE queue[k]
  BY DEF JobsOK, JobState
<1>2. JobsOK'
  BY <1>1, JobsOKKept
<1> QED
  BY <1>1, <1>2 DEF JobsGoOn

(* A step of the jobs that keeps the records keeps the invariant.          *)
LEMMA JobsStep ==
  ASSUME BatchInv, WorkerInv', KeepsTerminal, JobsOK', JobsGoOn, CallsBelong',
         UNCHANGED <<runs, start, startProcVars, ctl, jobIds>>,
         \A j \in Job : queue'[j] = "done" /\ runs[j] \in Task =>
           queue[j] = "done" \/ HasCompletedAttempt(runs[j]),
         \A t \in Task : UNCHANGED attempt[t]
                         \/ \A u \in Parents[t] : u \in Task /\ HasCompletedAttempt(u),
         hook' # "none" => hook # "none" \/ \A t \in Task : HasCompletedAttempt(t)
  PROVE  BatchInv'
<1>1. IdsOK'
  BY DEF BatchInv, QueueInv, IdsOK, JobsGoOn
<1>2. DoneCompleted'
  <2> SUFFICES ASSUME NEW j \in Job, queue'[j] = "done", runs[j] \in Task
               PROVE  HasCompletedAttempt(runs[j])'
    BY DEF DoneCompleted
  <2>1. HasCompletedAttempt(runs[j])
    BY DEF BatchInv, QueueInv, DoneCompleted
  <2> QED
    BY <2>1, CompletedKept
<1>3. AttemptsFollowDependencies'
  <2> SUFFICES ASSUME NEW t \in Task, \E n \in AttemptNo : attempt'[t][n] # "absent",
                      NEW u \in Parents[t]
               PROVE  HasCompletedAttempt(u)'
    BY DEF AttemptsFollowDependencies
  <2>1. u \in Task /\ HasCompletedAttempt(u)
    BY GraphAssumption DEF BatchInv, QueueInv, AttemptsFollowDependencies
  <2> QED
    BY <2>1, CompletedKept
<1>4. SubmittersOK'
  BY DEF BatchInv, SubmittersOK, StartTypeOK, StartKnown, AllNamed
<1>5. StartedBeforeRunning'
  BY DEF BatchInv, StartedBeforeRunning, JobsGoOn
<1>6. PostflightFollowsAll'
  BY CompletedKept DEF BatchInv, QueueInv, PostflightFollowsAll
<1> QED
  BY <1>1, <1>2, <1>3, <1>4, <1>5, <1>6 DEF BatchInv, QueueInv

(* Before a job may run, all it must come after is on record.              *)
LEMMA CallCleared ==
  ASSUME BatchInv, NEW j \in Job, queue[j] # "none", \A d \in after[j] : queue[d] = "done"
  PROVE  \A u \in Predecessors(runs[j]) : u \in Task /\ HasCompletedAttempt(u)
<1> SUFFICES ASSUME NEW u \in Predecessors(runs[j])
             PROVE  u \in Task /\ HasCompletedAttempt(u)
  OBVIOUS
<1>1. u \in Task
  BY PredecessorsAreTasks DEF BatchInv, QueueInv, JobsOK
<1>2. Covers(after[j], runs[j]) /\ after[j] \in SUBSET Job
  BY DEF BatchInv, QueueInv, JobsOK, AfterParents
<1>3. HasCompletedAttempt(u) \/ \E d \in after[j] : queue[d] # "none" /\ runs[d] = u
  BY <1>2 DEF Covers
<1> QED
  BY <1>1, <1>2, <1>3 DEF BatchInv, QueueInv, DoneCompleted

(* What the leaves of the graph have done, every task has done: a task     *)
(* without a completed attempt would have such a task among the leaves.    *)
LEMMA LeavesCompleteAll ==
  ASSUME AttemptsFollowDependencies, \A u \in Leaves : HasCompletedAttempt(u)
  PROVE  \A t \in Task : HasCompletedAttempt(t)
<1> DEFINE S == {t \in Task : ~HasCompletedAttempt(t)}
<1> SUFFICES ASSUME S # {} PROVE FALSE
  OBVIOUS
<1>1. \A t \in S : \A u \in Task : t \in Parents[u] => u \in S
  BY DEF AttemptsFollowDependencies, HasCompletedAttempt
<1>2. S \in SUBSET Task
  OBVIOUS
<1>3. \E t \in S : \A u \in Task : t \notin Parents[u]
  <2> HIDE DEF S
  <2> QED
    BY <1>1, <1>2, LeafAmong
<1> QED
  BY <1>3 DEF Leaves

(* A task's job begins.                                                    *)
LEMMA DispatchTaskInv ==
  ASSUME BatchInv, NEW j \in Job, NEW t \in Task, DispatchTask(j, t),
         UNCHANGED <<startProcVars, ctl, jobIds>>
  PROVE  BatchInv'
<1>1. /\ j \in Proc /\ runs[j] = t /\ queue[j] = "queued" /\ \A d \in after[j] : queue[d] = "done"
      /\ queue' = [queue EXCEPT ![j] = "running"] /\ UNCHANGED <<runs, after>>
      /\ Goto(j, t, "idle", "choose")
      /\ UNCHANGED <<diskVars, number, verdict, hook>>
  BY QueueAssumption DEF DispatchTask, Dispatched, Enter
<1>2. DiskTypeOK'
  BY <1>1 DEF BatchInv, QueueInv, WorkerInv, WorkerTypeOK, DiskTypeOK
<1>3. WorkerInv' /\ KeepsTerminal
  BY <1>1, <1>2, BeginInv DEF BatchInv, QueueInv
<1>4. JobsOK' /\ JobsGoOn
  BY <1>1, <1>3, JobMoves DEF BatchInv, QueueInv
<1>5. CallsBelong'
  BY <1>1 DEF BatchInv, QueueInv, WorkerInv, WorkerTypeOK, JobsOK, CallsBelong, Goto
<1>6. \A k \in Job : queue'[k] = "done" => queue[k] = "done"
  BY <1>1 DEF BatchInv, QueueInv, JobsOK
<1> QED
  BY <1>1, <1>3, <1>4, <1>5, <1>6, JobsStep

(* The running job's call takes a step; its task's parents are on record.  *)
LEMMA RunWorkerInv ==
  ASSUME BatchInv, NEW j \in Job, NEW t \in Task, RunWorker(j, t),
         UNCHANGED <<startProcVars, ctl, jobIds>>
  PROVE  BatchInv'
<1>1. j \in Proc /\ WorkerStep(j, t) /\ UNCHANGED <<queue, runs, after, hook>>
  BY QueueAssumption DEF RunWorker
<1>2. /\ at[j][t] # "idle"
      /\ \A q \in Proc : \A u \in Task : q # j \/ u # t => at'[q][u] = at[q][u]
      /\ \A u \in Task : u # t => attempt'[u] = attempt[u]
      /\ start' = start
  BY <1>1, WorkerStepLocal DEF BatchInv, QueueInv, WorkerInv
<1>3. WorkerInv' /\ KeepsTerminal
  BY <1>1, WorkerStepInv DEF BatchInv, QueueInv
<1>4. queue[j] = "running" /\ runs[j] = t
  BY <1>1, <1>2 DEF BatchInv, QueueInv, CallsBelong
<1>5. JobsOK' /\ JobsGoOn
  BY <1>1, <1>3, JobsOKKept DEF BatchInv, QueueInv, JobsOK, JobsGoOn
<1>6. CallsBelong'
  BY <1>1, <1>2, <1>4 DEF BatchInv, QueueInv, CallsBelong
<1>7. \A u \in Parents[t] : u \in Task /\ HasCompletedAttempt(u)
  BY <1>4, CallCleared DEF BatchInv, QueueInv, JobsOK, AfterDone, Predecessors
<1> QED
  BY <1>1, <1>2, <1>3, <1>5, <1>6, <1>7, JobsStep

(* The script calls run_task again.                                        *)
LEMMA RetryTaskInv ==
  ASSUME BatchInv, NEW j \in Job, NEW t \in Task, RetryTask(j, t),
         UNCHANGED <<startProcVars, ctl, jobIds>>
  PROVE  BatchInv'
<1>1. /\ j \in Proc /\ at[j][t] # "idle" /\ Goto(j, t, at[j][t], "choose")
      /\ UNCHANGED <<diskVars, number, verdict, queue, runs, after, hook>>
  BY QueueAssumption DEF RetryTask, CallFailed, Goto
<1>2. DiskTypeOK'
  BY <1>1 DEF BatchInv, QueueInv, WorkerInv, WorkerTypeOK, DiskTypeOK
<1>3. WorkerInv' /\ KeepsTerminal
  BY <1>1, <1>2, BeginInv DEF BatchInv, QueueInv
<1>4. JobsOK' /\ JobsGoOn
  BY <1>1, <1>3, JobsOKKept DEF BatchInv, QueueInv, JobsOK, JobsGoOn
<1>5. CallsBelong'
  BY <1>1 DEF BatchInv, QueueInv, WorkerInv, WorkerTypeOK, CallsBelong, Goto
<1> QED
  BY <1>1, <1>3, <1>4, <1>5, JobsStep

(* A job ends and forgets its calls; a zero exit has a completed attempt.  *)
LEMMA JobEnds ==
  ASSUME BatchInv, NEW j \in Job, NEW st \in {"done", "failed"}, NEW T \in SUBSET Task,
         EndJob(j, st), ForgetCalls(j, T), DiskTypeOK', UNCHANGED <<stateVars, attempt, start>>,
         \A t \in Task : at[j][t] # "idle" => t \in T,
         st = "done" /\ runs[j] \in Task => HasCompletedAttempt(runs[j]),
         UNCHANGED <<startProcVars, ctl, jobIds, hook>>
  PROVE  BatchInv'
<1>1. /\ j \in Proc /\ queue[j] = "running"
      /\ queue' = [queue EXCEPT ![j] = st] /\ UNCHANGED <<runs, after>>
  BY QueueAssumption DEF EndJob
<1>2. WorkerInv' /\ KeepsTerminal
  BY <1>1, ForgetCallsInv DEF BatchInv, QueueInv
<1>3. JobsOK' /\ JobsGoOn
  BY <1>1, <1>2, JobMoves DEF BatchInv, QueueInv
<1>4. \A q \in Proc : \A u \in Task : at'[q][u] = IF q = j THEN "idle" ELSE at[q][u]
  BY <1>1 DEF ForgetCalls, BatchInv, QueueInv, WorkerInv, WorkerTypeOK
<1>5. CallsBelong'
  BY <1>1, <1>4 DEF BatchInv, QueueInv, JobsOK, CallsBelong
<1>6. \A k \in Job : queue'[k] = "done" /\ runs[k] \in Task =>
        queue[k] = "done" \/ HasCompletedAttempt(runs[k])
  BY <1>1 DEF BatchInv, QueueInv, JobsOK
<1> QED
  BY <1>1, <1>2, <1>3, <1>5, <1>6, JobsStep

(* run_task failed for the last time, or returned "completed".             *)
LEMMA TaskEndsInv ==
  ASSUME BatchInv, NEW j \in Job, NEW t \in Task, TaskFails(j, t) \/ TaskSucceeds(j, t),
         UNCHANGED <<startProcVars, ctl, jobIds>>
  PROVE  BatchInv'
<1>1. j \in Proc /\ at[j][t] # "idle" /\ ForgetCalls(j, {t}) /\ UNCHANGED <<diskVars, hook>>
  BY QueueAssumption DEF TaskFails, TaskSucceeds, CallFailed
<1>2. DiskTypeOK'
  BY <1>1 DEF BatchInv, QueueInv, WorkerInv, WorkerTypeOK, DiskTypeOK
<1>3. runs[j] = t /\ \A u \in Task : at[j][u] # "idle" => u \in {t}
  BY <1>1 DEF BatchInv, QueueInv, CallsBelong
<1>4. CASE TaskFails(j, t)
  BY <1>1, <1>2, <1>3, <1>4, JobEnds DEF TaskFails
<1>5. CASE TaskSucceeds(j, t)
  <2>1. at[j][t] = "returned" /\ verdict[j][t] = "completed" /\ EndJob(j, "done")
    BY <1>5 DEF TaskSucceeds
  <2>2. CallOK(j, t)
    BY <1>1 DEF BatchInv, QueueInv, WorkerInv, CallConsistent
  <2>3. HasCompletedAttempt(t)
    BY <2>1, <2>2 DEF CallOK, OwnsAttempt, OwnerPC, HasCompletedAttempt
  <2> QED
    BY <1>1, <1>2, <1>3, <2>1, <2>3, JobEnds
<1> QED
  BY <1>4, <1>5

(* The scheduler ends a running job; its payload may outlive it.           *)
LEMMA EvictJobInv ==
  ASSUME BatchInv, NEW j \in Job, EvictJob(j), UNCHANGED <<startProcVars, ctl, jobIds>>
  PROVE  BatchInv'
<1>1. EndJob(j, "failed") /\ ForgetCalls(j, Task) /\ UNCHANGED <<stateVars, attempt, start, hook>>
  BY DEF EvictJob, KillCalls
<1>2. DiskTypeOK'
  BY GraphAssumption
  DEF EvictJob, KillCalls, BatchInv, QueueInv, WorkerInv, WorkerTypeOK, DiskTypeOK
<1> QED
  BY <1>1, <1>2, JobEnds

(* The postflight job begins or ends; it is in no call of run_task.        *)
LEMMA PostflightInv ==
  ASSUME BatchInv, NEW j \in Job,
         DispatchPostflight(j) \/ PostflightSucceeds(j) \/ PostflightFails(j),
         UNCHANGED <<startProcVars, ctl, jobIds>>
  PROVE  BatchInv'
<1>1. /\ j \in Proc /\ runs[j] = PostflightName /\ runs[j] \notin Task
      /\ UNCHANGED <<diskVars, callVars, runs, after>>
  BY QueueAssumption DEF DispatchPostflight, PostflightSucceeds, PostflightFails, Dispatched, EndJob
<1>2. PICK st \in {"running", "done", "failed"} :
        /\ queue' = [queue EXCEPT ![j] = st]
        /\ \/ queue[j] = "queued" /\ st = "running" /\ \A d \in after[j] : queue[d] = "done"
           \/ queue[j] = "running" /\ st # "running"
  BY DEF DispatchPostflight, PostflightSucceeds, PostflightFails, Dispatched, EndJob
<1>3. DiskTypeOK'
  BY <1>1 DEF BatchInv, QueueInv, WorkerInv, WorkerTypeOK, DiskTypeOK
<1>4. WorkerInv' /\ KeepsTerminal
  BY <1>1, <1>3, StatusInv DEF BatchInv, QueueInv
<1>5. JobsOK' /\ JobsGoOn
  BY <1>1, <1>2, <1>4, JobMoves DEF BatchInv, QueueInv
<1>6. CallsBelong'
  BY <1>1, <1>2 DEF BatchInv, QueueInv, JobsOK, CallsBelong
<1>7. \A k \in Job : queue'[k] = "done" /\ runs[k] \in Task => queue[k] = "done"
  BY <1>1, <1>2 DEF BatchInv, QueueInv, JobsOK
<1>8. ASSUME hook' # "none", hook = "none"
      PROVE  \A t \in Task : HasCompletedAttempt(t)
  <2>1. \A d \in after[j] : queue[d] = "done"
    BY <1>8, <1>2 DEF PostflightFails, BatchInv, QueueInv, JobsOK, AfterDone
  <2>2. \A u \in Leaves : HasCompletedAttempt(u)
    BY <1>1, <1>2, <2>1, CallCleared DEF Predecessors
  <2> QED
    BY <2>2, LeavesCompleteAll DEF BatchInv, QueueInv
<1> QED
  BY <1>1, <1>4, <1>5, <1>6, <1>7, <1>8, JobsStep

(* A payload that outlived its job writes no record.                       *)
LEMMA StrayRunsInv ==
  ASSUME BatchInv, StrayRuns
  PROVE  BatchInv'
<1>1. WorkerInv' /\ KeepsTerminal
  BY StrayOutputInv DEF StrayRuns, BatchInv, QueueInv
<1>2. UNCHANGED <<at, attempt, queue, runs, after, hook, start, startProcVars, ctl, jobIds>>
  BY DEF StrayRuns, StrayOutput
<1>3. JobsOK' /\ JobsGoOn /\ CallsBelong'
  BY <1>1, <1>2, JobsOKKept DEF BatchInv, QueueInv, JobsOK, JobsGoOn, CallsBelong
<1> QED
  BY <1>1, <1>2, <1>3, JobsStep

----
(* Every step                                                              *)

(* Any step of a submitter under way.                                      *)
LEMMA SubmitterStepInv ==
  ASSUME BatchInv, NEW p \in Submitter, SubmitterStep(p)
  PROVE  BatchInv'
  BY PrepareInv, SubmitTaskInv, AllSubmittedInv, SubmitPostflightInv, SubmissionFailsInv,
     RecordHeldInv, BeginStartInv, ReleaseJobsInv, ReportInv, CancelSubmittedInv, WithdrawInv,
     RecordFailureInv, AbandonInv
  DEF SubmitterStep

(* A job takes a step, or is lost.                                         *)
LEMMA JobStepInv ==
  ASSUME BatchInv, NEW j \in Job, RunJob(j) \/ LoseJob(j)
  PROVE  BatchInv'
<1>1. UNCHANGED <<startProcVars, ctl, jobIds>>
  BY DEF RunJob, LoseJob
<1>2. CASE LoseJob(j)
  BY <1>1, <1>2, EvictJobInv DEF LoseJob
<1>3. CASE RunJob(j)
  BY <1>1, <1>3, DispatchTaskInv, RunWorkerInv, RetryTaskInv, TaskEndsInv, PostflightInv
  DEF RunJob, JobStep
<1> QED
  BY <1>2, <1>3

(* Nothing happens but to products and to what nobody here looks at.       *)
LEMMA BatchStutter ==
  ASSUME BatchInv, DiskTypeOK',
         UNCHANGED <<stateVars, attempt, start, callVars, queueVars, hook, startProcVars, ctl,
                     jobIds>>
  PROVE  BatchInv'
<1>1. WorkerInv' /\ KeepsTerminal
  BY StatusInv DEF BatchInv, QueueInv
<1>2. JobsOK' /\ JobsGoOn /\ CallsBelong'
  BY <1>1, JobsOKKept DEF BatchInv, QueueInv, JobsOK, JobsGoOn, CallsBelong
<1> QED
  BY <1>1, <1>2, JobsStep

(* The invariant is inductive.                                             *)
LEMMA BatchNextInv ==
  ASSUME BatchInv, [Next]_vars
  PROVE  BatchInv'
<1>1. ASSUME NEW p \in Submitter, NEW overwrite \in Overwrite,
             IssueSubmit(p, IF overwrite THEN "overwrite" ELSE "keep")
      PROVE  BatchInv'
  BY <1>1, IssueSubmitInv DEF Policy
<1>2. CASE Rest \/ UNCHANGED vars
  <2>1. DiskTypeOK'
    BY <1>2 DEF Rest, vars, BatchInv, QueueInv, WorkerInv, WorkerTypeOK, DiskTypeOK
  <2> QED
    BY <1>2, <2>1, BatchStutter DEF Rest, vars
<1> QED
  BY <1>1, <1>2, SubmitterStepInv, KillSubmitterInv, JobStepInv, StrayRunsInv DEF Next

----
(* The phases of a submission                                              *)

(* Where the start of a submitter is at each of its steps.                 *)
PhaseOK(p) ==
  /\ ctl[p] \in {"idle", "record_failure"} => starting[p] = "out"
  /\ ctl[p] = "prepare" => starting[p] = "checked"
  /\ ctl[p] \in {"submit", "postflight", "record"} => starting[p] = "prepared"
  /\ ctl[p] = "begin" => starting[p] \in {"prepared", "commit", "unlink"}
  /\ ctl[p] \in {"release", "report_ok", "report_failure"} => starting[p] = "started"
  /\ ctl[p] \in {"undo", "withdraw", "abort", "abandon"} => starting[p] = "cancel"

(* A pending record is on its way to being removed by some submitter.      *)
Holding == {"prepared", "commit", "unlink", "cancel"}

PendingOwned ==
  kills = 0 /\ startPending # "none" => \E p \in Submitter : starting[p] \in Holding

PhaseInv ==
  /\ kills \in Nat
  /\ \A p \in Submitter : PhaseOK(p)
  /\ PendingOwned

(* A step of p's, which holds the pending record after it or removes it.   *)
LEMMA PhaseStep ==
  ASSUME PhaseInv, NEW p \in Submitter, PhaseOK(p)', kills' \in Nat, kills' = 0 => kills = 0,
         \A q \in Submitter : q # p => ctl'[q] = ctl[q] /\ starting'[q] = starting[q],
         \/ kills' # 0 \/ startPending' = "none" \/ starting'[p] \in Holding
         \/ startPending' = startPending /\ starting[p] \notin Holding
  PROVE  PhaseInv'
<1>1. \A q \in Submitter : PhaseOK(q)'
  BY DEF PhaseInv, PhaseOK
<1>2. PendingOwned'
  BY DEF PhaseInv, PendingOwned
<1> QED
  BY <1>1, <1>2 DEF PhaseInv

(* Every step of a submitter is one of its phases.                         *)
LEMMA SubmitterPhase ==
  ASSUME SubmittersOK, PhaseInv, NEW p \in Submitter, SubmitterStep(p)
  PROVE  PhaseInv'
<1> USE SubmitAssumption
        DEF SubmittersOK, StartTypeOK, PhaseInv, PhaseOK, Holding, Step, Move
<1>1. CASE Prepare(p)
  BY <1>1, PhaseStep DEF Prepare, WritePending, boundVars
<1>2. CASE SubmitTask(p)
  BY <1>2 DEF SubmitTask, PendingOwned, boundVars
<1>3. CASE AllSubmitted(p)
  BY <1>3, PhaseStep DEF AllSubmitted, boundVars
<1>4. CASE SubmitPostflight(p)
  BY <1>4, PhaseStep DEF SubmitPostflight, boundVars
<1>5. CASE SubmissionFails(p)
  BY <1>5, PhaseStep DEF SubmissionFails, boundVars
<1>6. CASE RecordHeld(p)
  BY <1>6, PhaseStep DEF RecordHeld, boundVars
<1>7. CASE Begin(p)
  BY <1>7, PhaseStep, SMT, ZenonT(40)
  DEF Begin, BeginAccepted, CommitStart, UnlinkPending, BeginRefused, boundVars
<1>8. CASE ReleaseJobs(p)
  BY <1>8, PhaseStep DEF ReleaseJobs, boundVars
<1>9. CASE Report(p)
  BY <1>9, PhaseStep DEF Report, ForgetStart, boundVars
<1>10. CASE CancelSubmitted(p)
  BY <1>10, PhaseStep DEF CancelSubmitted, boundVars
<1>11. CASE Withdraw(p)
  BY <1>11, PhaseStep DEF Withdraw, CancelPrepared, boundVars
<1>12. CASE RecordFailure(p)
  BY <1>12, PhaseStep DEF RecordFailure, boundVars
<1>13. CASE Abandon(p)
  BY <1>13, PhaseStep DEF Abandon, CancelPrepared, boundVars
<1> QED
  BY <1>1, <1>2, <1>3, <1>4, <1>5, <1>6, <1>7, <1>8, <1>9, <1>10, <1>11, <1>12, <1>13
  DEF SubmitterStep

(* Of a campaign that is not started nothing has run and nothing will.     *)
UnstartedClean ==
  start = "none" => Released = {} /\ \A t \in Task : status[t] = "pending"

(* A step that keeps start.json, and changes little without one.           *)
LEMMA CleanStep ==
  ASSUME UnstartedClean, start # "none" => start' # "none",
         start = "none" => Released' \subseteq Released /\ UNCHANGED status
  PROVE  UnstartedClean'
  BY DEF UnstartedClean

(* Only the release lets jobs go, those whose ids the submitter holds.     *)
LEMMA SubmitterReleases ==
  ASSUME BatchInv, NEW p \in Submitter, SubmitterStep(p) \/ KillSubmitter(p)
  PROVE  /\ Released' \subseteq Released \cup (IF ctl[p] = "release" THEN JobsOf(p) ELSE {})
         /\ start # "none" => start' # "none"
         /\ UNCHANGED status
<1> USE DEF Released
<1>0. /\ queue \in [Job -> JobState] /\ p \in Proc
      /\ StartTypeOK /\ StartKnown(p)
  BY SubmitAssumption DEF BatchInv, QueueInv, JobsOK, SubmittersOK
<1>1. ASSUME NEW j \in Job, NEW n, NEW deps, SubmitHeld(j, n, deps)
      PROVE  Released' \subseteq Released
  BY <1>0, <1>1 DEF SubmitHeld
<1>2. ASSUME NEW S, CancelWaiting(S)
      PROVE  Released' \subseteq Released
  BY <1>0, <1>2 DEF CancelWaiting
<1>3. CASE ReleaseJobs(p)
  <2>1. PICK S \in SUBSET JobsOf(p) : Release(S)
    BY <1>3 DEF ReleaseJobs
  <2>2. Released' \subseteq Released \cup JobsOf(p)
    BY <1>0, <2>1 DEF Release
  <2> QED
    BY <1>3, <2>2 DEF ReleaseJobs, Step
<1>4. CASE SubmitTask(p) \/ SubmitPostflight(p) \/ SubmissionFails(p)
  BY <1>1, <1>4 DEF SubmitTask, SubmitPostflight, SubmissionFails
<1>5. CASE CancelSubmitted(p)
  BY <1>2, <1>5 DEF CancelSubmitted
<1>6. CASE Begin(p)
  BY <1>0, <1>6
  DEF Begin, BeginAccepted, BeginRefused, CommitStart, UnlinkPending, StartKnown, Move
<1>7. CASE Prepare(p) \/ AllSubmitted(p) \/ RecordHeld(p) \/ Report(p) \/ Withdraw(p)
             \/ RecordFailure(p) \/ Abandon(p) \/ KillSubmitter(p)
  BY <1>7
  DEF Prepare, WritePending, AllSubmitted, RecordHeld, Report, Withdraw, CancelPrepared,
      RecordFailure, Abandon, KillSubmitter
<1> QED
  BY <1>3, <1>4, <1>5, <1>6, <1>7 DEF SubmitterStep

(* No step of a job lets another one go, or runs before the start.         *)
LEMMA JobsRelease ==
  ASSUME BatchInv, NEW j \in Job, RunJob(j) \/ LoseJob(j)
  PROVE  Released' \subseteq Released /\ start # "none" /\ UNCHANGED start
<1>1. queue \in [Job -> JobState] /\ WorkerTypeOK /\ j \in Proc
  BY QueueAssumption DEF BatchInv, QueueInv, JobsOK, WorkerInv
<1>2. CASE LoseJob(j)
  BY <1>1, <1>2 DEF LoseJob, EvictJob, EndJob, KillCalls, Released, BatchInv, StartedBeforeRunning
<1>3. ASSUME NEW t \in Task, RunWorker(j, t)
      PROVE  Released' \subseteq Released /\ start # "none" /\ UNCHANGED start
  <2>1. at[j][t] # "idle" /\ UNCHANGED <<queue, start>>
    BY <1>1, <1>3, WorkerStepLocal DEF RunWorker
  <2>2. queue[j] = "running"
    BY <1>1, <2>1 DEF BatchInv, QueueInv, CallsBelong
  <2> QED
    BY <2>1, <2>2 DEF Released, BatchInv, StartedBeforeRunning
<1>4. ASSUME NEW t \in Task,
             DispatchTask(j, t) \/ RetryTask(j, t) \/ TaskFails(j, t) \/ TaskSucceeds(j, t)
      PROVE  Released' \subseteq Released /\ start # "none" /\ UNCHANGED start
  BY <1>1, <1>4
  DEF DispatchTask, RetryTask, TaskFails, TaskSucceeds, Dispatched, EndJob, Released, BatchInv,
      StartedBeforeRunning
<1>5. CASE DispatchPostflight(j) \/ PostflightSucceeds(j) \/ PostflightFails(j)
  BY <1>1, <1>5
  DEF DispatchPostflight, PostflightSucceeds, PostflightFails, Dispatched, EndJob, Released,
      BatchInv, StartedBeforeRunning
<1> QED
  BY <1>2, <1>3, <1>4, <1>5 DEF RunJob, JobStep

(* What is not started stays clean.                                        *)
LEMMA CleanNext ==
  ASSUME BatchInv, UnstartedClean, [Next]_vars
  PROVE  UnstartedClean'
<1>1. ASSUME NEW p \in Submitter, SubmitterStep(p) \/ KillSubmitter(p)
      PROVE  UnstartedClean'
  BY <1>1, SubmitterReleases, CleanStep DEF BatchInv, SubmittersOK, StartKnown
<1>2. ASSUME NEW j \in Job, RunJob(j) \/ LoseJob(j)
      PROVE  UnstartedClean'
  BY <1>2, JobsRelease, CleanStep
<1>3. ASSUME NEW p \in Submitter, NEW asked, IssueSubmit(p, asked)
      PROVE  UnstartedClean'
  BY <1>3 DEF IssueSubmit, CheckPrepare, UnstartedClean, Released
<1>4. CASE StrayRuns \/ Rest \/ UNCHANGED vars
  BY <1>4 DEF StrayRuns, StrayOutput, Rest, vars, UnstartedClean, Released
<1> QED
  BY <1>1, <1>2, <1>3, <1>4 DEF Next

(* The phases of any step, of any process.                                 *)
LEMMA PhaseNext ==
  ASSUME BatchInv, PhaseInv, [Next]_vars
  PROVE  PhaseInv'
<1>1. ASSUME NEW p \in Submitter, NEW asked, IssueSubmit(p, asked)
      PROVE  PhaseInv'
  BY <1>1, PhaseStep, SubmitAssumption
  DEF BatchInv, SubmittersOK, StartTypeOK, PhaseInv, PhaseOK, Holding, IssueSubmit, CheckPrepare,
      Step, Move
<1>2. ASSUME NEW p \in Submitter, KillSubmitter(p)
      PROVE  PhaseInv'
  <2>1. /\ ctl'[p] = "idle" /\ starting'[p] = "out"
        /\ \A q \in Submitter : q # p => ctl'[q] = ctl[q] /\ starting'[q] = starting[q]
    BY <1>2, SubmitAssumption
    DEF BatchInv, SubmittersOK, StartTypeOK, KillSubmitter, ForgetStart
  <2>2. kills' \in Nat /\ kills' # 0
    BY <1>2 DEF PhaseInv, KillSubmitter
  <2> QED
    BY <2>1, <2>2, PhaseStep DEF PhaseOK
<1>3. ASSUME NEW j \in Job, RunJob(j) \/ LoseJob(j)
      PROVE  PhaseInv'
  <2>1. /\ UNCHANGED <<ctl, starting>> /\ kills' \in Nat
        /\ kills' = 0 => kills = 0 /\ UNCHANGED startPending
    <3>1. CASE LoseJob(j)
      BY <1>3, <3>1 DEF LoseJob, EvictJob, KillCalls, PhaseInv
    <3>2. ASSUME NEW t \in Task, RunWorker(j, t)
          PROVE  UNCHANGED startPending
      BY <3>2, WorkerStepLocal, QueueAssumption DEF RunWorker, BatchInv, QueueInv, WorkerInv
    <3>3. CASE RunJob(j)
      BY <3>2, <3>3
      DEF RunJob, boundVars, PhaseInv, JobStep, DispatchTask, RetryTask, TaskFails,
          TaskSucceeds, DispatchPostflight, PostflightSucceeds, PostflightFails
    <3> QED
      BY <1>3, <3>1, <3>3
  <2> QED
    BY <2>1 DEF PhaseInv, PhaseOK, PendingOwned
<1>4. CASE StrayRuns \/ Rest \/ UNCHANGED vars
  BY <1>4 DEF StrayRuns, StrayOutput, Rest, vars, boundVars, PhaseInv, PhaseOK, PendingOwned
<1> QED
  BY <1>1, <1>2, <1>3, <1>4, SubmitterPhase DEF Next, BatchInv

----
(* One submitter at a time                                                 *)

(* Steps before start.json can exist, and after submit.json names the held *)
(* jobs.                                                                   *)
Early == {"prepare", "submit", "postflight", "record", "undo", "withdraw", "record_failure"}
Late == {"begin", "release", "report_ok", "report_failure", "abort", "abandon"}

LoneAt(p) ==
  /\ ctl[p] \in Early => start = "none"
  /\ ctl[p] \in Late => returncode = "null" /\ recorded = jobIds[p]

(* Submissions that never overlapped.                                      *)
Lone ==
  ~overlap =>
    /\ \A p, q \in Submitter : ctl[p] # "idle" /\ ctl[q] # "idle" => p = q
    /\ \A p \in Submitter : LoneAt(p)
    /\ start # "none" => returncode \in {"null", "zero", "release_failed"}

(* A step of p, while all others are idle.                                 *)
LEMMA LoneStep ==
  ASSUME Lone, NEW p \in Submitter, overlap' = overlap,
         \A q \in Submitter : q # p => ctl'[q] = ctl[q], ctl[p] # "idle",
         ~overlap => /\ LoneAt(p)'
                     /\ start' # "none" => returncode' \in {"null", "zero", "release_failed"}
  PROVE  Lone'
<1> SUFFICES ASSUME ~overlap PROVE Lone'
  BY DEF Lone
<1>1. \A q \in Submitter : q # p => ctl'[q] = "idle"
  BY DEF Lone
<1>2. \A q \in Submitter : LoneAt(q)'
  BY <1>1 DEF LoneAt, Early, Late
<1> QED
  BY <1>1, <1>2 DEF Lone

(* Every step of a submitter that is alone.                                *)
LEMMA SubmitterLone ==
  ASSUME BatchInv, Lone, NEW p \in Submitter, SubmitterStep(p)
  PROVE  Lone'
<1> USE DEF Early, Late, LoneAt, Step, boundVars, submitJson
<1>1. /\ ctl \in [Submitter -> Control] /\ StartKnown(p)
      /\ ~overlap => /\ LoneAt(p)
                     /\ start # "none" => returncode \in {"null", "zero", "release_failed"}
  BY DEF BatchInv, SubmittersOK, Lone
<1>2. CASE Prepare(p)
  BY <1>1, <1>2, LoneStep DEF Prepare, WritePending
<1>3. CASE SubmitTask(p)
  BY <1>1, <1>3, LoneStep DEF SubmitTask
<1>4. CASE AllSubmitted(p)
  BY <1>1, <1>4, LoneStep DEF AllSubmitted
<1>5. CASE SubmitPostflight(p)
  BY <1>1, <1>5, LoneStep DEF SubmitPostflight
<1>6. CASE SubmissionFails(p)
  BY <1>1, <1>6, LoneStep DEF SubmissionFails, Pending
<1>7. CASE RecordHeld(p)
  BY <1>1, <1>7, LoneStep DEF RecordHeld
<1>8. CASE Begin(p)
  BY <1>1, <1>8, LoneStep DEF Begin, BeginAccepted, BeginRefused, CommitStart, UnlinkPending
<1>9. CASE ReleaseJobs(p)
  BY <1>1, <1>9, LoneStep DEF ReleaseJobs
<1>10. CASE Report(p)
  BY <1>1, <1>10, LoneStep DEF Report
<1>11. CASE CancelSubmitted(p)
  BY <1>1, <1>11, LoneStep DEF CancelSubmitted
<1>12. CASE Withdraw(p)
  BY <1>1, <1>12, LoneStep DEF Withdraw, CancelPrepared
<1>13. CASE RecordFailure(p)
  BY <1>1, <1>13, LoneStep DEF RecordFailure
<1>14. CASE Abandon(p)
  BY <1>1, <1>14, LoneStep DEF Abandon, CancelPrepared
<1> QED
  BY <1>2, <1>3, <1>4, <1>5, <1>6, <1>7, <1>8, <1>9, <1>10, <1>11, <1>12, <1>13, <1>14
  DEF SubmitterStep

(* Any step while submissions do not overlap.                              *)
LEMMA LoneNext ==
  ASSUME BatchInv, Lone, [Next]_vars
  PROVE  Lone'
<1> USE DEF boundVars, submitJson
<1>0. ctl \in [Submitter -> Control]
  BY DEF BatchInv, SubmittersOK
<1>1. ASSUME NEW p \in Submitter, NEW asked, IssueSubmit(p, asked)
      PROVE  Lone'
  <2> SUFFICES ASSUME ~overlap' PROVE Lone'
    BY DEF Lone
  <2>1. /\ ctl' = [ctl EXCEPT ![p] = "prepare"] /\ UNCHANGED <<start, returncode>>
        /\ start = "none" /\ \A q \in Submitter \ {p} : ctl[q] = "idle"
    BY <1>1 DEF IssueSubmit, CheckPrepare, Unstarted, Step
  <2> QED
    BY <1>0, <2>1 DEF Lone, LoneAt, Early, Late
<1>2. ASSUME NEW p \in Submitter, KillSubmitter(p)
      PROVE  Lone'
  BY <1>0, <1>2, LoneStep DEF KillSubmitter, Lone, LoneAt, Early, Late
<1>3. ASSUME NEW j \in Job, RunJob(j) \/ LoseJob(j)
      PROVE  Lone'
  <2>1. UNCHANGED <<ctl, start, returncode, recorded, jobIds, overlap>>
    BY <1>3, JobsRelease DEF RunJob, LoseJob
  <2> QED
    BY <2>1 DEF Lone, LoneAt
<1>4. CASE StrayRuns \/ Rest \/ UNCHANGED vars
  BY <1>4 DEF StrayRuns, StrayOutput, Rest, vars, Lone, LoneAt
<1> QED
  BY <1>1, <1>2, <1>3, <1>4, SubmitterLone DEF Next

(* While submissions do not overlap, submit.json changes its jobs only     *)
(* before the start, and those it names are the ones that are let go.      *)
LEMMA NextRecords ==
  ASSUME BatchInv, Lone, ~overlap, [Next]_vars
  PROVE  \/ recorded' = recorded /\ Released' \subseteq Released \cup RecordedJobs
         \/ /\ start = "none" /\ UNCHANGED <<diskVars, queueVars>>
            /\ \E p \in Submitter : recorded' = jobIds[p]
<1> USE DEF boundVars, submitJson
<1>1. ASSUME NEW p \in Submitter, RecordHeld(p) \/ RecordFailure(p)
      PROVE  start = "none" /\ UNCHANGED <<diskVars, queueVars>> /\ recorded' = jobIds[p]
  BY <1>1 DEF RecordHeld, RecordFailure, Step, Lone, LoneAt, Early
<1>2. ASSUME NEW p \in Submitter, ~(RecordHeld(p) \/ RecordFailure(p)),
             SubmitterStep(p) \/ KillSubmitter(p)
      PROVE  recorded' = recorded
  BY <1>2
  DEF SubmitterStep, Prepare, SubmitTask, AllSubmitted, SubmitPostflight, SubmissionFails, Begin,
      ReleaseJobs, Report, CancelSubmitted, Withdraw, Abandon, KillSubmitter
<1>3. ASSUME NEW p \in Submitter, ctl[p] = "release"
      PROVE  JobsOf(p) = RecordedJobs
  BY <1>3 DEF Lone, LoneAt, Late, JobsOf, RecordedJobs
<1>4. ASSUME NEW j \in Job, RunJob(j) \/ LoseJob(j)
      PROVE  recorded' = recorded /\ Released' \subseteq Released
  BY <1>4, JobsRelease DEF RunJob, LoseJob
<1>5. ASSUME NEW p \in Submitter, NEW asked, IssueSubmit(p, asked)
      PROVE  recorded' = recorded /\ Released' \subseteq Released
  BY <1>5 DEF IssueSubmit, Released
<1>6. CASE StrayRuns \/ Rest \/ UNCHANGED vars
  BY <1>6 DEF StrayRuns, Rest, vars, Released
<1>7. ASSUME NEW p \in Submitter, SubmitterStep(p) \/ KillSubmitter(p)
      PROVE  Released' \subseteq Released \cup RecordedJobs
  BY <1>3, <1>7, SubmitterReleases
<1> QED
  BY <1>1, <1>2, <1>4, <1>5, <1>6, <1>7 DEF Next

(* And only before the start are jobs submitted.                           *)
LEMMA NextSubmits ==
  ASSUME BatchInv, Lone, ~overlap, [Next]_vars, start # "none", NEW j \in Job, queue[j] = "none"
  PROVE  queue'[j] = "none"
<1>0. queue \in [Job -> JobState]
  BY DEF BatchInv, QueueInv, JobsOK
<1>1. ASSUME NEW p \in Submitter, SubmitterStep(p) \/ KillSubmitter(p)
      PROVE  queue'[j] = "none"
  <2>1. ctl[p] \notin Early
    BY DEF Lone, LoneAt
  <2>2. CASE ReleaseJobs(p) \/ CancelSubmitted(p)
    BY <2>2 DEF ReleaseJobs, CancelSubmitted, Release, CancelWaiting
  <2> QED
    BY <1>1, <2>1, <2>2
    DEF Early, SubmitterStep, Prepare, SubmitTask, AllSubmitted, SubmitPostflight, SubmissionFails,
        Pending, RecordHeld, Begin, Report, Withdraw, RecordFailure, Abandon, KillSubmitter, Step
<1>2. ASSUME NEW p \in Submitter, NEW asked, IssueSubmit(p, asked)
      PROVE  queue'[j] = "none"
  BY <1>2 DEF IssueSubmit
<1>3. ASSUME NEW k \in Job, NEW st \in {"running", "done", "failed"},
             queue[k] \in {"queued", "running"}, queue' = [queue EXCEPT ![k] = st]
      PROVE  queue'[j] = "none"
  BY <1>0, <1>3
<1>4. ASSUME NEW k \in Job, RunJob(k) \/ LoseJob(k)
      PROVE  queue'[j] = "none"
  BY <1>3, <1>4
  DEF RunJob, LoseJob, JobStep, DispatchTask, RunWorker, RetryTask, TaskFails, TaskSucceeds,
      DispatchPostflight, PostflightSucceeds, PostflightFails, EvictJob, EndJob, Dispatched
<1>5. CASE StrayRuns \/ Rest \/ UNCHANGED vars
  BY <1>5 DEF StrayRuns, Rest, vars
<1> QED
  BY <1>1, <1>2, <1>4, <1>5 DEF Next

----
(* Types                                                                   *)
USE DEF submitJson, boundVars

(* What BatchTypeOK says beyond BatchInv.                                  *)
CountersOK ==
  /\ left \in [Job -> Nat]
  /\ hook \in HookState
  /\ cursor \in [Submitter -> 1 .. Len(TaskOrder) + 1]
  /\ returncode \in ReturnCode
  /\ recorded \in [Name -> Job \cup {NoJob}]
  /\ overlap \in BOOLEAN
  /\ issued \in 0 .. MaxCommands
  /\ kills \in 0 .. MaxKills

(* Together they are all of it.                                            *)
LEMMA TypesComplete == BatchInv /\ CountersOK => BatchTypeOK
  BY DEF BatchInv, QueueInv, WorkerInv, SubmittersOK, JobsOK, IdsOK, CountersOK, BatchTypeOK,
         QueueTypeOK

(* A submitter counts its starts and its position in the task order.       *)
LEMMA SubmitterCounters ==
  ASSUME BatchInv, CountersOK, NEW p \in Submitter, SubmitterStep(p) \/ KillSubmitter(p)
  PROVE  CountersOK'
<1> USE DEF CountersOK, ReturnCode
<1>0. /\ Len(TaskOrder) \in Nat /\ 1 \in 1 .. Len(TaskOrder) + 1
      /\ jobIds[p] \in [Name -> Job \cup {NoJob}]
  BY SubmitAssumption DEF BatchInv, QueueInv, IdsOK
<1>1. CASE SubmitTask(p)
  <2>1. PICK i \in 1 .. Len(TaskOrder) : cursor' = [cursor EXCEPT ![p] = i + 1]
    BY <1>1 DEF SubmitTask, Submittable
  <2>2. i + 1 \in 1 .. Len(TaskOrder) + 1
    BY <1>0, <2>1
  <2> QED
    BY <1>1, <2>1, <2>2 DEF SubmitTask
<1>2. CASE KillSubmitter(p)
  BY <1>0, <1>2, SubmitAssumption DEF KillSubmitter, Forget
<1>3. CASE RecordHeld(p) \/ RecordFailure(p)
  BY <1>0, <1>3 DEF RecordHeld, RecordFailure, Forget
<1>4. CASE Report(p) \/ Abandon(p)
  BY <1>0, <1>4 DEF Report, Abandon, Forget
<1> QED
  BY <1>1, <1>2, <1>3, <1>4
  DEF SubmitterStep, Prepare, AllSubmitted, SubmitPostflight, SubmissionFails, Begin, ReleaseJobs,
      CancelSubmitted, Withdraw

(* A job counts its retries, and its loss.                                 *)
LEMMA JobCounters ==
  ASSUME CountersOK, NEW j \in Job, RunJob(j) \/ LoseJob(j)
  PROVE  CountersOK'
<1> USE DEF CountersOK
<1>1. ASSUME NEW t \in Task, DispatchTask(j, t) \/ RetryTask(j, t)
      PROVE  left' \in [Job -> Nat] /\ UNCHANGED hook
  BY <1>1, QueueAssumption DEF DispatchTask, RetryTask
<1>2. CASE LoseJob(j)
  BY <1>2, SubmitAssumption DEF LoseJob, EvictJob
<1>3. CASE RunJob(j)
  <2>1. left' \in [Job -> Nat] /\ hook' \in HookState
    BY <1>1, <1>3
    DEF RunJob, JobStep, RunWorker, TaskFails, TaskSucceeds, DispatchPostflight, PostflightSucceeds,
        PostflightFails, HookState
  <2> QED
    BY <1>3, <2>1 DEF RunJob
<1> QED
  BY <1>2, <1>3

(* Any step.                                                               *)
LEMMA CountersNext ==
  ASSUME BatchInv, CountersOK, [Next]_vars
  PROVE  CountersOK'
<1>1. ASSUME NEW p \in Submitter, NEW policyAsked, IssueSubmit(p, policyAsked)
      PROVE  CountersOK'
  BY <1>1, SubmitAssumption, SMTT(30), ZenonT(30) DEF IssueSubmit, CountersOK
<1>2. CASE StrayRuns \/ Rest \/ UNCHANGED vars
  BY <1>2 DEF StrayRuns, Rest, vars, CountersOK
<1> QED
  BY <1>1, <1>2, SubmitterCounters, JobCounters DEF Next

(* A new campaign counts from zero.                                        *)
LEMMA CountersInit == Init => CountersOK
<1>1. 1 \in 1 .. Len(TaskOrder) + 1 /\ 0 \in 0 .. MaxCommands /\ 0 \in 0 .. MaxKills
  BY SubmitAssumption
<1>2. /\ [j \in Job |-> 0] \in [Job -> Nat] /\ NoIds \in [Name -> Job \cup {NoJob}]
      /\ [p \in Submitter |-> 1] \in [Submitter -> 1 .. Len(TaskOrder) + 1]
  BY <1>1 DEF NoIds
<1> QED
  BY <1>1, <1>2 DEF Init, QueueInit, CountersOK, HookState, ReturnCode

----
(* The specification                                                       *)

(* The invariant of submission and queue, for any number of submitters and *)
(* jobs, overlapping starts, failed submissions, kills and evictions.      *)
THEOREM BatchInvariant == Spec => []BatchInv
<1>1. Init => BatchInv
  BY BatchInitInv
<1>2. BatchInv /\ [Next]_vars => BatchInv'
  BY BatchNextInv
<1> QED
  BY <1>1, <1>2, PTL DEF Spec

(* Every variable stays within its type.                                   *)
THEOREM BatchTypeCorrect == Spec => []BatchTypeOK
<1>1. Init => BatchInv /\ CountersOK
  BY BatchInitInv, CountersInit
<1>2. BatchInv /\ CountersOK /\ [Next]_vars => BatchInv' /\ CountersOK'
  BY BatchNextInv, CountersNext
<1>3. BatchInv /\ CountersOK => BatchTypeOK
  BY TypesComplete
<1> QED
  BY <1>1, <1>2, <1>3, PTL DEF Spec

(* Jobs are let go only after start.json is written: the scheduler runs no *)
(* job of a campaign nobody has begun, however submissions overlap or die. *)
THEOREM NothingRunsUnstarted == Spec => []StartedBeforeRunning
<1>1. BatchInv => StartedBeforeRunning
  BY DEF BatchInv
<1> QED
  BY <1>1, BatchInvariant, PTL

(* The afterok dependencies of the submitted jobs keep dependency order,   *)
(* also among the jobs of failed and overlapping submissions.              *)
THEOREM BatchDependencyOrder == Spec => []AttemptsFollowDependencies
<1>1. BatchInv => AttemptsFollowDependencies
  BY DEF BatchInv, QueueInv
<1> QED
  BY <1>1, BatchInvariant, PTL

(* The frozen hooks run only once every task of the graph has a completed  *)
(* attempt, although their job comes after the leaves of the graph only    *)
(* and the runner checks nothing.                                          *)
THEOREM PostflightComesLast == Spec => []PostflightFollowsAll
<1>1. BatchInv => PostflightFollowsAll
  BY DEF BatchInv, QueueInv
<1> QED
  BY <1>1, BatchInvariant, PTL

(* With what is known of the phases of each submission.                    *)
SubmissionInv == BatchInv /\ PhaseInv /\ UnstartedClean /\ Lone

(* The phases hold with the rest, for any graph and any number of          *)
(* submitters, jobs, failures and kills.                                   *)
THEOREM SubmissionInvariant == Spec => []SubmissionInv
<1>1. Init => SubmissionInv
  <2> SUFFICES ASSUME Init PROVE PhaseInv /\ UnstartedClean /\ Lone
    BY BatchInitInv DEF SubmissionInv
  <2>1. PhaseInv
    BY SubmitAssumption DEF Init, StartInit, DiskInit, PhaseInv, PhaseOK, PendingOwned
  <2>2. UnstartedClean
    BY DEF Init, DiskInit, QueueInit, UnstartedClean, Released
  <2>3. Lone
    BY DEF Init, DiskInit, Lone, LoneAt, Early, Late
  <2> QED
    BY <2>1, <2>2, <2>3
<1>2. SubmissionInv /\ [Next]_vars => SubmissionInv'
  BY BatchNextInv, PhaseNext, CleanNext, LoneNext DEF SubmissionInv, BatchInv
<1> QED
  BY <1>1, <1>2, PTL DEF Spec

(* Whatever fails on the way, a submission takes its pending record away   *)
(* again: with nobody killed and everybody back, there is none.            *)
THEOREM PendingRecordWithdrawn == Spec => []PendingWithdrawn
<1>1. SubmissionInv => PendingWithdrawn
  BY DEF SubmissionInv, PhaseInv, PhaseOK, PendingOwned, Holding, PendingWithdrawn
<1> QED
  BY <1>1, SubmissionInvariant, PTL

(* A failed submission, with no other one beside it, leaves a campaign     *)
(* that is not started: no job of it has run or will run.                  *)
THEOREM FailedSubmissionNeverRuns == Spec => []FailedSubmissionUnstarted
<1>1. SubmissionInv => FailedSubmissionUnstarted
  BY DEF SubmissionInv, Lone, UnstartedClean, FailedSubmissionUnstarted
<1> QED
  BY <1>1, SubmissionInvariant, PTL

(* Attempt records only grow, whatever submitters and jobs do.             *)
LEMMA NextKeepsAttempts ==
  ASSUME BatchInv, [Next]_vars
  PROVE  KeepsTerminal /\ KeepsAttempts
<1>1. CASE UNCHANGED attempt
  BY <1>1 DEF KeepsTerminal, KeepsAttempts
<1>2. ASSUME NEW p \in Submitter, SubmitterStep(p) \/ KillSubmitter(p)
      PROVE  UNCHANGED attempt
  BY <1>2
  DEF SubmitterStep, Prepare, WritePending, SubmitTask, AllSubmitted, SubmitPostflight,
      SubmissionFails, RecordHeld, Begin, BeginAccepted, BeginRefused, CommitStart, UnlinkPending,
      ReleaseJobs, Report, CancelSubmitted, Withdraw, CancelPrepared, RecordFailure, Abandon,
      KillSubmitter
<1>3. ASSUME NEW p \in Submitter, NEW policyAsked, IssueSubmit(p, policyAsked)
      PROVE  UNCHANGED attempt
  BY <1>3 DEF IssueSubmit, CheckPrepare
<1>4. ASSUME NEW j \in Job, NEW t \in Task, RunWorker(j, t)
      PROVE  KeepsTerminal /\ KeepsAttempts
  BY <1>4, WorkerStepInv, WorkerKeepsAttempts, QueueAssumption DEF RunWorker, BatchInv, QueueInv
<1>5. ASSUME NEW j \in Job, RunJob(j) \/ LoseJob(j)
      PROVE  KeepsTerminal /\ KeepsAttempts
  BY <1>1, <1>4, <1>5
  DEF RunJob, LoseJob, JobStep, DispatchTask, RetryTask, TaskFails, TaskSucceeds,
      DispatchPostflight, PostflightSucceeds, PostflightFails, EvictJob, KillCalls
<1>6. CASE StrayRuns \/ Rest \/ UNCHANGED vars
  BY <1>1, <1>6 DEF StrayRuns, StrayOutput, Rest, vars
<1> QED
  BY <1>1, <1>2, <1>3, <1>5, <1>6 DEF Next

(* What run_task guarantees alone it guarantees in jobs that the scheduler *)
(* evicts, dispatches again and runs for several submitters at once, and   *)
(* no step of theirs rewrites a terminal attempt record.                   *)
THEOREM BatchAttemptsSound ==
  Spec =>
    /\ [](AttemptOwned /\ AttemptsContiguous /\ StateBackedByAttempt /\ CallConsistent)
    /\ TerminalAttemptsKept
<1>1. BatchInv => AttemptOwned /\ AttemptsContiguous /\ StateBackedByAttempt /\ CallConsistent
  BY DEF BatchInv, QueueInv, WorkerInv
<1>2. BatchInv /\ [Next]_vars =>
        [\A t \in Task : \A n \in AttemptNo :
           attempt[t][n] \in Terminal => attempt'[t][n] = attempt[t][n]]_workerVars
  BY NextKeepsAttempts DEF KeepsTerminal
<1> QED
  BY <1>1, <1>2, BatchInvariant, PTL DEF Spec, TerminalAttemptsKept
====
