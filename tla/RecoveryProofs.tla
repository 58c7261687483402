---- MODULE RecoveryProofs ----
(***************************************************************************)
(* Resumes on Slurm and PBS beside the submission they recover: for any    *)
(* graph and any number of submitters, resumes, jobs and kills, no resume  *)
(* breaks dependency order, the start or what is recorded of an attempt,   *)
(* and while submissions do not overlap no task gets a second live job.    *)
(***************************************************************************)
EXTENDS RecoveryProperties, BatchProofs

USE DEF diskVars, stateVars, fileVars, startVars, callVars, jobVars, queueVars, startProcVars,
        submitVars, boundVars, submitJson

----
(* What submitters and jobs leave to a resume beside them                  *)

Waiting == {"held", "queued"}
Unended == Waiting \cup {"running"}

(* Proof-only: a job keeps its name and goes on in one direction.          *)
JobsEvolve ==
  \A j \in Job :
    /\ queue[j] # "none" => queue'[j] # "none" /\ runs'[j] = runs[j]
    /\ queue'[j] \in Unended => queue[j] \in Unended \cup {"none"}
    /\ queue'[j] \in Waiting => queue[j] \in Waiting \cup {"none"}
    /\ queue[j] = "none" => queue'[j] \in {"none", "held"}

(* The scheduler's commands and the scripts move jobs on.                  *)
LEMMA SubmitHeldEvolves ==
  ASSUME queue \in [Job -> JobState], runs \in [Job -> Name], NEW j \in Job, NEW n, NEW deps,
         SubmitHeld(j, n, deps)
  PROVE  JobsEvolve
  BY DEF SubmitHeld, Unused, JobsEvolve, Unended, Waiting

(* A release as well.                                                      *)
LEMMA ReleaseEvolves ==
  ASSUME queue \in [Job -> JobState], NEW S, Release(S)
  PROVE  JobsEvolve
  BY DEF Release, JobsEvolve, Unended, Waiting, JobState

(* And any step of submitters and jobs, which keeps start.json.            *)
LEMMA NextEvolves ==
  ASSUME BatchInv, [Next]_vars
  PROVE  JobsEvolve /\ (start # "none" => start' # "none")
<1>0. /\ queue \in [Job -> JobState] /\ runs \in [Job -> Name]
      /\ \A p \in Submitter : StartKnown(p)
  BY DEF BatchInv, QueueInv, JobsOK, SubmittersOK
<1>1. ASSUME UNCHANGED queueVars
      PROVE  JobsEvolve
  BY <1>1 DEF JobsEvolve, Unended, Waiting
<1>2. ASSUME NEW S, CancelWaiting(S)
      PROVE  JobsEvolve
  <2>1. UNCHANGED runs /\ \A j \in Job : queue'[j] \in {queue[j], "cancelled"}
                           /\ (queue[j] = "none" => queue'[j] = "none")
    BY <1>2 DEF CancelWaiting
  <2> QED
    BY <2>1 DEF JobsEvolve, Unended, Waiting
<1>3. ASSUME NEW p \in Submitter, SubmitterStep(p) \/ KillSubmitter(p)
      PROVE  JobsEvolve
  <2>1. CASE SubmitTask(p)
    BY <1>0, <2>1, SubmitHeldEvolves DEF SubmitTask
  <2>2. CASE SubmitPostflight(p)
    BY <1>0, <2>2, SubmitHeldEvolves DEF SubmitPostflight
  <2>3. CASE SubmissionFails(p)
    BY <1>0, <1>1, <2>3, SubmitHeldEvolves DEF SubmissionFails
  <2>4. CASE ReleaseJobs(p)
    BY <1>0, <2>4, ReleaseEvolves DEF ReleaseJobs
  <2>5. CASE CancelSubmitted(p)
    BY <1>2, <2>5 DEF CancelSubmitted
  <2> QED
    BY <1>1, <1>3, <2>1, <2>2, <2>3, <2>4, <2>5
    DEF SubmitterStep, Prepare, AllSubmitted, RecordHeld, Begin, Report, Withdraw, RecordFailure,
        Abandon, KillSubmitter
<1>4. ASSUME NEW p \in Submitter, NEW policyAsked, IssueSubmit(p, policyAsked)
      PROVE  JobsEvolve /\ UNCHANGED start
  BY <1>1, <1>4 DEF IssueSubmit, CheckPrepare
<1>5. ASSUME NEW j \in Job, NEW st \in {"running", "done", "failed"},
             queue' = [queue EXCEPT ![j] = st], UNCHANGED <<runs, after>>,
             queue[j] \in {"queued", "running"}
      PROVE  JobsEvolve
  BY <1>0, <1>5 DEF JobsEvolve, Unended, Waiting
<1>6. ASSUME NEW j \in Job, RunJob(j) \/ LoseJob(j)
      PROVE  JobsEvolve
  BY <1>1, <1>5, <1>6
  DEF RunJob, LoseJob, JobStep, DispatchTask, RunWorker, RetryTask, TaskFails, TaskSucceeds,
      DispatchPostflight, PostflightSucceeds, PostflightFails, EvictJob, EndJob, Dispatched
<1>7. CASE StrayRuns \/ Rest \/ UNCHANGED vars
  BY <1>1, <1>7 DEF StrayRuns, StrayOutput, Rest, vars
<1>8. ASSUME NEW p \in Submitter, SubmitterStep(p) \/ KillSubmitter(p)
      PROVE  start # "none" => start' # "none"
  BY <1>8, SubmitterReleases
<1>9. ASSUME NEW j \in Job, RunJob(j) \/ LoseJob(j)
      PROVE  UNCHANGED start
  BY <1>9, JobsRelease
<1> QED
  BY <1>3, <1>4, <1>6, <1>7, <1>8, <1>9 DEF Next, StrayRuns, StrayOutput, Rest, vars

----
(* A round of recovery                                                     *)

RoundTypeOK ==
  /\ ResumeTypeOK
  /\ backend \in Backends
  /\ cancels \in [Resumer -> BOOLEAN]
  /\ snap \in [Resumer -> [Job -> JobView]]
  /\ newJobs \in [Resumer -> [Task -> Job \cup {NoJob}]]
  /\ answered \in [Resumer -> Job \cup {NoJob}]
  /\ resumed \subseteq Job

(* The steps of a resume at which no submission is unconfirmed, those at   *)
(* which it has a plan, and those at which it may have jobs of its own.    *)
Confirmed == ResumeControl \ {"idle", "snapshot", "acknowledge", "unlock"}
Planned == ResumeControl \ {"idle", "snapshot", "plan", "unlock"}
Submitting == {"submit", "acknowledge", "release", "unlock"}

(* What p plans of a task with a terminal state is what the attempt record *)
(* says to which the state file p read points.                             *)
PlanBacked(p) ==
  \A t \in Task :
    /\ plan[p][t] \in Terminal =>
         seen[p][t].attempts > 0 /\ attempt[t][seen[p][t].attempts] = plan[p][t]
    /\ seen[p][t].attempts > 0 => attempt[t][seen[p][t].attempts] # "absent"

(* The jobs of the round are on record under their tasks, and the one the  *)
(* scheduler has just named is that of a task that has none yet.           *)
RoundJobs(p) ==
  /\ \A t \in Task : newJobs[p][t] # NoJob =>
       queue[newJobs[p][t]] # "none" /\ runs[newJobs[p][t]] = t /\ newJobs[p][t] \in resumed
  /\ rctl[p] = "acknowledge" =>
       /\ answered[p] # NoJob /\ queue[answered[p]] # "none"
       /\ runs[answered[p]] \in Selected(p) /\ newJobs[p][runs[answered[p]]] = NoJob
  /\ rctl[p] \notin Submitting => newJobs[p] = NoNewJobs

RoundAt(p) ==
  /\ rctl[p] # "idle" => lock = p /\ start # "none"
  /\ rctl[p] \in Confirmed => ~inflight
  /\ rctl[p] \in Planned => PlanBacked(p)
  /\ RoundJobs(p)

RoundInv == RoundTypeOK /\ \A p \in Resumer : RoundAt(p)

(* A new campaign has no round.                                            *)
LEMMA RoundInitInv == RecoveryInit => RoundInv
<1> SUFFICES ASSUME RecoveryInit PROVE RoundInv
  OBVIOUS
<1>1. seen \in [Resumer -> [Task -> [state : TaskStatus, attempts : 0 .. MaxAttempt]]]
  <2>1. 0 \in 0 .. MaxAttempt
    BY MaxAttemptAssumption
  <2> QED
    BY <2>1 DEF RecoveryInit, ResumeInit, NothingSeen, TaskStatus
<1>2. RoundTypeOK
  <2>1. ResumeTypeOK
    <3>1. plan \in [Resumer -> [Task -> PlannedState]]
      BY DEF RecoveryInit, ResumeInit, NoPlan, PlannedState, TaskStatus
    <3>2. rctl \in [Resumer -> ResumeControl] /\ resumes \in 0 .. MaxResumes
      BY ResumeAssumption DEF RecoveryInit, ResumeInit, ResumeControl
    <3> QED
      BY <1>1, <3>1, <3>2 DEF RecoveryInit, ResumeInit, ResumeTypeOK
  <2> QED
    BY <2>1 DEF RecoveryInit, RoundTypeOK, NothingLive, JobView, NoNewJobs
<1>3. ASSUME NEW p \in Resumer
      PROVE  RoundAt(p)
  <2>1. rctl[p] = "idle" /\ newJobs[p] = NoNewJobs
    BY DEF RecoveryInit, ResumeInit
  <2> QED
    BY <2>1 DEF RoundAt, RoundJobs, NoNewJobs, Confirmed, Planned
<1> QED
  BY <1>2, <1>3 DEF RoundInv

(* Submitters and jobs leave a round as it is.                             *)
LEMMA RoundKept ==
  ASSUME RoundInv, KeepsTerminal, KeepsAttempts, JobsEvolve, start # "none" => start' # "none",
         UNCHANGED <<resumeVars, queryVars, roundJobVars>>
  PROVE  RoundInv'
<1> USE DEF resumeVars, roundVars, queryVars, roundJobVars
<1>1. RoundTypeOK'
  BY DEF RoundInv, RoundTypeOK, ResumeTypeOK
<1>2. ASSUME NEW p \in Resumer
      PROVE  RoundAt(p)'
  <2>1. RoundAt(p) /\ RoundTypeOK
    BY DEF RoundInv
  <2>2. PlanBacked(p) => PlanBacked(p)'
    <3>1. \A t \in Task : seen[p][t].attempts > 0 => seen[p][t].attempts \in AttemptNo
      BY <2>1, MaxAttemptAssumption DEF RoundTypeOK, ResumeTypeOK, AttemptNo
    <3>2. UNCHANGED <<plan, seen>>
      OBVIOUS
    <3> QED
      BY <3>1, <3>2 DEF PlanBacked, KeepsTerminal, KeepsAttempts
  <2>3. RoundJobs(p)'
    <3>1. \A j \in Job : queue[j] # "none" => queue'[j] # "none" /\ runs'[j] = runs[j]
      BY DEF JobsEvolve
    <3>2. /\ newJobs[p] \in [Task -> Job \cup {NoJob}] /\ answered[p] \in Job \cup {NoJob}
          /\ UNCHANGED <<newJobs, answered, resumed, plan, rctl>>
      BY <2>1 DEF RoundTypeOK
    <3>3. Selected(p)' = Selected(p)
      BY <3>2 DEF Selected, SelectedIn
    <3> QED
      BY <2>1, <3>1, <3>2, <3>3 DEF RoundAt, RoundJobs
  <2> QED
    BY <2>1, <2>2, <2>3 DEF RoundAt
<1> QED
  BY <1>1, <1>2 DEF RoundInv

(* The lock: while p goes on, or takes it, every other resume is idle.     *)
LEMMA RoundStep ==
  ASSUME RoundInv, RoundTypeOK', NEW p \in Resumer, rctl[p] # "idle" \/ lock = Nobody, RoundAt(p)',
         \A q \in Resumer : q # p =>
           rctl'[q] = rctl[q] /\ newJobs'[q] = newJobs[q] /\ answered'[q] = answered[q]
  PROVE  RoundInv'
<1> SUFFICES ASSUME NEW q \in Resumer, q # p
             PROVE  RoundAt(q)'
  BY DEF RoundInv
<1>1. rctl[q] = "idle" /\ newJobs[q] = NoNewJobs
  BY ResumeAssumption DEF RoundInv, RoundAt, RoundJobs, Submitting
<1> QED
  BY <1>1 DEF RoundAt, RoundJobs, Confirmed, Planned, NoNewJobs

(* What the queue says of a job, and with it of a task.                    *)
LEMMA SnapOK == CurrentSnap \in [Job -> JobView]
<1>1. ASSUME NEW j \in Job
      PROVE  JobSeen(j) \in JobView
  BY DEF JobSeen, JobView
<1> QED
  BY <1>1 DEF CurrentSnap

(* What the plan is told of a task is one of the states there are.         *)
LEMMA NodesOK ==
  ASSUME NEW s \in [Job -> JobView], NEW t \in Task
  PROVE  NodesOf(s)[t] \in NodeState
<1> DEFINE live == {j \in Active(s) : runs[j] = t}
<1>1. NodesOf(s)[t] = IF live = {} THEN "none" ELSE s[CHOOSE j \in live : TRUE]
  BY DEF NodesOf
<1>2. CASE live = {}
  BY <1>1, <1>2 DEF NodeState
<1>3. CASE live # {}
  <2>1. (CHOOSE j \in live : TRUE) \in Job
    BY <1>3 DEF Active
  <2> QED
    BY <1>1, <1>3, <2>1 DEF NodeState, JobView
<1> QED
  BY <1>2, <1>3

(* A terminal state in a plan comes from the attempt record the state file *)
(* points to, whichever of the two it was read from.                       *)
LEMMA PlanFromBacked ==
  ASSUME WorkerInv, NEW nodes, \A t \in Task : nodes[t] \in NodeState, NEW t \in Task
  PROVE  /\ PlanFrom(nodes)[t] \in PlannedState
         /\ PlanFrom(nodes)[t] \in Terminal =>
              attempts[t] > 0 /\ attempt[t][attempts[t]] = PlanFrom(nodes)[t]
<1>1. /\ status[t] \in TaskStatus /\ attempts[t] \in 0 .. MaxAttempt /\ StateOK(t)
      /\ nodes[t] \in NodeState /\ PlanFrom(nodes)[t] = Effective(t, nodes[t])
  BY DEF WorkerInv, WorkerTypeOK, DiskTypeOK, StateBackedByAttempt, PlanFrom
<1>2. CASE nodes[t] # "none"
  BY <1>1, <1>2 DEF Effective, NodeState, PlannedState, TaskStatus, Terminal
<1>3. CASE nodes[t] = "none" /\ Evidence(t) \in Terminal
  <2>1. attempts[t] \in AttemptNo /\ Evidence(t) = attempt[t][attempts[t]]
    BY <1>3 DEF Evidence, Terminal
  <2>2. attempts[t] > 0
    BY <2>1 DEF AttemptNo
  <2> QED
    BY <1>1, <1>3, <2>1, <2>2 DEF Effective, PlannedState, TaskStatus
<1>4. CASE nodes[t] = "none" /\ Evidence(t) \notin Terminal
  BY <1>1, <1>4 DEF Effective, PlannedState, TaskStatus, StateOK, Terminal
<1> QED
  BY <1>2, <1>3, <1>4

(* p looks at something, or gives the scheduler a command about jobs there *)
(* are, and goes on or gives up.                                           *)
LEMMA LookInv ==
  ASSUME RoundInv, NEW p \in Resumer, NEW to \in ResumeControl, rctl[p] # "idle",
         rctl' = [rctl EXCEPT ![p] = to], snap' \in [Resumer -> [Job -> JobView]],
         JobsEvolve,
         UNCHANGED <<attempt, start, lock, roundVars, inflight, resumes, backend, cancels,
                     roundJobVars>>,
         to \notin {"idle", "acknowledge"},
         to \in Confirmed => rctl[p] \in Confirmed \/ ~inflight,
         to \in Planned => rctl[p] \in Planned,
         rctl[p] \in Submitting => to \in Submitting
  PROVE  RoundInv'
<1> USE DEF roundVars, roundJobVars
<1>1. RoundAt(p) /\ RoundTypeOK
  BY DEF RoundInv
<1>2. RoundTypeOK'
  BY <1>1 DEF RoundTypeOK, ResumeTypeOK
<1>3. /\ rctl'[p] = to /\ \A q \in Resumer : q # p => rctl'[q] = rctl[q]
  BY <1>1 DEF RoundTypeOK, ResumeTypeOK
<1>4. PlanBacked(p) => PlanBacked(p)'
  BY DEF PlanBacked
<1>5. RoundJobs(p)'
  <2>1. newJobs[p] \in [Task -> Job \cup {NoJob}]
    BY <1>1 DEF RoundTypeOK
  <2> QED
    BY <1>1, <1>3, <2>1 DEF RoundAt, RoundJobs, JobsEvolve
<1>6. RoundAt(p)'
  BY <1>1, <1>3, <1>4, <1>5 DEF RoundAt
<1> QED
  BY <1>2, <1>3, <1>6, RoundStep

(* p plans.                                                                *)
LEMMA PlanInv ==
  ASSUME BatchInv, RoundInv, NEW p \in Resumer, NEW to \in Planned \ Submitting, NEW nodes,
         \A t \in Task : nodes[t] \in NodeState,
         rctl[p] \in Confirmed \ Submitting, rctl' = [rctl EXCEPT ![p] = to],
         plan' = [plan EXCEPT ![p] = PlanFrom(nodes)],
         seen' = [seen EXCEPT ![p] =
                    [t \in Task |-> [state |-> status[t], attempts |-> attempts[t]]]],
         UNCHANGED <<queue, runs, attempt, start, lock, asked, inflight, resumes, queryVars,
                     roundJobVars>>
  PROVE  RoundInv'
<1> USE DEF queryVars, roundJobVars
<1>1. RoundAt(p) /\ RoundTypeOK /\ WorkerInv
  BY DEF RoundInv, BatchInv, QueueInv
<1>2. PlanFrom(nodes) \in [Task -> PlannedState]
  BY <1>1, PlanFromBacked DEF PlanFrom
<1>3. [t \in Task |-> [state |-> status[t], attempts |-> attempts[t]]]
        \in [Task -> [state : TaskStatus, attempts : 0 .. MaxAttempt]]
  BY <1>1 DEF WorkerInv, WorkerTypeOK, DiskTypeOK
<1>4. RoundTypeOK'
  BY <1>1, <1>2, <1>3 DEF RoundTypeOK, ResumeTypeOK, Planned
<1>5. /\ rctl'[p] = to /\ \A q \in Resumer : q # p => rctl'[q] = rctl[q]
      /\ plan'[p] = PlanFrom(nodes)
      /\ \A t \in Task : seen'[p][t].attempts = attempts[t]
  BY <1>1 DEF RoundTypeOK, ResumeTypeOK
<1>6. PlanBacked(p)'
  BY <1>1, <1>5, PlanFromBacked DEF PlanBacked, WorkerInv, StateBackedByAttempt, StateOK
<1>7. RoundJobs(p)'
  BY <1>1, <1>5 DEF RoundAt, RoundJobs, NoNewJobs, Submitting
<1>8. RoundAt(p)'
  BY <1>1, <1>5, <1>6, <1>7 DEF RoundAt, Confirmed, Submitting
<1>9. rctl[p] # "idle"
  BY DEF Confirmed
<1> QED
  BY <1>4, <1>5, <1>8, <1>9, RoundStep

----
(* What a resume does to submission and queue                              *)

(* The calls of the jobs that qdel ends are gone with them.                *)
LEMMA CancelWorker ==
  ASSUME WorkerInv, NEW S \in SUBSET Job, CancelJobs(S),
         UNCHANGED <<stateVars, attempt, files, startVars>>
  PROVE  WorkerInv' /\ KeepsTerminal
<1> DEFINE gone == {j \in S : queue[j] = "running" /\ backend = "pbs"}
<1>1. gone \subseteq Proc
  BY QueueAssumption
<1>2. /\ at' = [q \in Proc |-> IF q \in gone THEN [t \in Task |-> "idle"] ELSE at[q]]
      /\ number' = [q \in Proc |-> IF q \in gone THEN [t \in Task |-> 0] ELSE number[q]]
      /\ verdict' = [q \in Proc |-> IF q \in gone THEN [t \in Task |-> "none"] ELSE verdict[q]]
      /\ stray' = stray \cup
           UNION {Outputs[t] : t \in {u \in Task : \E j \in gone : at[j][u] = "payload"}}
  BY DEF CancelJobs
<1> HIDE DEF gone
<1>3. /\ at' \in [Proc -> [Task -> WorkerPC]]
      /\ number' \in [Proc -> [Task -> 0 .. MaxAttempt]]
      /\ verdict' \in [Proc -> [Task -> Terminal \cup {"none"}]]
  BY <1>2, MaxAttemptAssumption DEF WorkerInv, WorkerTypeOK, WorkerPC
<1>4. \A q \in Proc : \A u \in Task :
        /\ at'[q][u] = IF q \in gone THEN "idle" ELSE at[q][u]
        /\ number'[q][u] = IF q \in gone THEN 0 ELSE number[q][u]
        /\ verdict'[q][u] = IF q \in gone THEN "none" ELSE verdict[q][u]
  BY <1>2
<1>5. stray' \subseteq File
  BY <1>2, GraphAssumption DEF WorkerInv, WorkerTypeOK, DiskTypeOK
<1>6. WorkerTypeOK'
  BY <1>3, <1>5 DEF WorkerInv, WorkerTypeOK, DiskTypeOK
<1>7. AttemptOwned'
  BY <1>4 DEF WorkerInv, AttemptOwned, OwnsAttempt, OwnerPC
<1>8. CallConsistent'
  <2> SUFFICES ASSUME NEW q \in Proc, NEW u \in Task
               PROVE  CallOK(q, u)'
    BY DEF CallConsistent
  <2>1. CallOK(q, u)
    BY DEF WorkerInv, CallConsistent
  <2> QED
    BY <2>1, <1>4 DEF CallOK, OwnsAttempt, OwnerPC
<1> QED
  BY <1>6, <1>7, <1>8
  DEF WorkerInv, AttemptsContiguous, StateBackedByAttempt, StateOK, KeepsTerminal

(* A cancellation of a resume.                                             *)
LEMMA CancelPendingInv ==
  ASSUME BatchInv, NEW p \in Resumer, CancelPending(p)
  PROVE  BatchInv' /\ JobsEvolve
<1>1. PICK S \in SUBSET Active(snap[p]) : CancelJobs(S)
  BY DEF CancelPending
<1>2. /\ S \in SUBSET Job
      /\ UNCHANGED <<stateVars, attempt, files, startVars, startProcVars, runs, after, hook, ctl,
                     jobIds>>
  BY DEF CancelPending, Active
<1> DEFINE gone == {j \in S : queue[j] = "running" /\ backend = "pbs"}
<1>3. /\ queue' = [j \in Job |-> IF j \in gone \/ (j \in S /\ queue[j] \in {"held", "queued"})
                                 THEN "cancelled" ELSE queue[j]]
      /\ at' = [q \in Proc |-> IF q \in gone THEN [t \in Task |-> "idle"] ELSE at[q]]
  BY <1>1 DEF CancelJobs
<1>4. WorkerInv' /\ KeepsTerminal
  BY <1>1, <1>2, CancelWorker DEF BatchInv, QueueInv
<1>5. /\ queue' \in [Job -> JobState]
      /\ \A j \in Job : queue'[j] \in {queue[j], "cancelled"}
      /\ \A j \in Job : queue[j] \in {"none", "done"} => queue'[j] = queue[j]
  BY <1>3 DEF BatchInv, QueueInv, JobsOK, JobState
<1>6. JobsOK'
  BY <1>2, <1>4, <1>5, JobsOKKept DEF BatchInv, QueueInv
<1>7. JobsGoOn /\ JobsEvolve
  BY <1>2, <1>5 DEF JobsGoOn, JobsEvolve, Unended, Waiting
<1>8. CallsBelong'
  BY <1>2, <1>3, <1>5 DEF BatchInv, QueueInv, CallsBelong
<1>9. \A j \in Job : queue'[j] = "done" => queue[j] = "done"
  BY <1>5
<1> QED
  BY <1>2, <1>4, <1>6, <1>7, <1>8, <1>9, JobsStep

(* A new job comes after the selected parents of its task; the others are  *)
(* completed.                                                              *)
LEMMA NewDependenciesCover ==
  ASSUME RoundInv, NEW p \in Resumer, rctl[p] = "submit", NEW t \in ReadyTasks(p)
  PROVE  /\ NewDependencies(p, t) \in SUBSET Job
         /\ Covers(NewDependencies(p, t), t)
<1>1. RoundAt(p) /\ RoundTypeOK /\ t \in Task /\ Parents[t] \subseteq Task
  BY GraphAssumption DEF RoundInv, ReadyTasks, Selected, SelectedIn
<1>2. PlanBacked(p) /\ RoundJobs(p)
  BY <1>1 DEF RoundAt, Planned, ResumeControl
<1>3. \A u \in Parents[t] \cap Selected(p) : newJobs[p][u] \in Job /\ newJobs[p][u] # NoJob
  BY <1>1 DEF ReadyTasks, RoundTypeOK
<1>4. ASSUME NEW u \in Parents[t], u \notin Selected(p)
      PROVE  HasCompletedAttempt(u)
  <2>1. u \in Task /\ plan[p][u] = "completed"
    BY <1>1, <1>4 DEF Selected, SelectedIn
  <2>2. seen[p][u].attempts > 0 /\ attempt[u][seen[p][u].attempts] = "completed"
    BY <1>2, <2>1 DEF PlanBacked, Terminal
  <2>3. seen[p][u].attempts \in AttemptNo
    BY <1>1, <2>1, <2>2, MaxAttemptAssumption DEF RoundTypeOK, ResumeTypeOK, AttemptNo
  <2> QED
    BY <2>2, <2>3 DEF HasCompletedAttempt
<1>5. ASSUME NEW u \in Parents[t], u \in Selected(p)
      PROVE  \E d \in NewDependencies(p, t) : queue[d] # "none" /\ runs[d] = u
  BY <1>1, <1>2, <1>3, <1>5 DEF NewDependencies, RoundJobs
<1> QED
  BY <1>1, <1>3, <1>4, <1>5 DEF NewDependencies, Covers, Predecessors

(* A job of the round is submitted held, or none is.                       *)
LEMMA SubmitReplacementInv ==
  ASSUME BatchInv, RoundInv, NEW p \in Resumer, SubmitReplacement(p)
  PROVE  BatchInv' /\ RoundInv'
<1>1. PICK t \in ReadyTasks(p), j \in Job :
        /\ \/ /\ SubmitHeld(j, t, NewDependencies(p, t))
              /\ rctl' = [rctl EXCEPT ![p] = "acknowledge"]
              /\ answered' = [answered EXCEPT ![p] = j]
              /\ inflight' = TRUE
           \/ /\ rctl' = [rctl EXCEPT ![p] = "unlock"]
              /\ SubmitHeld(j, t, NewDependencies(p, t)) \/ UNCHANGED queueVars
              /\ inflight' \in {inflight, TRUE} /\ UNCHANGED answered
        /\ rctl[p] = "submit"
        /\ UNCHANGED <<newJobs, resumed, submitFrame>>
  BY DEF SubmitReplacement, GoOn
<1>2. UNCHANGED <<diskVars, callVars, startProcVars, hook, ctl, jobIds, lock, roundVars, resumes,
                  queryVars, newJobs, resumed>>
  BY <1>1 DEF submitFrame
<1>3. /\ RoundAt(p) /\ RoundTypeOK /\ JobsOK
      /\ t \in Task /\ t \in Name /\ t \in Selected(p) /\ newJobs[p][t] = NoJob
  BY <1>1 DEF RoundInv, BatchInv, QueueInv, ReadyTasks, Selected, SelectedIn, Name
<1>4. NewDependencies(p, t) \in SUBSET Job /\ Covers(NewDependencies(p, t), t)
  BY <1>1, NewDependenciesCover
<1>5. ASSUME SubmitHeld(j, t, NewDependencies(p, t))
      PROVE  /\ JobsOK' /\ JobsKept /\ JobsEvolve /\ queue'[j] = "held" /\ runs'[j] = t
             /\ \A k \in Job :
                  queue'[k] \in {"queued", "running"} => queue[k] \in {"queued", "running"}
  <2>1. JobsOK' /\ JobsKept /\ queue'[j] = "held" /\ runs'[j] = t
    BY <1>2, <1>3, <1>4, <1>5, SubmitHeldJobs
  <2>2. JobsEvolve
    BY <1>3, <1>5, SubmitHeldEvolves DEF JobsOK
  <2>3. \A k \in Job : queue'[k] \in {"queued", "running"} => queue[k] \in {"queued", "running"}
    BY <1>3, <1>5 DEF SubmitHeld, JobsOK
  <2> QED
    BY <2>1, <2>2, <2>3
<1>6. ASSUME UNCHANGED queueVars
      PROVE  JobsEvolve /\ JobsOK' /\ JobsKept
  BY <1>2, <1>3, <1>6, JobsOKKept
  DEF JobsEvolve, Unended, Waiting, JobsOK, JobsKept, KeepsTerminal
<1>7. BatchInv'
  <2>1. JobsOK' /\ JobsKept
    BY <1>1, <1>5, <1>6
  <2>2. IdsOK'
    BY <1>2, <2>1, IdsKept DEF BatchInv, QueueInv, IdsOK
  <2>3. SubmittersOK'
    BY <1>2 DEF BatchInv, SubmittersOK, StartTypeOK, StartKnown, AllNamed
  <2>4. \A k \in Job : queue'[k] \in {"queued", "running"} => queue[k] \in {"queued", "running"}
    BY <1>1, <1>5
  <2> QED
    BY <1>2, <2>1, <2>2, <2>3, <2>4, CommandStep
<1>8. JobsEvolve
  BY <1>1, <1>5, <1>6
<1>9. RoundTypeOK'
  BY <1>1, <1>2, <1>3, SMT, ZenonT(40)
  DEF RoundTypeOK, ResumeTypeOK, ResumeControl, roundVars, queryVars
<1>10. \A q \in Resumer : q # p => rctl'[q] = rctl[q] /\ newJobs'[q] = newJobs[q]
                                   /\ answered'[q] = answered[q]
  BY <1>1, <1>2, <1>3 DEF RoundTypeOK, ResumeTypeOK
<1>11. PlanBacked(p)'
  BY <1>1, <1>2, <1>3 DEF RoundAt, Planned, ResumeControl, PlanBacked, roundVars
<1>12. \A u \in Task : newJobs'[p][u] # NoJob =>
          /\ queue'[newJobs'[p][u]] # "none" /\ runs'[newJobs'[p][u]] = u
          /\ newJobs'[p][u] \in resumed'
  <2>1. newJobs[p] \in [Task -> Job \cup {NoJob}]
    BY <1>3 DEF RoundTypeOK
  <2> QED
    BY <1>2, <1>3, <1>8, <2>1 DEF RoundAt, RoundJobs, JobsEvolve
<1>13. CASE rctl' = [rctl EXCEPT ![p] = "unlock"]
  <2>1. rctl'[p] = "unlock"
    BY <1>3, <1>13 DEF RoundTypeOK, ResumeTypeOK
  <2>2. RoundAt(p)'
    BY <1>1, <1>2, <1>3, <1>12, <2>1 DEF RoundAt, RoundJobs, Confirmed, Planned, Submitting
  <2> QED
    BY <1>1, <1>7, <1>9, <1>10, <2>2, RoundStep
<1>14. CASE SubmitHeld(j, t, NewDependencies(p, t)) /\ rctl' = [rctl EXCEPT ![p] = "acknowledge"]
             /\ answered' = [answered EXCEPT ![p] = j]
  <2>1. rctl'[p] = "acknowledge" /\ answered'[p] = j /\ j # NoJob
    BY <1>3, <1>14, QueueAssumption DEF RoundTypeOK, ResumeTypeOK, NoJob
  <2>2. queue'[j] # "none" /\ runs'[j] \in Selected(p)' /\ newJobs'[p][runs'[j]] = NoJob
    BY <1>2, <1>3, <1>5, <1>14 DEF roundVars, Selected, SelectedIn
  <2>3. RoundAt(p)'
    BY <1>1, <1>2, <1>3, <1>11, <1>12, <2>1, <2>2
    DEF RoundAt, RoundJobs, Confirmed, Planned, Submitting
  <2> QED
    BY <1>1, <1>7, <1>9, <1>10, <2>3, RoundStep
<1> QED
  BY <1>1, <1>13, <1>14

(* The jobs of the round are let go; the campaign was begun long ago.      *)
LEMMA ReleaseRoundInv ==
  ASSUME BatchInv, RoundInv, NEW p \in Resumer, ReleaseRound(p)
  PROVE  BatchInv' /\ RoundInv'
<1>1. /\ rctl[p] = "release" /\ rctl' = [rctl EXCEPT ![p] = "unlock"]
      /\ UNCHANGED <<diskVars, callVars, startProcVars, hook, ctl, jobIds, lock, roundVars, resumes,
                     queryVars, inflight, roundJobVars>>
  BY DEF ReleaseRound, GoOn, submitFrame
<1>2. PICK S : Release(S)
  BY DEF ReleaseRound
<1>3. JobsOK' /\ JobsKept /\ JobsEvolve
  BY <1>1, <1>2, ReleaseJobsOK, ReleaseEvolves DEF BatchInv, QueueInv, JobsOK
<1>4. start # "none"
  BY <1>1 DEF RoundInv, RoundAt
<1>5. IdsOK' /\ SubmittersOK'
  BY <1>1, <1>3, IdsKept
  DEF BatchInv, QueueInv, IdsOK, SubmittersOK, StartTypeOK, StartKnown, AllNamed
<1>6. BatchInv'
  BY <1>1, <1>3, <1>4, <1>5, CommandStep
<1>7. RoundInv'
  BY <1>1, <1>3, LookInv
  DEF ResumeControl, Confirmed, Planned, Submitting, RoundInv, RoundTypeOK, queryVars
<1> QED
  BY <1>6, <1>7

(* One state file is set right.                                            *)
LEMMA ReconcileInv ==
  ASSUME BatchInv, RoundInv, NEW p \in Resumer, ReconcileStates(p)
  PROVE  BatchInv' /\ RoundInv'
<1>1. /\ rctl[p] = "reconcile" /\ RoundAt(p) /\ RoundTypeOK /\ PlanBacked(p)
      /\ UNCHANGED <<attempt, fileVars, startVars, callVars, startProcVars, jobVars, ctl, jobIds,
                     lock, asked, plan, inflight, resumes, queryVars, roundJobVars>>
  BY DEF ReconcileStates, ReconcileTask, Reconciled, GoOn, RoundInv, RoundAt, Planned, ResumeControl
<1>2. JobsEvolve
  BY <1>1 DEF JobsEvolve, Unended, Waiting
<1>3. CASE Reconciled(p) /\ UNCHANGED <<stateVars, seen>>
  <2>1. DiskTypeOK'
    BY <1>1, <1>3 DEF BatchInv, QueueInv, WorkerInv, WorkerTypeOK, DiskTypeOK
  <2>2. BatchInv'
    BY <1>1, <1>3, <2>1, BatchStutter
  <2>3. RoundInv'
    BY <1>1, <1>2, <1>3, LookInv
    DEF Reconciled, GoOn, ResumeControl, Confirmed, Planned, Submitting, RoundTypeOK, roundVars,
        queryVars
  <2> QED
    BY <2>2, <2>3
<1>4. CASE ReconcileTask(p)
  <2>1. PICK t \in Unreconciled(p) :
          /\ WriteTaskState(t, plan[p][t], seen[p][t].attempts)
          /\ seen' = [seen EXCEPT ![p][t].state = plan[p][t]]
    BY <1>4 DEF ReconcileTask
  <2>2. rctl' = rctl
    BY <1>1, <1>4 DEF ReconcileTask, GoOn, RoundTypeOK, ResumeTypeOK
  <2>3. /\ t \in Task /\ plan[p][t] \in TaskStatus \ {"running"}
        /\ seen \in [Resumer -> [Task -> [state : TaskStatus, attempts : 0 .. MaxAttempt]]]
    BY <1>1, <2>1 DEF Unreconciled, Terminal, TaskStatus, RoundTypeOK, ResumeTypeOK
  <2>4. seen[p][t].attempts \in 0 .. MaxAttempt
    BY <2>3
  <2>5. WorkerInv' /\ KeepsTerminal
    BY <1>1, <2>1, <2>3, <2>4, ReconcileWorker DEF PlanBacked, BatchInv, QueueInv
  <2>6. JobsOK' /\ JobsGoOn /\ CallsBelong'
    BY <1>1, <2>5, JobsOKKept DEF BatchInv, QueueInv, JobsOK, JobsGoOn, CallsBelong
  <2>7. BatchInv'
    BY <1>1, <2>5, <2>6, JobsStep
  <2>8. /\ seen' \in [Resumer -> [Task -> [state : TaskStatus, attempts : 0 .. MaxAttempt]]]
        /\ \A u \in Task : seen'[p][u].attempts = seen[p][u].attempts
    BY <2>1, <2>3
  <2>9. RoundTypeOK'
    BY <1>1, <2>2, <2>8 DEF RoundTypeOK, ResumeTypeOK, queryVars, roundJobVars
  <2>10. PlanBacked(p)'
    BY <1>1, <2>8 DEF PlanBacked
  <2>11. RoundJobs(p)'
    BY <1>1, <2>2 DEF RoundAt, RoundJobs, Selected, SelectedIn, roundJobVars
  <2>12. RoundAt(p)'
    BY <1>1, <2>2, <2>10, <2>11 DEF RoundAt
  <2> QED
    BY <1>1, <2>2, <2>7, <2>9, <2>12, RoundStep DEF roundJobVars
<1> QED
  BY <1>3, <1>4 DEF ReconcileStates

(* The job id the scheduler named is put on record.                        *)
LEMMA AcknowledgeInv ==
  ASSUME BatchInv, RoundInv, NEW p \in Resumer, Acknowledge(p)
  PROVE  BatchInv' /\ RoundInv'
<1> DEFINE j == answered[p]
<1>1. /\ rctl[p] = "acknowledge" /\ rctl' = [rctl EXCEPT ![p] = "submit"]
      /\ newJobs' = [newJobs EXCEPT ![p][runs[j]] = j] /\ resumed' = resumed \cup {j}
      /\ answered' = [answered EXCEPT ![p] = NoJob] /\ inflight' = FALSE
      /\ UNCHANGED <<diskVars, callVars, startProcVars, queueVars, hook, ctl, jobIds, lock,
                     roundVars, resumes, queryVars>>
  BY DEF Acknowledge, GoOn, submitFrame
<1>2. /\ RoundAt(p) /\ RoundTypeOK /\ PlanBacked(p)
      /\ j \in Job /\ queue[j] # "none" /\ runs[j] \in Selected(p) /\ runs[j] \in Task
  <2>1. RoundAt(p) /\ RoundTypeOK
    BY DEF RoundInv
  <2>2. j \in Job /\ queue[j] # "none" /\ runs[j] \in Selected(p)
    BY <1>1, <2>1 DEF RoundAt, RoundJobs, RoundTypeOK
  <2> QED
    BY <1>1, <2>1, <2>2 DEF RoundAt, Planned, ResumeControl, Selected, SelectedIn
<1>3. DiskTypeOK'
  BY <1>1 DEF BatchInv, QueueInv, WorkerInv, WorkerTypeOK, DiskTypeOK
<1>4. BatchInv'
  BY <1>1, <1>3, BatchStutter
<1>5. RoundTypeOK'
  BY <1>1, <1>2 DEF RoundTypeOK, ResumeTypeOK, ResumeControl, roundVars, queryVars
<1>6. /\ rctl'[p] = "submit"
      /\ \A t \in Task : newJobs'[p][t] = IF t = runs[j] THEN j ELSE newJobs[p][t]
      /\ \A q \in Resumer : q # p => rctl'[q] = rctl[q] /\ newJobs'[q] = newJobs[q]
                                     /\ answered'[q] = answered[q]
  BY <1>1, <1>2 DEF RoundTypeOK, ResumeTypeOK
<1>7. RoundJobs(p)'
  BY <1>1, <1>2, <1>6 DEF RoundAt, RoundJobs, Submitting
<1>8. PlanBacked(p)'
  BY <1>1, <1>2 DEF PlanBacked, roundVars
<1>9. RoundAt(p)'
  BY <1>1, <1>2, <1>6, <1>7, <1>8 DEF RoundAt
<1> QED
  BY <1>1, <1>4, <1>5, <1>6, <1>9, RoundStep

(* A resume plans, for the first time or again.                            *)
LEMMA PlanRoundInv ==
  ASSUME BatchInv, RoundInv, NEW p \in Resumer, PlanRound(p) \/ Replan(p)
  PROVE  BatchInv' /\ RoundInv'
<1>1. /\ files' \subseteq files
      /\ UNCHANGED <<stateVars, attempt, stray, startVars, callVars, startProcVars, queueVars, hook,
                     ctl, jobIds, lock, asked, inflight, resumes, queryVars, roundJobVars>>
  BY DEF PlanRound, Replan, planFrame, MakePlan
<1>2. DiskTypeOK' /\ RoundTypeOK /\ RoundAt(p)
  BY <1>1 DEF BatchInv, QueueInv, WorkerInv, WorkerTypeOK, DiskTypeOK, RoundInv
<1>3. BatchInv'
  BY <1>1, <1>2, BatchStutter
<1>4. JobsEvolve
  BY <1>1 DEF JobsEvolve, Unended, Waiting
<1>5. rctl[p] \in {"plan", "replan"}
  BY DEF PlanRound, Replan, GoOn
<1>6. CASE rctl' = [rctl EXCEPT ![p] = "unlock"] /\ UNCHANGED <<plan, seen>>
  BY <1>1, <1>2, <1>3, <1>4, <1>5, <1>6, LookInv
  DEF ResumeControl, Confirmed, Planned, Submitting, RoundTypeOK, roundVars, queryVars
<1>7. ASSUME NEW nodes, \A t \in Task : nodes[t] \in NodeState,
             NEW to \in {"confirm", "recheck", "reconcile"}, rctl' = [rctl EXCEPT ![p] = to],
             plan' = [plan EXCEPT ![p] = PlanFrom(nodes)],
             seen' = [seen EXCEPT ![p] =
                        [t \in Task |-> [state |-> status[t], attempts |-> attempts[t]]]]
      PROVE  RoundInv'
  BY <1>1, <1>5, <1>7, PlanInv DEF ResumeControl, Confirmed, Planned, Submitting
<1>8. CASE PlanRound(p)
  <2>1. \A t \in Task : NodesOf(snap[p])[t] \in NodeState
    BY <1>2, NodesOK DEF RoundTypeOK
  <2>2. CASE rctl' = [rctl EXCEPT ![p] = "unlock"] /\ UNCHANGED <<plan, seen>>
    BY <1>3, <1>6, <2>2
  <2>3. CASE MakePlan(p, NodesOf(snap[p]), "plan",
                      IF Active(snap[p]) = {} THEN "confirm" ELSE "recheck")
    BY <1>3, <1>6, <1>7, <2>1, <2>3 DEF MakePlan, GoOn
  <2> QED
    BY <1>8, <2>2, <2>3 DEF PlanRound, GoOn
<1>9. CASE Replan(p)
  <2>1. \A t \in Task : [u \in Task |-> "none"][t] \in NodeState
    BY DEF NodeState
  <2> QED
    BY <1>3, <1>6, <1>7, <1>9, <2>1 DEF Replan, GoOn
<1> QED
  BY <1>8, <1>9

(* A resume looks at the queue, or ends its submission.                    *)
LEMMA LooksInv ==
  ASSUME BatchInv, RoundInv, NEW p \in Resumer,
         Snapshot(p) \/ Confirm(p) \/ Recheck(p) \/ AfterCancel(p) \/ SubmissionEnds(p)
  PROVE  BatchInv' /\ RoundInv'
<1>1. /\ UNCHANGED <<diskVars, callVars, startProcVars, queueVars, hook, ctl, jobIds, lock,
                     roundVars, inflight, resumes, backend, cancels, roundJobVars>>
      /\ snap' \in {snap, [snap EXCEPT ![p] = CurrentSnap]}
  BY DEF Snapshot, Confirm, Recheck, AfterCancel, SubmissionEnds, lookFrame, submitFrame, vars,
         queryVars
<1>2. DiskTypeOK' /\ RoundTypeOK
  BY <1>1 DEF BatchInv, QueueInv, WorkerInv, WorkerTypeOK, DiskTypeOK, RoundInv
<1>3. BatchInv'
  BY <1>1, <1>2, BatchStutter
<1>4. JobsEvolve
  BY <1>1 DEF JobsEvolve, Unended, Waiting
<1>5. snap' \in [Resumer -> [Job -> JobView]]
  BY <1>1, <1>2, SnapOK DEF RoundTypeOK
<1>6. PICK to \in {"plan", "reconcile", "cancel", "replan", "release", "unlock"} :
        /\ rctl' = [rctl EXCEPT ![p] = to]
        /\ \/ rctl[p] = "snapshot" /\ (to = "unlock" \/ (to = "plan" /\ ~inflight))
           \/ rctl[p] \in {"confirm", "recheck", "after"}
           \/ rctl[p] = "submit" /\ to = "release"
        /\ to = "release" => rctl[p] = "submit"
        /\ to = "plan" => rctl[p] = "snapshot"
  BY DEF Snapshot, Confirm, Recheck, AfterCancel, SubmissionEnds, GraphSubmitted, GoOn,
         SnapshotValid
<1>7. RoundInv'
  BY <1>1, <1>2, <1>4, <1>5, <1>6, LookInv
  DEF ResumeControl, Confirmed, Planned, Submitting
<1> QED
  BY <1>3, <1>7

(* A resume ends, or is killed: nothing of its round is left but the lock. *)
LEMMA RoundEnds ==
  ASSUME RoundInv, NEW p \in Resumer, rctl[p] # "idle", rctl' = [rctl EXCEPT ![p] = "idle"],
         ForgetRound(p), ForgetRecovery(p), lock' \in {lock, Nobody},
         UNCHANGED <<inflight, resumes>>
  PROVE  RoundInv'
<1>1. RoundTypeOK
  BY DEF RoundInv
<1>2. NothingSeen \in [Task -> [state : TaskStatus, attempts : 0 .. MaxAttempt]]
  BY MaxAttemptAssumption DEF NothingSeen, TaskStatus
<1>3. /\ NoPlan \in [Task -> PlannedState] /\ NothingLive \in [Job -> JobView]
      /\ NoNewJobs \in [Task -> Job \cup {NoJob}]
  BY DEF NoPlan, PlannedState, TaskStatus, NothingLive, JobView, NoNewJobs
<1>4. RoundTypeOK'
  BY <1>1, <1>2, <1>3
  DEF ForgetRound, ForgetRecovery, RoundTypeOK, ResumeTypeOK, ResumeControl
<1>5. /\ rctl'[p] = "idle" /\ newJobs'[p] = NoNewJobs
      /\ \A q \in Resumer : q # p => rctl'[q] = rctl[q] /\ newJobs'[q] = newJobs[q]
                                     /\ answered'[q] = answered[q]
  BY <1>1 DEF RoundTypeOK, ResumeTypeOK, ForgetRecovery
<1>6. RoundAt(p)'
  BY <1>5 DEF RoundAt, RoundJobs, NoNewJobs, Confirmed, Planned
<1> QED
  BY <1>4, <1>5, <1>6, RoundStep

(* Any step of a resume under way.                                         *)
LEMMA ResumerStepInv ==
  ASSUME BatchInv, RoundInv, NEW p \in Resumer, ResumerStep(p)
  PROVE  BatchInv' /\ RoundInv'
<1>1. CASE CancelPending(p)
  <2>1. BatchInv' /\ JobsEvolve
    BY <1>1, CancelPendingInv
  <2>2. RoundInv'
    BY <1>1, <2>1, LookInv
    DEF CancelPending, GoOn, ResumeControl, Confirmed, Planned, Submitting, RoundInv, RoundTypeOK,
        queryVars
  <2> QED
    BY <2>1, <2>2
<1>2. CASE EndRecovery(p)
  <2>1. DiskTypeOK'
    BY <1>2 DEF EndRecovery, vars, BatchInv, QueueInv, WorkerInv, WorkerTypeOK, DiskTypeOK
  <2>2. BatchInv'
    BY <1>2, <2>1, BatchStutter DEF EndRecovery, vars
  <2>3. RoundInv'
    BY <1>2, RoundEnds DEF EndRecovery, Unlock, GoOn
  <2> QED
    BY <2>2, <2>3
<1> QED
  BY <1>1, <1>2, LooksInv, PlanRoundInv, ReconcileInv, SubmitReplacementInv, AcknowledgeInv,
     ReleaseRoundInv
  DEF ResumerStep

(* A resume takes the lock.                                                *)
LEMMA IssueRecoveryInv ==
  ASSUME BatchInv, RoundInv, NEW p \in Resumer, NEW cancel \in BOOLEAN, NEW overwrite \in BOOLEAN,
         IssueRecovery(p, cancel, overwrite)
  PROVE  BatchInv' /\ RoundInv'
<1>1. /\ rctl[p] = "idle" /\ rctl' = [rctl EXCEPT ![p] = "snapshot"] /\ lock = Nobody /\ lock' = p
      /\ start # "none" /\ resumes < MaxResumes /\ resumes' = resumes + 1
      /\ asked' = [asked EXCEPT ![p] = overwrite] /\ cancels' = [cancels EXCEPT ![p] = cancel]
      /\ UNCHANGED <<vars, plan, seen, inflight, backend, snap, roundJobVars>>
  BY DEF IssueRecovery, IssueResume, TakeLock, GoOn
<1>2. DiskTypeOK' /\ RoundTypeOK /\ RoundAt(p)
  BY <1>1 DEF vars, BatchInv, QueueInv, WorkerInv, WorkerTypeOK, DiskTypeOK, RoundInv
<1>3. BatchInv'
  BY <1>1, <1>2, BatchStutter DEF vars
<1>4. resumes' \in 0 .. MaxResumes
  BY <1>1, <1>2, ResumeAssumption DEF RoundTypeOK, ResumeTypeOK
<1>5. RoundTypeOK'
  BY <1>1, <1>2, <1>4 DEF RoundTypeOK, ResumeTypeOK, ResumeControl, roundJobVars
<1>6. rctl'[p] = "snapshot" /\ \A q \in Resumer : q # p => rctl'[q] = rctl[q]
  BY <1>1, <1>2 DEF RoundTypeOK, ResumeTypeOK
<1>7. newJobs'[p] = NoNewJobs /\ UNCHANGED <<newJobs, answered, start>>
  BY <1>1, <1>2 DEF RoundAt, RoundJobs, Submitting, roundJobVars, vars
<1>8. RoundAt(p)'
  BY <1>1, <1>6, <1>7 DEF RoundAt, RoundJobs, NoNewJobs, Confirmed, Planned
<1> QED
  BY <1>1, <1>3, <1>5, <1>6, <1>7, <1>8, RoundStep

(* A resume is killed.                                                     *)
LEMMA KillRecoveryInv ==
  ASSUME BatchInv, RoundInv, NEW p \in Resumer, KillRecovery(p)
  PROVE  BatchInv' /\ RoundInv'
<1>1. DiskTypeOK'
  BY DEF KillRecovery, BatchInv, QueueInv, WorkerInv, WorkerTypeOK, DiskTypeOK
<1>2. BatchInv'
  BY <1>1, BatchStutter DEF KillRecovery
<1>3. RoundInv'
  BY RoundEnds DEF KillRecovery, KillResume
<1> QED
  BY <1>2, <1>3

(* The operator removes the lock of a resume that is gone.                 *)
LEMMA UnlocksInv ==
  ASSUME BatchInv, RoundInv, OperatorUnlocks
  PROVE  BatchInv' /\ RoundInv'
<1>1. DiskTypeOK'
  BY DEF OperatorUnlocks, vars, BatchInv, QueueInv, WorkerInv, WorkerTypeOK, DiskTypeOK
<1>2. BatchInv'
  BY <1>1, BatchStutter DEF OperatorUnlocks, vars
<1>3. \A p \in Resumer : rctl[p] = "idle"
  BY DEF OperatorUnlocks, RemoveStaleLock, RoundInv, RoundAt
<1>4. RoundTypeOK'
  BY DEF OperatorUnlocks, RemoveStaleLock, RoundInv, RoundTypeOK, ResumeTypeOK, roundVars,
         queryVars, roundJobVars
<1>5. UNCHANGED <<rctl, newJobs>>
  BY DEF OperatorUnlocks, roundJobVars
<1>6. \A p \in Resumer : RoundAt(p)'
  BY <1>3, <1>5 DEF RoundInv, RoundAt, RoundJobs, Confirmed, Planned, Submitting, NoNewJobs
<1> QED
  BY <1>2, <1>4, <1>6 DEF RoundInv

(* Submission, queue and rounds together.                                  *)
LEMMA RecoveryNextInv ==
  ASSUME BatchInv, RoundInv, [RecoveryNext]_recoveryVars
  PROVE  BatchInv' /\ RoundInv'
<1>1. CASE [Next]_vars /\ UNCHANGED <<resumeVars, queryVars, roundJobVars>>
  BY <1>1, BatchNextInv, NextKeepsAttempts, NextEvolves, RoundKept
<1>2. ASSUME NEW p \in Resumer, NEW cancel \in BOOLEAN, NEW overwrite \in AskOverwrite,
             IssueRecovery(p, cancel, overwrite)
      PROVE  BatchInv' /\ RoundInv'
  BY <1>2, IssueRecoveryInv, ResumeAssumption
<1> QED
  BY <1>1, <1>2, ResumerStepInv, KillRecoveryInv, UnlocksInv DEF RecoveryNext, recoveryVars

(* A campaign nobody has started satisfies both.                           *)
LEMMA RecoveryInitInv == RecoveryInit => BatchInv /\ RoundInv
  BY BatchInitInv, RoundInitInv DEF RecoveryInit

(* A resume counts nothing but its kills.                                  *)
LEMMA RecoveryCounters ==
  ASSUME BatchInv, CountersOK, [RecoveryNext]_recoveryVars
  PROVE  CountersOK'
<1>1. ASSUME UNCHANGED <<left, hook, cursor, submitJson, overlap, issued>>,
             kills' \in {kills, kills + 1} \cap 0 .. MaxKills
      PROVE  CountersOK'
  BY <1>1 DEF CountersOK
<1>2. kills \in 0 .. MaxKills
  BY DEF CountersOK
<1>3. ASSUME NEW p \in Resumer, ResumerStep(p)
      PROVE  UNCHANGED <<left, hook, cursor, submitJson, boundVars>>
  BY <1>3
  DEF ResumerStep, Snapshot, PlanRound, Confirm, Recheck, CancelPending, AfterCancel, Replan,
      ReconcileStates, SubmitReplacement, Acknowledge, SubmissionEnds, ReleaseRound, EndRecovery,
      lookFrame, submitFrame, planFrame, vars
<1>4. ASSUME NEW p \in Resumer, KillRecovery(p)
      PROVE  CountersOK'
  BY <1>1, <1>2, <1>4, SubmitAssumption DEF KillRecovery
<1>5. ASSUME NEW p \in Resumer, NEW cancel, NEW overwrite, IssueRecovery(p, cancel, overwrite)
      PROVE  UNCHANGED vars
  BY <1>5 DEF IssueRecovery
<1>6. OperatorUnlocks => UNCHANGED vars
  BY DEF OperatorUnlocks
<1>7. [Next]_vars => CountersOK'
  BY CountersNext
<1> QED
  BY <1>1, <1>2, <1>3, <1>4, <1>5, <1>6, <1>7 DEF RecoveryNext, recoveryVars

----
(* Whoever overlaps                                                        *)

(* The invariant of submission and recovery, for any number of submitters, *)
(* resumes and jobs, and for any kill.                                     *)
THEOREM RecoveryInvariant == RecoverySpec => [](BatchInv /\ RoundInv)
<1>1. BatchInv /\ RoundInv /\ [RecoveryNext]_recoveryVars => (BatchInv /\ RoundInv)'
  BY RecoveryNextInv
<1> QED
  BY <1>1, RecoveryInitInv, PTL DEF RecoverySpec

(* Every variable of submission, queue and rounds stays within its type.   *)
THEOREM RecoveryTypeCorrect == RecoverySpec => []RecoveryTypeOK
<1>1. RecoveryInit => BatchInv /\ RoundInv /\ CountersOK
  BY RecoveryInitInv, CountersInit DEF RecoveryInit
<1>2. BatchInv /\ RoundInv /\ CountersOK /\ [RecoveryNext]_recoveryVars =>
        BatchInv' /\ RoundInv' /\ CountersOK'
  BY RecoveryNextInv, RecoveryCounters
<1>3. BatchInv /\ RoundInv /\ CountersOK => RecoveryTypeOK
  BY TypesComplete DEF RoundInv, RoundTypeOK, RecoveryTypeOK
<1> QED
  BY <1>1, <1>2, <1>3, PTL DEF RecoverySpec

(* A job a resume submits comes after the unfinished parents of its task,  *)
(* and the finished ones have an attempt that completed: dependency order  *)
(* is kept across rounds, also when a state file was behind.               *)
THEOREM RecoveryDependencyOrder == RecoverySpec => []AttemptsFollowDependencies
<1>1. BatchInv /\ RoundInv => AttemptsFollowDependencies
  BY DEF BatchInv, QueueInv
<1> QED
  BY <1>1, RecoveryInvariant, PTL

(* Postflight comes last also when part of the graph was recovered.        *)
THEOREM RecoveryPostflightLast == RecoverySpec => []PostflightFollowsAll
<1>1. BatchInv /\ RoundInv => PostflightFollowsAll
  BY DEF BatchInv, QueueInv
<1> QED
  BY <1>1, RecoveryInvariant, PTL

----
(* What is known of the jobs while submissions do not overlap              *)

(* The jobs on record that may still run.                                  *)
KnownActive == {j \in KnownJobs : queue[j] \in Unended}

(* Every job on record was submitted, every live job is on record, and of  *)
(* one task at most one job on record may still run; while that one waits, *)
(* the task is not completed.                                              *)
JobsKnown ==
  /\ \A j \in KnownJobs : j \in Job /\ queue[j] # "none"
  /\ LiveJobsKnown
  /\ \A j, k \in KnownActive : runs[j] = runs[k] => j = k
  /\ \A j \in KnownActive :
       queue[j] \in Waiting /\ runs[j] \in Task => ~HasCompletedAttempt(runs[j])
  /\ RecordedJobs \cap resumed = {}
  /\ start = "none" => resumed = {} /\ ~inflight /\ \A t \in Task : ~HasCompletedAttempt(t)

(* A call that may complete its task is the attempt the state file points  *)
(* to, and no attempt has completed the task before.                       *)
CallKnown(p, t) ==
  /\ \/ at[p][t] \in {"launch", "payload"}
     \/ at[p][t] \in {"publish", "record"} /\ verdict[p][t] = "completed"
     => attempts[t] = number[p][t]
  /\ \/ at[p][t] \notin {"idle", "record", "returned"}
     \/ at[p][t] \in {"record", "returned"} /\ verdict[p][t] = "failed"
     => ~HasCompletedAttempt(t)

(* The state file of a completed task points to the completed attempt.     *)
StateCurrent(t) ==
  HasCompletedAttempt(t) => attempts[t] \in AttemptNo /\ attempt[t][attempts[t]] = "completed"

CallsKnown == \A t \in Task : StateCurrent(t) /\ \A p \in Proc : CallKnown(p, t)

(* No completion comes out of nowhere.                                     *)
CompletedByJob ==
  \A t \in Task : HasCompletedAttempt(t)' =>
    HasCompletedAttempt(t)
    \/ \E j \in Job : queue[j] = "running" /\ queue'[j] = "running" /\ runs[j] = t

(* The record stays, jobs go on, and those let go are on record.           *)
LEMMA JobsKnownKept ==
  ASSUME BatchInv, JobsKnown, KeepsTerminal, JobsEvolve, CompletedByJob,
         UNCHANGED <<recorded, resumed>>, Released' \subseteq Released \cup KnownJobs,
         start # "none" => start' # "none", inflight' => inflight \/ start # "none"
  PROVE  JobsKnown'
<1>1. KnownJobs' = KnownJobs /\ RecordedJobs' = RecordedJobs
  BY DEF KnownJobs, RecordedJobs
<1>2. \A j \in KnownJobs :
        j \in Job /\ queue[j] # "none" /\ queue'[j] # "none" /\ runs'[j] = runs[j]
  BY DEF JobsKnown, JobsEvolve
<1>3. /\ KnownActive' \subseteq KnownActive
      /\ \A j \in KnownActive : queue'[j] \in Waiting => queue[j] \in Waiting
  BY <1>1, <1>2 DEF KnownActive, JobsEvolve, Unended, Waiting
<1>4. LiveJobsKnown'
  BY <1>1 DEF LiveJobsKnown, JobsKnown, Released, JobsEvolve, Unended, Waiting
<1>5. ASSUME NEW t \in Task, NEW j \in KnownActive', queue'[j] \in Waiting, runs'[j] = t
      PROVE  ~HasCompletedAttempt(t)'
  <2>1. j \in KnownActive /\ queue[j] \in Waiting /\ runs[j] = t
    BY <1>2, <1>3, <1>5 DEF KnownActive
  <2>2. ~HasCompletedAttempt(t)
    BY <2>1 DEF JobsKnown
  <2>3. ASSUME NEW k \in Job, queue[k] = "running", runs[k] = t
        PROVE  FALSE
    <3>1. k \in KnownActive
      BY <2>3 DEF JobsKnown, LiveJobsKnown, KnownActive, Unended
    <3> QED
      BY <2>1, <2>3, <3>1 DEF JobsKnown, Waiting
  <2> QED
    BY <2>2, <2>3 DEF CompletedByJob
<1>6. ASSUME start' = "none"
      PROVE  resumed' = {} /\ ~inflight' /\ \A t \in Task : ~HasCompletedAttempt(t)'
  BY <1>6 DEF JobsKnown, CompletedByJob, BatchInv, StartedBeforeRunning
<1>7. \A j, k \in KnownActive' : runs'[j] = runs'[k] => j = k
  BY <1>2, <1>3 DEF JobsKnown, KnownActive
<1>8. RecordedJobs' \cap resumed' = {}
  BY <1>1 DEF JobsKnown
<1> QED
  BY <1>1, <1>2, <1>4, <1>5, <1>6, <1>7, <1>8 DEF JobsKnown, HasCompletedAttempt

(* A submit.json written before the start.                                 *)
LEMMA JobsKnownRecord ==
  ASSUME BatchInv, UnstartedClean, JobsKnown, start = "none", NEW p \in Submitter,
         recorded' = jobIds[p], UNCHANGED <<attempt, start, queueVars, resumed, inflight>>
  PROVE  JobsKnown'
<1>1. resumed' = {} /\ ~inflight' /\ \A t \in Task : ~HasCompletedAttempt(t)'
  BY DEF JobsKnown, HasCompletedAttempt
<1>2. \A n \in Name : recorded'[n] # NoJob =>
        recorded'[n] \in Job /\ queue'[recorded'[n]] # "none" /\ runs'[recorded'[n]] = n
  BY DEF BatchInv, QueueInv, IdsOK
<1>3. \A j \in KnownJobs' : j \in Job /\ queue'[j] # "none"
  BY <1>1, <1>2 DEF KnownJobs
<1>4. \A j, k \in KnownJobs' : runs'[j] = runs'[k] => j = k
  BY <1>1, <1>2 DEF KnownJobs
<1>5. LiveJobsKnown'
  BY DEF UnstartedClean, Released, LiveJobsKnown
<1> QED
  BY <1>1, <1>3, <1>4, <1>5 DEF JobsKnown, KnownActive

(* What completes is a running job.                                        *)
LEMMA WorkerCompletes ==
  ASSUME BatchInv, NEW j \in Job, NEW t \in Task, RunWorker(j, t)
  PROVE  CompletedByJob
<1>1. /\ WorkerTypeOK /\ j \in Proc /\ WorkerStep(j, t) /\ UNCHANGED queue
  BY QueueAssumption DEF BatchInv, QueueInv, WorkerInv, RunWorker
<1>2. at[j][t] # "idle" /\ \A u \in Task : u # t => attempt'[u] = attempt[u]
  BY <1>1, WorkerStepLocal
<1>3. queue[j] = "running" /\ runs[j] = t
  BY <1>1, <1>2 DEF BatchInv, QueueInv, CallsBelong
<1> QED
  BY <1>1, <1>2, <1>3 DEF CompletedByJob, HasCompletedAttempt

(* Steps are of jobs, or leave the attempts and calls as they are.         *)
LEMMA NextQuiet ==
  ASSUME [Next]_vars
  PROVE  \/ UNCHANGED <<stateVars, attempt, callVars>>
         \/ \E j \in Job : RunJob(j) \/ LoseJob(j)
<1>1. ASSUME NEW p \in Submitter, SubmitterStep(p) \/ KillSubmitter(p)
      PROVE  UNCHANGED <<stateVars, attempt, callVars>>
  BY <1>1
  DEF SubmitterStep, Prepare, WritePending, SubmitTask, AllSubmitted, SubmitPostflight,
      SubmissionFails, RecordHeld, Begin, BeginAccepted, BeginRefused, CommitStart, UnlinkPending,
      ReleaseJobs, Report, CancelSubmitted, Withdraw, CancelPrepared, RecordFailure, Abandon,
      KillSubmitter
<1>2. ASSUME NEW p \in Submitter, NEW policyAsked, IssueSubmit(p, policyAsked)
      PROVE  UNCHANGED <<stateVars, attempt, callVars>>
  BY <1>2 DEF IssueSubmit, CheckPrepare
<1>3. CASE StrayRuns \/ Rest \/ UNCHANGED vars
  BY <1>3 DEF StrayRuns, StrayOutput, Rest, vars
<1> QED
  BY <1>1, <1>2, <1>3 DEF Next

(* A job that does something runs, or is dispatched.                       *)
LEMMA JobLive ==
  ASSUME BatchInv, NEW j \in Job, RunJob(j) \/ LoseJob(j)
  PROVE  /\ queue[j] \in {"queued", "running"}
         /\ CompletedByJob
<1>1. WorkerTypeOK /\ j \in Proc
  BY QueueAssumption DEF BatchInv, QueueInv, WorkerInv
<1>2. ASSUME NEW t \in Task, RunWorker(j, t)
      PROVE  queue[j] \in {"queued", "running"} /\ CompletedByJob
  <2>1. at[j][t] # "idle"
    BY <1>1, <1>2, WorkerStepLocal DEF RunWorker
  <2> QED
    BY <1>1, <1>2, <2>1, WorkerCompletes DEF BatchInv, QueueInv, CallsBelong
<1>3. ASSUME UNCHANGED attempt
      PROVE  CompletedByJob
  BY <1>3 DEF CompletedByJob, HasCompletedAttempt
<1>4. ASSUME NEW t \in Task,
             DispatchTask(j, t) \/ RetryTask(j, t) \/ TaskFails(j, t) \/ TaskSucceeds(j, t)
      PROVE  queue[j] \in {"queued", "running"} /\ UNCHANGED attempt
  BY <1>4 DEF DispatchTask, RetryTask, TaskFails, TaskSucceeds, Dispatched, EndJob
<1>5. CASE DispatchPostflight(j) \/ PostflightSucceeds(j) \/ PostflightFails(j) \/ LoseJob(j)
  BY <1>3, <1>5
  DEF DispatchPostflight, PostflightSucceeds, PostflightFails, Dispatched, EndJob, LoseJob,
      EvictJob, KillCalls
<1> QED
  BY <1>2, <1>3, <1>4, <1>5 DEF RunJob, JobStep

----
(* The calls of the jobs                                                   *)

(* Of one task only one call is under way.                                 *)
LEMMA OneCall ==
  ASSUME BatchInv, JobsKnown, NEW p \in Proc, NEW q \in Proc, NEW t \in Task,
         at[p][t] # "idle", at[q][t] # "idle"
  PROVE  p = q
<1>1. p \in KnownActive /\ q \in KnownActive /\ runs[p] = t /\ runs[q] = t
  BY DEF BatchInv, QueueInv, CallsBelong, JobsKnown, LiveJobsKnown, KnownActive, Unended
<1> QED
  BY <1>1 DEF JobsKnown

(* Calls that go away, and nothing else.                                   *)
LEMMA CallsKnownKept ==
  ASSUME CallsKnown, UNCHANGED <<attempts, attempt>>,
         \A p \in Proc : \A t \in Task :
           \/ at'[p][t] = "idle"
           \/ at'[p][t] = at[p][t] /\ number'[p][t] = number[p][t] /\ verdict'[p][t] = verdict[p][t]
  PROVE  CallsKnown'
  BY DEF CallsKnown, CallKnown, StateCurrent, HasCompletedAttempt

(* A step of run_task, of the one call under way for the task.             *)
LEMMA WorkerCalls ==
  ASSUME BatchInv, JobsKnown, CallsKnown, NEW p \in Proc, NEW t \in Task, WorkerStep(p, t)
  PROVE  CallsKnown'
<1>1. /\ WorkerTypeOK /\ CallOK(p, t) /\ CallKnown(p, t) /\ StateCurrent(t) /\ at[p][t] # "idle"
      /\ \A q \in Proc : \A u \in Task : q # p \/ u # t => at'[q][u] = at[q][u]
      /\ \A u \in Task : u # t => attempt'[u] = attempt[u]
  BY WorkerStepLocal DEF BatchInv, QueueInv, WorkerInv, CallConsistent, CallsKnown
<1>2. ASSUME NEW q \in Proc, NEW u \in Task, q # p \/ u # t
      PROVE  number'[q][u] = number[q][u] /\ verdict'[q][u] = verdict[q][u]
  BY <1>1, <1>2
  DEF WorkerTypeOK, WorkerStep, ChooseNumber, MakeAttemptDir, AttemptDirExists, AcceptLaunch,
      RejectLaunch, AnnounceAttempt, AnnounceState, Launch, LaunchFails, PayloadExits,
      PublishAttempt, RecordState
<1>3. ASSUME NEW u \in Task, u # t
      PROVE  attempts'[u] = attempts[u]
  BY <1>1, <1>3
  DEF WorkerTypeOK, DiskTypeOK, WriteTaskState, WorkerStep, ChooseNumber, MakeAttemptDir,
      AttemptDirExists, AcceptLaunch, RejectLaunch, AnnounceAttempt, AnnounceState, Launch,
      LaunchFails, PayloadExits, PublishAttempt, RecordState
<1>4. ASSUME NEW u \in Task, u # t
      PROVE  StateCurrent(u)' /\ \A q \in Proc : CallKnown(q, u)'
  BY <1>1, <1>2, <1>3, <1>4 DEF CallsKnown, CallKnown, StateCurrent, HasCompletedAttempt
<1>5. ASSUME NEW q \in Proc, q # p
      PROVE  CallKnown(q, t)'
  <2>1. at'[q][t] = "idle"
    BY <1>1, <1>5, OneCall
  <2> QED
    BY <2>1 DEF CallKnown
<1>6. ASSUME at[p][t] \notin {"idle", "record", "returned"}, UNCHANGED <<attempts, attempt>>,
             \/ at'[p][t] \in {"mkdir", "raised", "announce"}
             \/ at'[p][t] = "publish" /\ verdict'[p][t] = "failed"
             \/ /\ at[p][t] \in {"launch", "payload"} /\ at'[p][t] \in {"payload", "publish"}
                /\ number'[p][t] = number[p][t]
      PROVE  StateCurrent(t)' /\ CallKnown(p, t)'
  BY <1>1, <1>6 DEF CallKnown, StateCurrent, HasCompletedAttempt
<1>7. CASE ChooseNumber(p, t) \/ AttemptDirExists(p, t) \/ AcceptLaunch(p, t) \/ RejectLaunch(p, t)
           \/ Launch(p, t) \/ LaunchFails(p, t) \/ PayloadExits(p, t)
  <2>1. StateCurrent(t)' /\ CallKnown(p, t)'
    BY <1>1, <1>6, <1>7
    DEF WorkerTypeOK, Goto, ChooseNumber, AttemptDirExists, AcceptLaunch, RejectLaunch, Launch,
        LaunchFails, PayloadExits
  <2> QED
    BY <1>4, <1>5, <2>1 DEF CallsKnown
<1>8. CASE MakeAttemptDir(p, t) \/ AnnounceAttempt(p, t)
  <2>1. /\ at[p][t] \in {"mkdir", "announce"} /\ at'[p][t] \in {"inspect", "running"}
        /\ number[p][t] \in AttemptNo
        /\ \E v \in {"made", "running"} : attempt' = [attempt EXCEPT ![t][number[p][t]] = v]
    BY <1>1, <1>8
    DEF MakeAttemptDir, AnnounceAttempt, Goto, WorkerTypeOK, CallOK, OwnsAttempt, OwnerPC
  <2>2. ~HasCompletedAttempt(t)'
    BY <1>1, <2>1 DEF CallKnown, HasCompletedAttempt, WorkerTypeOK, DiskTypeOK
  <2>3. StateCurrent(t)' /\ CallKnown(p, t)'
    BY <2>1, <2>2 DEF StateCurrent, CallKnown
  <2> QED
    BY <1>4, <1>5, <2>3 DEF CallsKnown
<1>9. CASE AnnounceState(p, t)
  <2>1. /\ at[p][t] = "running" /\ at'[p][t] = "launch" /\ attempts'[t] = number'[p][t]
        /\ UNCHANGED attempt
    BY <1>1, <1>9 DEF AnnounceState, Goto, WriteTaskState, WorkerTypeOK, DiskTypeOK
  <2>2. StateCurrent(t)' /\ CallKnown(p, t)'
    BY <1>1, <2>1 DEF StateCurrent, CallKnown, HasCompletedAttempt
  <2> QED
    BY <1>4, <1>5, <2>2 DEF CallsKnown
<1>10. CASE PublishAttempt(p, t)
  <2>1. /\ at[p][t] = "publish" /\ at'[p][t] = "record" /\ UNCHANGED <<attempts, number, verdict>>
        /\ number[p][t] \in AttemptNo /\ verdict[p][t] \in Terminal
        /\ attempt' = [attempt EXCEPT ![t][number[p][t]] = verdict[p][t]]
    BY <1>1, <1>10
    DEF PublishAttempt, Goto, WorkerTypeOK, CallOK, OwnsAttempt, OwnerPC, stateVars
  <2>2. /\ attempt'[t][number[p][t]] = verdict[p][t]
        /\ verdict[p][t] = "failed" => ~HasCompletedAttempt(t)'
    BY <1>1, <2>1 DEF CallKnown, HasCompletedAttempt, WorkerTypeOK, DiskTypeOK
  <2>3. StateCurrent(t)' /\ CallKnown(p, t)'
    BY <1>1, <2>1, <2>2 DEF StateCurrent, CallKnown, Terminal
  <2> QED
    BY <1>4, <1>5, <2>3 DEF CallsKnown
<1>11. CASE RecordState(p, t)
  <2>1. /\ at[p][t] = "record" /\ at'[p][t] = "returned" /\ UNCHANGED <<attempt, number, verdict>>
        /\ number[p][t] \in AttemptNo /\ verdict[p][t] \in Terminal
        /\ attempts'[t] = number[p][t] /\ attempt[t][number[p][t]] = verdict[p][t]
    BY <1>1, <1>11
    DEF RecordState, WriteTaskState, Goto, WorkerTypeOK, DiskTypeOK, CallOK, OwnsAttempt, OwnerPC
  <2>2. StateCurrent(t)' /\ CallKnown(p, t)'
    BY <1>1, <2>1 DEF StateCurrent, CallKnown, Terminal, HasCompletedAttempt
  <2> QED
    BY <1>4, <1>5, <2>2 DEF CallsKnown
<1> QED
  BY <1>7, <1>8, <1>9, <1>10, <1>11 DEF WorkerStep

(* A step of a job.                                                        *)
LEMMA JobCalls ==
  ASSUME BatchInv, JobsKnown, CallsKnown, NEW j \in Job, RunJob(j) \/ LoseJob(j)
  PROVE  CallsKnown'
<1>1. WorkerTypeOK /\ j \in Proc
  BY QueueAssumption DEF BatchInv, QueueInv, WorkerInv
<1>2. ASSUME NEW t \in Task, RunWorker(j, t)
      PROVE  CallsKnown'
  BY <1>1, <1>2, WorkerCalls DEF RunWorker
<1>3. ASSUME NEW T, ForgetCalls(j, T), UNCHANGED <<stateVars, attempt>>
      PROVE  CallsKnown'
  BY <1>1, <1>3, CallsKnownKept DEF ForgetCalls, WorkerTypeOK
<1>4. ASSUME NEW t \in Task, TaskFails(j, t) \/ TaskSucceeds(j, t)
      PROVE  CallsKnown'
  BY <1>3, <1>4 DEF TaskFails, TaskSucceeds
<1>5. CASE LoseJob(j)
  BY <1>3, <1>5 DEF LoseJob, EvictJob, KillCalls
<1>6. CASE DispatchPostflight(j) \/ PostflightSucceeds(j) \/ PostflightFails(j)
  BY <1>6, CallsKnownKept DEF DispatchPostflight, PostflightSucceeds, PostflightFails
<1>7. ASSUME NEW t \in Task, DispatchTask(j, t) \/ RetryTask(j, t)
      PROVE  CallsKnown'
  <2>1. ~HasCompletedAttempt(t)
    <3>1. CASE DispatchTask(j, t)
      <4>1. queue[j] = "queued" /\ runs[j] = t
        BY <3>1 DEF DispatchTask, Dispatched
      <4>2. j \in KnownActive
        BY <4>1 DEF JobsKnown, LiveJobsKnown, KnownActive, Unended, Waiting
      <4> QED
        BY <4>1, <4>2 DEF JobsKnown, Waiting
    <3>2. CASE RetryTask(j, t)
      BY <1>1, <3>2 DEF RetryTask, CallFailed, CallsKnown, CallKnown
    <3> QED
      BY <1>7, <3>1, <3>2
  <2>2. /\ UNCHANGED <<stateVars, attempt, number, verdict>>
        /\ \A q \in Proc : \A u \in Task :
             at'[q][u] = IF q = j /\ u = t THEN "choose" ELSE at[q][u]
    BY <1>1, <1>7 DEF DispatchTask, RetryTask, Enter, Goto, WorkerTypeOK
  <2> QED
    BY <2>1, <2>2 DEF CallsKnown, CallKnown, StateCurrent, HasCompletedAttempt
<1> QED
  BY <1>2, <1>4, <1>5, <1>6, <1>7 DEF RunJob, JobStep
----
(* The rounds                                                              *)

(* From the look at an empty queue to the release of its own jobs.         *)
Settled(p) ==
  \/ rctl[p] = "plan" /\ Active(snap[p]) = {}
  \/ rctl[p] \in {"confirm", "replan", "reconcile", "submit", "acknowledge", "release"}

NothingRuns == \A j \in Job : queue[j] \notin {"queued", "running"}

(* Meanwhile nothing runs and nothing will but the jobs of the round, the  *)
(* selected tasks are not completed, and the state files are those the     *)
(* plan was made from.                                                     *)
RoundSettled(p) ==
  /\ Settled(p) => NothingRuns /\ KnownActive \subseteq {newJobs[p][t] : t \in Task}
  /\ rctl[p] \in {"confirm", "reconcile", "submit", "acknowledge", "release"} =>
       \A t \in Selected(p) : ~HasCompletedAttempt(t)
  /\ rctl[p] \in {"confirm", "reconcile"} => \A t \in Task : seen[p][t].attempts = attempts[t]
  /\ rctl[p] = "acknowledge" => answered[p] \notin KnownJobs

SoloInv == JobsKnown /\ CallsKnown /\ \A p \in Resumer : RoundSettled(p)

(* The jobs of a round are on record.                                      *)
LEMMA RoundJobsResumed ==
  ASSUME RoundInv, NEW p \in Resumer, NEW t \in Task, newJobs[p][t] \in Job
  PROVE  newJobs[p][t] \in resumed /\ runs[newJobs[p][t]] = t
  BY QueueAssumption DEF RoundInv, RoundAt, RoundJobs, NoJob

(* A submitter beside a settled round finds nothing to let go.             *)
LEMMA RoundsKept ==
  ASSUME RoundInv, SoloInv, JobsEvolve, Released' \subseteq Released \cup RecordedJobs,
         UNCHANGED <<resumeVars, queryVars, roundJobVars, recorded, attempt, attempts>>
  PROVE  \A p \in Resumer : RoundSettled(p)'
<1> USE DEF resumeVars, roundVars, queryVars, roundJobVars
<1> SUFFICES ASSUME NEW p \in Resumer PROVE RoundSettled(p)'
  OBVIOUS
<1>1. RoundSettled(p) /\ JobsKnown /\ KnownJobs' = KnownJobs
  BY DEF SoloInv, KnownJobs
<1>2. Settled(p)' <=> Settled(p)
  BY DEF Settled, Active
<1>3. KnownActive' \subseteq KnownActive
  BY <1>1 DEF JobsKnown, KnownActive, JobsEvolve
<1>4. ASSUME Settled(p), NEW j \in Job, queue'[j] \in {"queued", "running"}
      PROVE  FALSE
  <2>1. queue[j] = "held" /\ j \in RecordedJobs
    BY <1>1, <1>4 DEF RoundSettled, NothingRuns, JobsEvolve, Unended, Waiting, Released
  <2>2. j \in KnownActive
    BY <2>1 DEF KnownActive, KnownJobs, RecordedJobs, Unended, Waiting
  <2>3. j \in resumed
    BY <1>1, <1>4, <2>2, RoundJobsResumed DEF RoundSettled
  <2> QED
    BY <1>1, <2>1, <2>3 DEF JobsKnown
<1>5. UNCHANGED <<rctl, newJobs, plan, seen, answered>>
  OBVIOUS
<1> QED
  BY <1>1, <1>2, <1>3, <1>4, <1>5
  DEF RoundSettled, NothingRuns, Selected, SelectedIn, HasCompletedAttempt

(* Submissions and jobs beside any number of resumes.                      *)
LEMMA NextSolo ==
  ASSUME BatchInv, RoundInv, UnstartedClean, Lone, ~overlap, SoloInv, [Next]_vars,
         UNCHANGED <<resumeVars, queryVars, roundJobVars>>
  PROVE  SoloInv'
<1>1. JobsKnown /\ CallsKnown /\ UNCHANGED <<resumed, inflight, rctl, snap>>
  BY DEF SoloInv, resumeVars, queryVars, roundJobVars
<1>2. KeepsTerminal /\ JobsEvolve /\ (start # "none" => start' # "none")
  BY NextKeepsAttempts, NextEvolves
<1>3. RecordedJobs \subseteq KnownJobs
  BY DEF RecordedJobs, KnownJobs
<1>4. ASSUME UNCHANGED <<stateVars, attempt, callVars>>
      PROVE  SoloInv'
  <2>1. CompletedByJob /\ CallsKnown'
    BY <1>1, <1>4, CallsKnownKept DEF CompletedByJob, HasCompletedAttempt
  <2>2. CASE recorded' = recorded /\ Released' \subseteq Released \cup RecordedJobs
    <3>1. JobsKnown'
      BY <1>1, <1>2, <1>3, <2>1, <2>2, JobsKnownKept
    <3>2. \A p \in Resumer : RoundSettled(p)'
      BY <1>2, <1>4, <2>2, RoundsKept
    <3> QED
      BY <2>1, <3>1, <3>2 DEF SoloInv
  <2>3. CASE start = "none" /\ UNCHANGED <<diskVars, queueVars>>
             /\ \E p \in Submitter : recorded' = jobIds[p]
    <3>1. JobsKnown'
      BY <1>1, <2>3, JobsKnownRecord
    <3>2. \A p \in Resumer : rctl'[p] = "idle"
      BY <1>1, <2>3 DEF RoundInv, RoundAt
    <3>3. \A p \in Resumer : RoundSettled(p)'
      BY <3>2 DEF RoundSettled, Settled
    <3> QED
      BY <2>1, <3>1, <3>3 DEF SoloInv
  <2> QED
    BY <2>2, <2>3, NextRecords
<1>5. ASSUME NEW j \in Job, RunJob(j) \/ LoseJob(j)
      PROVE  SoloInv'
  <2>1. CompletedByJob /\ CallsKnown'
    BY <1>1, <1>5, JobLive, JobCalls
  <2>2. recorded' = recorded /\ Released' \subseteq Released
    BY <1>5, JobsRelease DEF RunJob, LoseJob
  <2>3. JobsKnown'
    BY <1>1, <1>2, <2>1, <2>2, JobsKnownKept
  <2>4. ASSUME NEW p \in Resumer
        PROVE  ~Settled(p)' /\ RoundSettled(p)'
    <3>1. ~Settled(p)
      BY <1>5, JobLive DEF SoloInv, RoundSettled, NothingRuns
    <3>2. ~Settled(p)'
      BY <1>1, <3>1 DEF Settled, Active
    <3> QED
      BY <3>2 DEF RoundSettled, Settled
  <2> QED
    BY <2>1, <2>3, <2>4 DEF SoloInv
<1> QED
  BY <1>4, <1>5, NextQuiet
----
(* A resume, step by step                                                  *)

(* The queue as a resume sees it.                                          *)
LEMMA SeenActive ==
  ASSUME JobsKnown
  PROVE  Active(CurrentSnap) = KnownActive
<1>1. ASSUME NEW j \in Job
      PROVE  JobSeen(j) # "none" <=> j \in KnownActive
  BY <1>1 DEF JobSeen, KnownActive, Unended, Waiting
<1> QED
  BY <1>1 DEF Active, CurrentSnap, JobsKnown, KnownActive

(* When it sees none, none runs.                                           *)
LEMMA QueueClear ==
  ASSUME JobsKnown, Active(CurrentSnap) = {}
  PROVE  NothingRuns /\ KnownActive = {}
<1>1. KnownActive = {}
  BY SeenActive
<1> QED
  BY <1>1 DEF NothingRuns, JobsKnown, LiveJobsKnown, KnownActive, Unended, Waiting

(* One resume goes on, the others are not there.                           *)
LEMMA SoloStep ==
  ASSUME RoundInv, NEW p \in Resumer, rctl[p] # "idle" \/ lock = Nobody,
         \A q \in Resumer : q # p => rctl'[q] = rctl[q],
         JobsKnown', CallsKnown', RoundSettled(p)'
  PROVE  SoloInv'
<1>1. \A q \in Resumer : q # p => rctl'[q] = "idle"
  BY ResumeAssumption DEF RoundInv, RoundAt
<1> QED
  BY <1>1 DEF SoloInv, RoundSettled, Settled

(* It does so without touching jobs, attempts and records.                 *)
LEMMA SoloLook ==
  ASSUME RoundInv, SoloInv, NEW p \in Resumer, rctl[p] # "idle" \/ lock = Nobody,
         \A q \in Resumer : q # p => rctl'[q] = rctl[q], RoundSettled(p)',
         UNCHANGED <<attempts, attempt, callVars, start, queueVars, recorded, resumed, inflight>>
  PROVE  SoloInv'
<1>1. JobsKnown'
  BY DEF SoloInv, JobsKnown, LiveJobsKnown, KnownActive, KnownJobs, RecordedJobs,
         HasCompletedAttempt
<1>2. CallsKnown'
  BY CallsKnownKept DEF SoloInv
<1> QED
  BY <1>1, <1>2, SoloStep

(* It looks at the queue, or ends its submission.                          *)
LEMMA LooksSolo ==
  ASSUME RoundInv, SoloInv, NEW p \in Resumer,
         Snapshot(p) \/ Confirm(p) \/ Recheck(p) \/ AfterCancel(p) \/ SubmissionEnds(p)
  PROVE  SoloInv'
<1>1. /\ UNCHANGED <<stateVars, attempt, callVars, start, queueVars, recorded, resumed, inflight,
                     plan, seen, newJobs, answered>>
      /\ snap' \in {snap, [snap EXCEPT ![p] = CurrentSnap]}
  BY DEF Snapshot, Confirm, Recheck, AfterCancel, SubmissionEnds, lookFrame, submitFrame, vars,
         queryVars, roundVars, roundJobVars
<1>2. /\ RoundSettled(p) /\ JobsKnown /\ rctl \in [Resumer -> ResumeControl]
      /\ snap \in [Resumer -> [Job -> JobView]]
  BY DEF SoloInv, RoundInv, RoundTypeOK, ResumeTypeOK
<1>3. PICK to \in ResumeControl : /\ rctl' = [rctl EXCEPT ![p] = to]
        /\ \/ to = "unlock"
           \/ rctl[p] = "snapshot" /\ to = "plan" /\ snap' = [snap EXCEPT ![p] = CurrentSnap]
           \/ rctl[p] = "confirm" /\ to = "reconcile"
           \/ rctl[p] = "recheck" /\ to = "cancel"
           \/ rctl[p] = "after" /\ to = "replan" /\ Active(CurrentSnap) = {}
           \/ rctl[p] = "submit" /\ to = "release"
        /\ rctl[p] # "idle"
  BY DEF Snapshot, Confirm, Recheck, AfterCancel, SubmissionEnds, GraphSubmitted, GoOn,
         ResumeControl
<1>4. rctl'[p] = to /\ \A q \in Resumer : q # p => rctl'[q] = rctl[q]
  BY <1>2, <1>3
<1>5. KnownActive' = KnownActive /\ Selected(p)' = Selected(p) /\ (NothingRuns' <=> NothingRuns)
  BY <1>1 DEF KnownActive, KnownJobs, Selected, SelectedIn, NothingRuns
<1>6. Settled(p)' => NothingRuns' /\ KnownActive' \subseteq {newJobs'[p][t] : t \in Task}
  <2>1. CASE to = "plan"
    <3>1. Settled(p)' => Active(CurrentSnap) = {}
      BY <1>2, <1>3, <1>4, <2>1 DEF Settled
    <3> QED
      BY <1>2, <1>5, <3>1, QueueClear
  <2>2. CASE to = "replan"
    BY <1>2, <1>3, <1>5, <2>2, QueueClear
  <2>3. CASE to \in {"reconcile", "release"}
    BY <1>1, <1>2, <1>3, <1>5, <2>3 DEF RoundSettled, Settled
  <2> QED
    BY <1>3, <1>4, <2>1, <2>2, <2>3 DEF Settled
<1>7. RoundSettled(p)'
  BY <1>1, <1>2, <1>3, <1>4, <1>5, <1>6 DEF RoundSettled, HasCompletedAttempt
<1> QED
  BY <1>1, <1>3, <1>4, <1>7, SoloLook

(* What completed is planned as completed.                                 *)
LEMMA PlanComplete ==
  ASSUME CallsKnown, NEW nodes, NEW t \in Task, nodes[t] = "none", HasCompletedAttempt(t)
  PROVE  PlanFrom(nodes)[t] = "completed"
  BY DEF CallsKnown, StateCurrent, PlanFrom, Effective, Evidence, Terminal

(* It plans, with the jobs of no round in the queue.                       *)
LEMMA PlanSolo ==
  ASSUME RoundInv, SoloInv, NEW p \in Resumer, PlanRound(p) \/ Replan(p)
  PROVE  SoloInv'
<1>1. UNCHANGED <<stateVars, attempt, callVars, start, queueVars, recorded, resumed, inflight,
                  snap, newJobs, answered>>
  BY DEF PlanRound, Replan, planFrame, queryVars, roundJobVars
<1>2. /\ RoundSettled(p) /\ CallsKnown /\ rctl \in [Resumer -> ResumeControl]
      /\ rctl[p] \in {"plan", "replan"} /\ RoundTypeOK
  BY DEF SoloInv, RoundInv, RoundTypeOK, ResumeTypeOK, PlanRound, Replan, GoOn
<1>3. KnownActive' = KnownActive /\ (NothingRuns' <=> NothingRuns)
  BY <1>1 DEF KnownActive, KnownJobs, NothingRuns
<1>4. ASSUME NEW nodes, \A t \in Task : nodes[t] = "none", Settled(p),
             NEW to \in {"confirm", "reconcile"}, rctl' = [rctl EXCEPT ![p] = to],
             plan' = [plan EXCEPT ![p] = PlanFrom(nodes)],
             seen' = [seen EXCEPT ![p] =
                        [t \in Task |-> [state |-> status[t], attempts |-> attempts[t]]]]
      PROVE  RoundSettled(p)'
  <2>1. /\ rctl'[p] = to /\ plan'[p] = PlanFrom(nodes)
        /\ \A t \in Task : seen'[p][t].attempts = attempts[t]
    BY <1>2, <1>4 DEF RoundTypeOK, ResumeTypeOK
  <2>2. \A t \in Selected(p)' : ~HasCompletedAttempt(t)'
    BY <1>1, <1>2, <1>4, <2>1, PlanComplete DEF Selected, SelectedIn, HasCompletedAttempt
  <2> QED
    BY <1>1, <1>2, <1>3, <1>4, <2>1, <2>2 DEF RoundSettled
<1>5. ASSUME NEW to \in {"recheck", "unlock"}, rctl' = [rctl EXCEPT ![p] = to]
      PROVE  RoundSettled(p)'
  BY <1>2, <1>5 DEF RoundSettled, Settled
<1>6. ASSUME PlanRound(p)
      PROVE  RoundSettled(p)'
  <2>1. CASE Active(snap[p]) = {}
    <3>1. \A t \in Task : NodesOf(snap[p])[t] = "none"
      BY <2>1 DEF NodesOf
    <3>2. Settled(p)
      BY <1>6, <2>1 DEF PlanRound, Settled
    <3> QED
      BY <1>4, <1>5, <1>6, <2>1, <3>1, <3>2 DEF PlanRound, MakePlan, GoOn
  <2>2. CASE Active(snap[p]) # {}
    BY <1>5, <1>6, <2>2 DEF PlanRound, MakePlan, GoOn
  <2> QED
    BY <2>1, <2>2
<1>7. ASSUME Replan(p)
      PROVE  RoundSettled(p)'
  <2>1. Settled(p) /\ \A t \in Task : [u \in Task |-> "none"][t] = "none"
    BY <1>7 DEF Replan, GoOn, Settled
  <2> QED
    BY <1>4, <1>5, <1>7, <2>1 DEF Replan, GoOn
<1>8. \A q \in Resumer : q # p => rctl'[q] = rctl[q]
  BY <1>2 DEF PlanRound, Replan, MakePlan, GoOn
<1>9. RoundSettled(p)'
  BY <1>6, <1>7
<1> QED
  BY <1>1, <1>2, <1>8, <1>9, SoloLook

(* Waiting jobs are cancelled, and with qdel those that run by now.        *)
LEMMA CancelSolo ==
  ASSUME BatchInv, RoundInv, SoloInv, NEW p \in Resumer, CancelPending(p)
  PROVE  SoloInv'
<1>1. PICK S \in SUBSET Active(snap[p]) : CancelJobs(S)
  BY DEF CancelPending
<1>2. UNCHANGED <<attempts, attempt, start, recorded, resumed, inflight>>
  BY DEF CancelPending, roundJobVars
<1>3. JobsEvolve
  BY CancelPendingInv
<1>4. CompletedByJob /\ KeepsTerminal
  BY <1>2 DEF CompletedByJob, KeepsTerminal, HasCompletedAttempt
<1>5. Released' \subseteq Released
  BY <1>1 DEF CancelJobs, Released
<1>6. JobsKnown'
  BY <1>2, <1>3, <1>4, <1>5, JobsKnownKept DEF SoloInv
<1>7. CallsKnown'
  <2>1. \A q \in Proc : \A t \in Task :
          \/ at'[q][t] = "idle"
          \/ at'[q][t] = at[q][t] /\ number'[q][t] = number[q][t] /\ verdict'[q][t] = verdict[q][t]
    BY <1>1 DEF CancelJobs
  <2> QED
    BY <1>2, <2>1, CallsKnownKept DEF SoloInv
<1>8. /\ rctl[p] = "cancel" /\ rctl'[p] \in {"after", "unlock"}
      /\ \A q \in Resumer : q # p => rctl'[q] = rctl[q]
  BY DEF CancelPending, GoOn, RoundInv, RoundTypeOK, ResumeTypeOK
<1>9. RoundSettled(p)'
  BY <1>8 DEF RoundSettled, Settled
<1> QED
  BY <1>6, <1>7, <1>8, <1>9, SoloStep

(* A state file is set right: its count is what it was.                    *)
LEMMA ReconcileSolo ==
  ASSUME BatchInv, RoundInv, SoloInv, NEW p \in Resumer, ReconcileStates(p)
  PROVE  SoloInv'
<1>1. /\ rctl[p] = "reconcile" /\ RoundSettled(p) /\ RoundTypeOK
      /\ UNCHANGED <<attempt, callVars, start, queueVars, recorded, plan, snap, newJobs, answered,
                     resumed, inflight>>
  BY DEF ReconcileStates, ReconcileTask, Reconciled, GoOn, SoloInv, RoundInv, queryVars,
         roundJobVars
<1>2. /\ UNCHANGED attempts
      /\ \A t \in Task : seen'[p][t].attempts = seen[p][t].attempts
  <2>1. CASE UNCHANGED <<stateVars, seen>>
    BY <2>1
  <2>2. CASE ReconcileTask(p)
    <3>1. PICK t \in Unreconciled(p) :
            /\ attempts' = [attempts EXCEPT ![t] = seen[p][t].attempts]
            /\ seen' = [seen EXCEPT ![p][t].state = plan[p][t]]
      BY <2>2 DEF ReconcileTask, WriteTaskState
    <3>2. seen[p][t].attempts = attempts[t]
      BY <1>1, <3>1 DEF RoundSettled, Unreconciled
    <3>3. /\ attempts \in [Task -> 0 .. MaxAttempt]
          /\ seen \in [Resumer -> [Task -> [state : TaskStatus, attempts : 0 .. MaxAttempt]]]
      BY <1>1
      DEF BatchInv, QueueInv, WorkerInv, WorkerTypeOK, DiskTypeOK, RoundTypeOK, ResumeTypeOK
    <3> QED
      BY <3>1, <3>2, <3>3
  <2> QED
    BY <2>1, <2>2 DEF ReconcileStates
<1>3. rctl'[p] \in {"reconcile", "submit"} /\ \A q \in Resumer : q # p => rctl'[q] = rctl[q]
  BY <1>1 DEF ReconcileStates, ReconcileTask, Reconciled, GoOn, RoundTypeOK, ResumeTypeOK
<1>4. /\ KnownActive' = KnownActive /\ Selected(p)' = Selected(p) /\ NothingRuns' = NothingRuns
      /\ Settled(p)
  BY <1>1 DEF KnownActive, KnownJobs, Selected, SelectedIn, NothingRuns, Settled
<1>5. RoundSettled(p)'
  BY <1>1, <1>2, <1>3, <1>4 DEF RoundSettled, HasCompletedAttempt
<1> QED
  BY <1>1, <1>2, <1>3, <1>5, SoloLook

(* A job of the round is submitted, and nobody else knows it yet.          *)
LEMMA SubmitSolo ==
  ASSUME BatchInv, RoundInv, SoloInv, NEW p \in Resumer, SubmitReplacement(p)
  PROVE  SoloInv'
<1>1. PICK t \in ReadyTasks(p), j \in Job :
        /\ \/ /\ SubmitHeld(j, t, NewDependencies(p, t))
              /\ rctl' = [rctl EXCEPT ![p] = "acknowledge"]
              /\ answered' = [answered EXCEPT ![p] = j]
           \/ /\ rctl' = [rctl EXCEPT ![p] = "unlock"]
              /\ SubmitHeld(j, t, NewDependencies(p, t)) \/ UNCHANGED queueVars
        /\ rctl[p] = "submit"
        /\ UNCHANGED <<newJobs, resumed, submitFrame>>
  BY DEF SubmitReplacement, GoOn
<1>2. UNCHANGED <<attempts, attempt, callVars, start, recorded, plan, seen>>
  BY <1>1 DEF submitFrame, roundVars
<1>3. /\ RoundSettled(p) /\ RoundTypeOK /\ RoundAt(p) /\ JobsKnown /\ start # "none"
      /\ queue \in [Job -> JobState] /\ runs \in [Job -> Name]
  BY <1>1 DEF SoloInv, RoundInv, RoundAt, BatchInv, QueueInv, JobsOK
<1>4. ASSUME SubmitHeld(j, t, NewDependencies(p, t))
      PROVE  /\ JobsEvolve /\ queue[j] = "none" /\ queue' = [queue EXCEPT ![j] = "held"]
             /\ Released' \subseteq Released
  <2>1. JobsEvolve
    BY <1>3, <1>4, SubmitHeldEvolves
  <2> QED
    BY <1>3, <1>4, <2>1 DEF SubmitHeld, Unused, Released
<1>5. ASSUME UNCHANGED queueVars
      PROVE  JobsEvolve /\ Released' \subseteq Released
  BY <1>5 DEF JobsEvolve, Unended, Waiting, Released
<1>6. CompletedByJob /\ KeepsTerminal
  BY <1>2 DEF CompletedByJob, KeepsTerminal, HasCompletedAttempt
<1>7. JobsKnown'
  BY <1>1, <1>2, <1>3, <1>4, <1>5, <1>6, JobsKnownKept
<1>8. CallsKnown'
  BY <1>2, CallsKnownKept DEF SoloInv
<1>9. \A q \in Resumer : q # p => rctl'[q] = rctl[q]
  BY <1>1, <1>3 DEF RoundTypeOK, ResumeTypeOK
<1>10. CASE rctl' = [rctl EXCEPT ![p] = "unlock"]
  <2>1. RoundSettled(p)'
    BY <1>3, <1>10 DEF RoundTypeOK, ResumeTypeOK, RoundSettled, Settled
  <2> QED
    BY <1>1, <1>7, <1>8, <1>9, <2>1, SoloStep
<1>11. CASE /\ SubmitHeld(j, t, NewDependencies(p, t)) /\ rctl' = [rctl EXCEPT ![p] = "acknowledge"]
            /\ answered' = [answered EXCEPT ![p] = j]
  <2>1. rctl'[p] = "acknowledge" /\ answered'[p] = j /\ KnownJobs' = KnownJobs
    BY <1>1, <1>2, <1>3, <1>11 DEF RoundTypeOK, ResumeTypeOK, KnownJobs
  <2>2. j \notin KnownJobs /\ KnownActive' = KnownActive
    BY <1>3, <1>4, <1>11, <2>1 DEF JobsKnown, KnownActive
  <2>3. NothingRuns' /\ KnownActive \subseteq {newJobs[p][u] : u \in Task}
    BY <1>1, <1>3, <1>4, <1>11 DEF RoundSettled, Settled, NothingRuns
  <2>4. Selected(p)' = Selected(p) /\ \A u \in Selected(p) : ~HasCompletedAttempt(u)
    BY <1>1, <1>2, <1>3 DEF RoundSettled, Selected, SelectedIn
  <2>5. RoundSettled(p)'
    BY <1>1, <1>2, <2>1, <2>2, <2>3, <2>4 DEF RoundSettled, HasCompletedAttempt
  <2> QED
    BY <1>1, <1>7, <1>8, <1>9, <2>5, SoloStep
<1> QED
  BY <1>1, <1>10, <1>11

(* It is put on record, as the only one of its task that may run.          *)
LEMMA AcknowledgeSolo ==
  ASSUME BatchInv, RoundInv, SoloInv, NEW p \in Resumer, Acknowledge(p)
  PROVE  SoloInv'
<1> DEFINE j == answered[p]
<1>1. /\ rctl[p] = "acknowledge" /\ rctl' = [rctl EXCEPT ![p] = "submit"]
      /\ newJobs' = [newJobs EXCEPT ![p][runs[j]] = j] /\ resumed' = resumed \cup {j}
      /\ inflight' = FALSE
      /\ UNCHANGED <<attempts, attempt, callVars, start, queueVars, recorded, plan, seen>>
  BY DEF Acknowledge, GoOn, submitFrame, roundVars
<1>2. /\ RoundAt(p) /\ RoundTypeOK /\ RoundSettled(p) /\ JobsKnown /\ start # "none"
      /\ j \in Job /\ queue[j] # "none" /\ runs[j] \in Selected(p) /\ newJobs[p][runs[j]] = NoJob
      /\ j \notin KnownJobs
  <2>1. RoundAt(p) /\ RoundTypeOK /\ RoundSettled(p) /\ JobsKnown
    BY DEF RoundInv, SoloInv
  <2> QED
    BY <1>1, <2>1 DEF RoundAt, RoundJobs, RoundTypeOK, RoundSettled
<1>3. runs[j] \in Task
  BY <1>1, <1>2 DEF Selected, SelectedIn
<1>4. KnownJobs' = KnownJobs \cup {j} /\ KnownActive' \subseteq KnownActive \cup {j}
  BY <1>1 DEF KnownJobs, KnownActive
<1>5. /\ NothingRuns /\ KnownActive \subseteq {newJobs[p][t] : t \in Task}
      /\ ~HasCompletedAttempt(runs[j])
  BY <1>1, <1>2 DEF RoundSettled, Settled
<1>6. ASSUME NEW k \in KnownActive, runs[k] = runs[j]
      PROVE  FALSE
  <2>1. PICK t \in Task : k = newJobs[p][t]
    BY <1>5
  <2>2. k \in Job /\ runs[k] = t
    BY <1>2, <2>1, RoundJobsResumed DEF JobsKnown, KnownActive
  <2> QED
    BY <1>2, <1>6, <2>1, <2>2, QueueAssumption DEF NoJob
<1>7. JobsKnown'
  <2>1. LiveJobsKnown'
    BY <1>1, <1>5 DEF LiveJobsKnown, NothingRuns
  <2>2. \A k, l \in KnownActive' : runs'[k] = runs'[l] => k = l
    BY <1>1, <1>2, <1>4, <1>6 DEF JobsKnown
  <2>3. RecordedJobs' \cap resumed' = {}
    BY <1>1, <1>2 DEF JobsKnown, RecordedJobs, KnownJobs
  <2>4. \A k \in KnownJobs' : k \in Job /\ queue'[k] # "none"
    BY <1>1, <1>2, <1>4 DEF JobsKnown
  <2>5. \A k \in KnownActive' : queue'[k] \in Waiting /\ runs'[k] \in Task =>
           ~\E n \in AttemptNo : attempt'[runs'[k]][n] = "completed"
    BY <1>1, <1>2, <1>4, <1>5 DEF JobsKnown, HasCompletedAttempt
  <2> QED
    BY <1>1, <1>2, <2>1, <2>2, <2>3, <2>4, <2>5 DEF JobsKnown, HasCompletedAttempt
<1>8. CallsKnown'
  BY <1>1, CallsKnownKept DEF SoloInv
<1>9. rctl'[p] = "submit" /\ \A q \in Resumer : q # p => rctl'[q] = rctl[q]
  BY <1>1, <1>2 DEF RoundTypeOK, ResumeTypeOK
<1>10. KnownActive' \subseteq {newJobs'[p][t] : t \in Task}
  <2>1. \A t \in Task : newJobs'[p][t] = IF t = runs[j] THEN j ELSE newJobs[p][t]
    BY <1>1, <1>2 DEF RoundTypeOK
  <2>2. \A t \in Task : newJobs[p][t] \in KnownActive => t # runs[j]
    BY <1>2, QueueAssumption DEF JobsKnown, KnownActive, NoJob
  <2> QED
    BY <1>3, <1>4, <1>5, <1>6, <2>1, <2>2
<1>11. RoundSettled(p)'
  BY <1>1, <1>2, <1>5, <1>9, <1>10
  DEF RoundSettled, Settled, NothingRuns, Selected, SelectedIn, HasCompletedAttempt
<1> QED
  BY <1>1, <1>7, <1>8, <1>9, <1>11, SoloStep

(* The jobs of the round, all on record, are let go.                       *)
LEMMA ReleaseSolo ==
  ASSUME BatchInv, RoundInv, SoloInv, NEW p \in Resumer, ReleaseRound(p)
  PROVE  SoloInv'
<1>1. /\ rctl[p] = "release" /\ rctl' = [rctl EXCEPT ![p] = "unlock"]
      /\ UNCHANGED <<attempts, attempt, callVars, start, recorded, resumed, inflight>>
  BY DEF ReleaseRound, GoOn, submitFrame, roundJobVars
<1>2. PICK S \in SUBSET {newJobs[p][t] : t \in Selected(p)} : Release(S)
  BY DEF ReleaseRound
<1>3. RoundTypeOK /\ queue \in [Job -> JobState] /\ resumed \subseteq KnownJobs
  BY DEF RoundInv, BatchInv, QueueInv, JobsOK, KnownJobs
<1>4. JobsEvolve
  BY <1>2, <1>3, ReleaseEvolves
<1>5. \A j \in S \cap Job : j \in resumed
  BY <1>2, RoundJobsResumed DEF Selected, SelectedIn
<1>6. Released' \subseteq Released \cup KnownJobs
  BY <1>2, <1>3, <1>5 DEF Release, Released
<1>7. CompletedByJob /\ KeepsTerminal
  BY <1>1 DEF CompletedByJob, KeepsTerminal, HasCompletedAttempt
<1>8. JobsKnown' /\ CallsKnown'
  BY <1>1, <1>4, <1>6, <1>7, JobsKnownKept, CallsKnownKept DEF SoloInv
<1>9. rctl'[p] = "unlock" /\ \A q \in Resumer : q # p => rctl'[q] = rctl[q]
  BY <1>1, <1>3 DEF RoundTypeOK, ResumeTypeOK
<1>10. RoundSettled(p)'
  BY <1>9 DEF RoundSettled, Settled
<1> QED
  BY <1>1, <1>8, <1>9, <1>10, SoloStep

(* A resume begins, ends or is killed.                                     *)
LEMMA EndsSolo ==
  ASSUME RoundInv, SoloInv, NEW p \in Resumer,
         \/ EndRecovery(p) \/ KillRecovery(p)
         \/ \E cancel, overwrite \in BOOLEAN : IssueRecovery(p, cancel, overwrite)
  PROVE  SoloInv'
<1>1. /\ UNCHANGED <<attempts, attempt, callVars, start, queueVars, recorded, resumed, inflight>>
      /\ \/ rctl[p] # "idle" /\ rctl' = [rctl EXCEPT ![p] = "idle"]
         \/ lock = Nobody /\ rctl' = [rctl EXCEPT ![p] = "snapshot"]
  BY DEF EndRecovery, Unlock, KillRecovery, KillResume, ForgetRecovery, IssueRecovery, IssueResume,
         TakeLock, GoOn, vars, roundJobVars
<1>2. rctl'[p] \in {"idle", "snapshot"} /\ \A q \in Resumer : q # p => rctl'[q] = rctl[q]
  BY <1>1 DEF RoundInv, RoundTypeOK, ResumeTypeOK
<1>3. RoundSettled(p)'
  BY <1>2 DEF RoundSettled, Settled
<1> QED
  BY <1>1, <1>2, <1>3, SoloLook

(* Any step of a resume under way.                                         *)
LEMMA ResumerSolo ==
  ASSUME BatchInv, RoundInv, SoloInv, NEW p \in Resumer, ResumerStep(p)
  PROVE  SoloInv'
  BY LooksSolo, PlanSolo, CancelSolo, ReconcileSolo, SubmitSolo, AcknowledgeSolo, ReleaseSolo,
     EndsSolo
  DEF ResumerStep

----
(* All of it                                                               *)

RecoveryInv ==
  /\ BatchInv /\ RoundInv
  /\ UnstartedClean /\ Lone
  /\ ~overlap => SoloInv

(* What resumes leave to submissions.                                      *)
LEMMA ResumeFrame ==
  ASSUME RoundInv,
         \/ OperatorUnlocks
         \/ \E p \in Resumer :
              \/ \E cancel, overwrite \in BOOLEAN : IssueRecovery(p, cancel, overwrite)
              \/ ResumerStep(p) \/ KillRecovery(p)
  PROVE  /\ UNCHANGED <<start, ctl, jobIds, submitJson, overlap>>
         /\ start # "none" \/ UNCHANGED vars
<1>1. ASSUME NEW p \in Resumer, ResumerStep(p)
      PROVE  UNCHANGED <<start, ctl, jobIds, submitJson, overlap>> /\ rctl[p] # "idle"
  BY <1>1
  DEF ResumerStep, Snapshot, PlanRound, Confirm, Recheck, CancelPending, AfterCancel, Replan,
      ReconcileStates, ReconcileTask, Reconciled, SubmitReplacement, Acknowledge, SubmissionEnds,
      GraphSubmitted, ReleaseRound, EndRecovery, Unlock, GoOn, lookFrame, submitFrame, planFrame,
      vars
<1>2. ASSUME NEW p \in Resumer, KillRecovery(p)
      PROVE  UNCHANGED <<start, ctl, jobIds, submitJson, overlap>> /\ rctl[p] # "idle"
  BY <1>2 DEF KillRecovery, KillResume
<1>3. CASE \E p \in Resumer : ResumerStep(p) \/ KillRecovery(p)
  BY <1>1, <1>2, <1>3 DEF RoundInv, RoundAt
<1>4. CASE \/ OperatorUnlocks
           \/ \E p \in Resumer, cancel, overwrite \in BOOLEAN : IssueRecovery(p, cancel, overwrite)
  BY <1>4 DEF OperatorUnlocks, IssueRecovery, vars
<1> QED
  BY <1>3, <1>4

(* A step of submission, queue and rounds.                                 *)
LEMMA RecoveryInvStep ==
  ASSUME RecoveryInv, [RecoveryNext]_recoveryVars
  PROVE  RecoveryInv'
<1>1. BatchInv' /\ RoundInv'
  BY RecoveryNextInv DEF RecoveryInv
<1>2. CASE [Next]_vars /\ UNCHANGED <<resumeVars, queryVars, roundJobVars>>
  <2>1. UnstartedClean' /\ Lone'
    BY <1>2, CleanNext, LoneNext DEF RecoveryInv
  <2>2. ~overlap' => ~overlap
    <3>1. ASSUME NEW p \in Submitter, SubmitterStep(p) \/ KillSubmitter(p)
          PROVE  UNCHANGED overlap
      BY <3>1
      DEF SubmitterStep, Prepare, SubmitTask, AllSubmitted, SubmitPostflight, SubmissionFails,
          RecordHeld, Begin, ReleaseJobs, Report, CancelSubmitted, Withdraw, RecordFailure, Abandon,
          KillSubmitter
    <3>2. ASSUME NEW j \in Job, RunJob(j) \/ LoseJob(j)
          PROVE  UNCHANGED overlap
      BY <3>2 DEF RunJob, LoseJob
    <3>3. ASSUME NEW p \in Submitter, NEW policyAsked, IssueSubmit(p, policyAsked)
          PROVE  ~overlap' => ~overlap
      BY <3>3 DEF IssueSubmit
    <3>4. CASE StrayRuns \/ Rest \/ UNCHANGED vars
      BY <3>4 DEF StrayRuns, Rest, vars
    <3> QED
      BY <1>2, <3>1, <3>2, <3>3, <3>4 DEF Next
  <2> QED
    BY <1>1, <1>2, <2>1, <2>2, NextSolo DEF RecoveryInv
<1>3. CASE \/ OperatorUnlocks
           \/ \E p \in Resumer :
                \/ \E cancel, overwrite \in BOOLEAN : IssueRecovery(p, cancel, overwrite)
                \/ ResumerStep(p) \/ KillRecovery(p)
  <2>1. UNCHANGED <<start, ctl, jobIds, submitJson, overlap>> /\ (start # "none" \/ UNCHANGED vars)
    BY <1>3, ResumeFrame DEF RecoveryInv
  <2>2. UnstartedClean'
    BY <2>1 DEF RecoveryInv, UnstartedClean, vars, Released
  <2>3. Lone'
    BY <2>1 DEF RecoveryInv, Lone, LoneAt
  <2>4. ASSUME ~overlap
        PROVE  SoloInv'
    <3>1. SoloInv /\ BatchInv /\ RoundInv
      BY <2>4 DEF RecoveryInv
    <3>2. CASE OperatorUnlocks
      BY <3>1, <3>2
      DEF OperatorUnlocks, vars, roundVars, queryVars, roundJobVars, SoloInv, JobsKnown,
          LiveJobsKnown,
          KnownActive, KnownJobs, RecordedJobs, HasCompletedAttempt, CallsKnown, CallKnown,
          StateCurrent, RoundSettled, Settled, Active, NothingRuns, Selected, SelectedIn
    <3> QED
      BY <1>3, <3>1, <3>2, ResumerSolo, EndsSolo
  <2> QED
    BY <1>1, <2>1, <2>2, <2>3, <2>4 DEF RecoveryInv
<1> QED
  BY <1>2, <1>3, ResumeAssumption DEF RecoveryNext, recoveryVars

(* With one submitter at a time, everything that is known of the jobs is   *)
(* invariant.                                                              *)
THEOREM SoloInvariant == RecoverySpec => []RecoveryInv
<1>1. RecoveryInit => RecoveryInv
  <2> SUFFICES ASSUME RecoveryInit PROVE RecoveryInv
    OBVIOUS
  <2>1. BatchInv /\ RoundInv
    BY RecoveryInitInv
  <2>2. UnstartedClean /\ Lone
    BY DEF RecoveryInit, Init, DiskInit, QueueInit, UnstartedClean, Released, Lone, LoneAt, Early,
           Late
  <2>3. SoloInv
    <3>1. KnownJobs = {} /\ RecordedJobs = {}
      BY DEF RecoveryInit, Init, NoIds, KnownJobs, RecordedJobs
    <3>2. \A t \in Task : ~HasCompletedAttempt(t)
      BY DEF RecoveryInit, Init, DiskInit, HasCompletedAttempt
    <3>3. JobsKnown
      BY <3>1, <3>2
      DEF RecoveryInit, ResumeInit, Init, QueueInit, JobsKnown, LiveJobsKnown, KnownActive
    <3>4. CallsKnown
      BY <3>2 DEF RecoveryInit, Init, WorkerInit, CallsKnown, CallKnown, StateCurrent
    <3>5. \A p \in Resumer : RoundSettled(p)
      BY DEF RecoveryInit, ResumeInit, RoundSettled, Settled
    <3> QED
      BY <3>3, <3>4, <3>5 DEF SoloInv
  <2> QED
    BY <2>1, <2>2, <2>3 DEF RecoveryInv
<1>2. RecoveryInv /\ [RecoveryNext]_recoveryVars => RecoveryInv'
  BY RecoveryInvStep
<1> QED
  BY <1>1, <1>2, PTL DEF RecoverySpec

----
(* One submitter at a time                                                 *)

(* What a resume does to the queue: no attempt is written, no job let go   *)
(* that is not on record, and none submitted while one is unconfirmed.     *)
LEMMA ResumerQueue ==
  ASSUME BatchInv, RoundInv, NEW p \in Resumer, ResumerStep(p)
  PROVE  /\ UNCHANGED attempt
         /\ JobsEvolve
         /\ Released' \subseteq Released \cup KnownJobs
         /\ inflight => \A j \in Job : queue[j] = "none" => queue'[j] = "none"
<1>0. queue \in [Job -> JobState] /\ runs \in [Job -> Name] /\ resumed \subseteq KnownJobs
  BY DEF BatchInv, QueueInv, JobsOK, KnownJobs
<1>1. CASE CancelPending(p)
  <2>1. PICK S : CancelJobs(S)
    BY <1>1 DEF CancelPending
  <2>2. UNCHANGED attempt /\ JobsEvolve
    BY <1>1, CancelPendingInv DEF CancelPending
  <2> QED
    BY <2>1, <2>2 DEF CancelJobs, Released
<1>2. CASE ReleaseRound(p)
  <2>1. PICK S \in SUBSET {newJobs[p][t] : t \in Selected(p)} : Release(S)
    BY <1>2 DEF ReleaseRound
  <2>2. UNCHANGED attempt /\ JobsEvolve
    BY <1>0, <1>2, <2>1, ReleaseEvolves DEF ReleaseRound, submitFrame
  <2>3. \A j \in S \cap Job : j \in resumed
    BY <2>1, RoundJobsResumed DEF Selected, SelectedIn
  <2> QED
    BY <1>0, <2>1, <2>2, <2>3 DEF Release, Released
<1>3. CASE SubmitReplacement(p)
  <2>1. ~inflight /\ UNCHANGED attempt
    BY <1>3
    DEF SubmitReplacement, GoOn, submitFrame, RoundInv, RoundAt, Confirmed, ResumeControl
  <2>2. CASE UNCHANGED queueVars
    BY <2>1, <2>2 DEF JobsEvolve, Unended, Waiting, Released
  <2>3. ASSUME NEW t \in ReadyTasks(p), NEW j \in Job, SubmitHeld(j, t, NewDependencies(p, t))
        PROVE  JobsEvolve /\ Released' \subseteq Released
    <3>1. JobsEvolve
      BY <1>0, <2>3, SubmitHeldEvolves
    <3> QED
      BY <1>0, <2>3, <3>1 DEF SubmitHeld, Released
  <2> QED
    BY <1>3, <2>1, <2>2, <2>3 DEF SubmitReplacement
<1>4. ASSUME UNCHANGED <<queueVars, attempt>>
      PROVE  /\ UNCHANGED attempt
             /\ JobsEvolve
             /\ Released' \subseteq Released \cup KnownJobs
             /\ inflight => \A j \in Job : queue[j] = "none" => queue'[j] = "none"
  BY <1>4 DEF JobsEvolve, Unended, Waiting, Released
<1>5. CASE \/ Snapshot(p) \/ PlanRound(p) \/ Confirm(p) \/ Recheck(p) \/ AfterCancel(p) \/ Replan(p)
           \/ ReconcileStates(p) \/ Acknowledge(p) \/ SubmissionEnds(p) \/ EndRecovery(p)
  BY <1>4, <1>5
  DEF Snapshot, PlanRound, Confirm, Recheck, AfterCancel, Replan, ReconcileStates, Acknowledge,
      SubmissionEnds, EndRecovery, lookFrame, submitFrame, planFrame, vars
<1> QED
  BY <1>1, <1>2, <1>3, <1>5 DEF ResumerStep

(* What any step does to it, while submissions do not overlap.             *)
LEMMA AnyStepQueue ==
  ASSUME RecoveryInv, ~overlap, [RecoveryNext]_recoveryVars
  PROVE  /\ KeepsTerminal
         /\ CompletedByJob
         /\ JobsEvolve
         /\ Released' \subseteq Released \cup KnownJobs
         /\ inflight => \A j \in Job : queue[j] = "none" => queue'[j] = "none"
<1>1. BatchInv /\ RoundInv /\ Lone /\ JobsKnown /\ RecordedJobs \subseteq KnownJobs
  BY DEF RecoveryInv, SoloInv, RecordedJobs, KnownJobs
<1>2. ASSUME UNCHANGED attempt
      PROVE  KeepsTerminal /\ CompletedByJob
  BY <1>2 DEF KeepsTerminal, CompletedByJob, HasCompletedAttempt
<1>3. CASE [Next]_vars
  <2>1. KeepsTerminal /\ JobsEvolve
    BY <1>1, <1>3, NextKeepsAttempts, NextEvolves
  <2>2. CompletedByJob
    BY <1>1, <1>2, <1>3, NextQuiet, JobLive
  <2>3. Released' \subseteq Released \cup KnownJobs
    <3>1. CASE UNCHANGED queueVars
      BY <3>1 DEF Released
    <3> QED
      BY <1>1, <1>3, <3>1, NextRecords
  <2>4. inflight => \A j \in Job : queue[j] = "none" => queue'[j] = "none"
    BY <1>1, <1>3, NextSubmits DEF JobsKnown
  <2> QED
    BY <2>1, <2>2, <2>3, <2>4
<1>4. ASSUME NEW p \in Resumer, ResumerStep(p)
      PROVE  UNCHANGED attempt /\ JobsEvolve /\ Released' \subseteq Released \cup KnownJobs
             /\ (inflight => \A j \in Job : queue[j] = "none" => queue'[j] = "none")
  BY <1>1, <1>4, ResumerQueue
<1>5. ASSUME UNCHANGED <<queueVars, attempt>>
      PROVE  JobsEvolve /\ Released' \subseteq Released \cup KnownJobs
             /\ (inflight => \A j \in Job : queue[j] = "none" => queue'[j] = "none")
  BY <1>5 DEF JobsEvolve, Unended, Waiting, Released
<1>6. ASSUME NEW p \in Resumer, NEW cancel, NEW overwrite, IssueRecovery(p, cancel, overwrite)
      PROVE  UNCHANGED <<queueVars, attempt>>
  BY <1>6 DEF IssueRecovery, vars
<1>7. ASSUME NEW p \in Resumer, KillRecovery(p)
      PROVE  UNCHANGED <<queueVars, attempt>>
  BY <1>7 DEF KillRecovery
<1>8. OperatorUnlocks => UNCHANGED <<queueVars, attempt>>
  BY DEF OperatorUnlocks, vars
<1>9. UNCHANGED recoveryVars => [Next]_vars
  BY DEF recoveryVars
<1> QED
  BY <1>2, <1>3, <1>4, <1>5, <1>6, <1>7, <1>8, <1>9 DEF RecoveryNext

(* Every job that may run is on record: the next resume finds it, whoever  *)
(* was killed between sbatch and submit.json.                              *)
THEOREM LiveJobsOnRecord == RecoverySpec => [](~overlap => LiveJobsKnown)
<1>1. RecoveryInv => (~overlap => LiveJobsKnown)
  BY DEF RecoveryInv, SoloInv, JobsKnown
<1> QED
  BY <1>1, SoloInvariant, PTL

(* An unconfirmed submission stops every later one, also when the lock of  *)
(* the resume that left it was removed.                                    *)
THEOREM UnconfirmedSubmissionStops == RecoverySpec /\ []~overlap => UnconfirmedStops
<1>1. RecoveryInv /\ ~overlap /\ [RecoveryNext]_recoveryVars =>
        [inflight => \A j \in Job : queue[j] = "none" => queue'[j] = "none"]_recoveryVars
  BY AnyStepQueue
<1> QED
  BY <1>1, SoloInvariant, PTL DEF RecoverySpec, UnconfirmedStops

(* The abstract state a new campaign maps to.                              *)
LEMMA AbstractInit ==
  ASSUME RecoveryInit
  PROVE  Abstract!QueuedInit
  BY DEF RecoveryInit, Init, DiskInit, QueueInit, Abstract!QueuedInit, LiveJobs, HasCompletedAttempt

(* A job that is let go was held and on record, so that its task has no    *)
(* other one that may run and has not completed; and only a job that runs  *)
(* completes its task.                                                     *)
LEMMA AbstractStep ==
  ASSUME RecoveryInv, ~overlap, [RecoveryNext]_recoveryVars
  PROVE  Abstract!QueuedNext
<1> DEFINE completed == {t \in Task : HasCompletedAttempt(t)}
<1>1. /\ KeepsTerminal /\ CompletedByJob /\ JobsEvolve
      /\ Released' \subseteq Released \cup KnownJobs
  BY AnyStepQueue
<1>2. JobsKnown
  BY DEF RecoveryInv, SoloInv
<1>3. completed \subseteq completed'
  BY <1>1, CompletedKept
<1>4. ASSUME NEW t \in completed' \ completed
      PROVE  t \in Task /\ LiveJobs[t] # {}
  BY <1>1, <1>4 DEF CompletedByJob, LiveJobs
<1>5. ASSUME NEW t \in Task, NEW j \in LiveJobs'[t], j \notin LiveJobs[t]
      PROVE  /\ j \in KnownActive /\ queue[j] = "held" /\ runs[j] = t
             /\ t \notin completed
  <2>1. j \in Job /\ runs'[j] = t /\ queue'[j] \in {"queued", "running"}
    BY <1>5 DEF LiveJobs
  <2>2. queue[j] # "none" /\ runs[j] = t
    BY <1>1, <2>1 DEF JobsEvolve
  <2>3. queue[j] = "held"
    BY <1>1, <1>5, <2>1, <2>2 DEF JobsEvolve, Unended, Waiting, LiveJobs
  <2>4. j \in KnownActive
    BY <1>1, <2>1, <2>3 DEF Released, KnownActive, Unended, Waiting
  <2> QED
    BY <1>2, <2>2, <2>3, <2>4 DEF JobsKnown, Waiting
<1>6. ASSUME NEW t \in Task
      PROVE  \/ LiveJobs'[t] \subseteq LiveJobs[t]
             \/ LiveJobs[t] = {} /\ t \notin completed /\ \E j \in Job : LiveJobs'[t] = {j}
  <2> SUFFICES ASSUME NEW j \in LiveJobs'[t], j \notin LiveJobs[t]
               PROVE  LiveJobs[t] = {} /\ t \notin completed /\ LiveJobs'[t] = {j}
    BY DEF LiveJobs
  <2>1. j \in KnownActive /\ queue[j] = "held" /\ runs[j] = t /\ t \notin completed
    BY <1>5
  <2>2. ASSUME NEW k \in LiveJobs[t]
        PROVE  FALSE
    <3>1. k \in KnownActive /\ runs[k] = t /\ queue[k] # "held"
      BY <1>2, <2>2 DEF LiveJobs, JobsKnown, LiveJobsKnown, KnownActive, Unended, Waiting
    <3> QED
      BY <1>2, <2>1, <3>1 DEF JobsKnown
  <2>3. ASSUME NEW k \in LiveJobs'[t]
        PROVE  k = j
    <3>1. k \in KnownActive /\ runs[k] = t
      BY <1>5, <2>2, <2>3
    <3> QED
      BY <1>2, <2>1, <3>1 DEF JobsKnown
  <2> QED
    BY <2>1, <2>2, <2>3
<1> QED
  BY <1>3, <1>4, <1>6 DEF Abstract!QueuedNext, Abstract!CompletedChanges, Abstract!LiveChanges

(* Submission and recovery keep the promise of the queued campaign: a task *)
(* has at most one live job, gets it only while it is not completed, and   *)
(* stays completed - through cancellations, kills and further rounds.      *)
THEOREM QueuedCampaignImplemented == RecoverySpec /\ []~overlap => ImplementsQueuedCampaign
<1>1. RecoveryInit => Abstract!QueuedInit
  BY AbstractInit
<1>2. RecoveryInv /\ ~overlap /\ [RecoveryNext]_recoveryVars =>
        [Abstract!QueuedNext]_<<LiveJobs, {t \in Task : HasCompletedAttempt(t)}>>
  BY AbstractStep
<1> QED
  BY <1>1, <1>2, SoloInvariant, PTL DEF RecoverySpec, ImplementsQueuedCampaign, Abstract!Queued

(* Attempt records only grow in every step of a campaign and its resumes.  *)
LEMMA RecoveryKeepsAttempts ==
  ASSUME BatchInv, [RecoveryNext]_recoveryVars
  PROVE  KeepsTerminal /\ KeepsAttempts
<1>1. CASE UNCHANGED attempt
  BY <1>1 DEF KeepsTerminal, KeepsAttempts
<1>2. CASE [Next]_vars
  BY <1>2, NextKeepsAttempts
<1>3. ASSUME NEW p \in Resumer, ResumerStep(p)
      PROVE  UNCHANGED attempt
  BY <1>3
  DEF ResumerStep, Snapshot, PlanRound, Confirm, Recheck, CancelPending, AfterCancel, Replan,
      ReconcileStates, ReconcileTask, SubmitReplacement, Acknowledge, SubmissionEnds, ReleaseRound,
      EndRecovery, lookFrame, submitFrame, planFrame, diskVars, vars
<1>4. ASSUME NEW p \in Resumer, NEW cancel, NEW overwrite, IssueRecovery(p, cancel, overwrite)
      PROVE  UNCHANGED attempt
  BY <1>4 DEF IssueRecovery, vars
<1>5. ASSUME NEW p \in Resumer, KillRecovery(p)
      PROVE  UNCHANGED attempt
  BY <1>5 DEF KillRecovery
<1>6. OperatorUnlocks => UNCHANGED attempt
  BY DEF OperatorUnlocks, vars
<1>7. UNCHANGED recoveryVars => [Next]_vars
  BY DEF recoveryVars
<1> QED
  BY <1>1, <1>2, <1>3, <1>4, <1>5, <1>6, <1>7 DEF RecoveryNext

(* What run_task guarantees alone it guarantees when resumes cancel its    *)
(* jobs, write its state files after a crash and submit its task again,    *)
(* and no reconciliation rewrites a terminal attempt record.               *)
THEOREM RecoveredAttemptsSound ==
  RecoverySpec =>
    /\ [](AttemptOwned /\ AttemptsContiguous /\ StateBackedByAttempt /\ CallConsistent)
    /\ TerminalAttemptsKept
<1>1. BatchInv /\ RoundInv =>
        AttemptOwned /\ AttemptsContiguous /\ StateBackedByAttempt /\ CallConsistent
  BY DEF BatchInv, QueueInv, WorkerInv
<1>2. BatchInv /\ RoundInv /\ [RecoveryNext]_recoveryVars =>
        [\A t \in Task : \A n \in AttemptNo :
           attempt[t][n] \in Terminal => attempt'[t][n] = attempt[t][n]]_workerVars
  BY RecoveryKeepsAttempts DEF KeepsTerminal
<1> QED
  BY <1>1, <1>2, RecoveryInvariant, PTL DEF RecoverySpec, TerminalAttemptsKept

(* Two jobs of one task are never both queued or running, whatever was     *)
(* cancelled, lost or killed between the rounds that submitted them.       *)
THEOREM OneLiveJobEach ==
  RecoverySpec /\ []~overlap => [](\A t \in Task : \A j, k \in LiveJobs[t] : j = k)
<1>1. RecoveryInv /\ ~overlap => \A t \in Task : \A j, k \in LiveJobs[t] : j = k
  <2> SUFFICES ASSUME RecoveryInv, ~overlap, NEW t \in Task, NEW j \in LiveJobs[t],
                      NEW k \in LiveJobs[t]
               PROVE  j = k
    OBVIOUS
  <2>1. JobsKnown
    BY DEF RecoveryInv, SoloInv
  <2>2. j \in KnownActive /\ k \in KnownActive /\ runs[j] = runs[k]
    BY <2>1 DEF LiveJobs, JobsKnown, LiveJobsKnown, KnownActive, Unended, Waiting
  <2> QED
    BY <2>1, <2>2 DEF JobsKnown
<1> QED
  BY <1>1, SoloInvariant, PTL

(* A task with a completed attempt gets no job that may run: what was      *)
(* released before it completed ends, and no round releases another.       *)
THEOREM CompletedGetNoJob ==
  RecoverySpec /\ []~overlap =>
    [][\A t \in Task : HasCompletedAttempt(t) => LiveJobs'[t] \subseteq LiveJobs[t]]_recoveryVars
<1>1. RecoveryInv /\ ~overlap /\ [RecoveryNext]_recoveryVars =>
        [\A t \in Task : HasCompletedAttempt(t) => LiveJobs'[t] \subseteq LiveJobs[t]]_recoveryVars
  BY AbstractStep DEF Abstract!QueuedNext, Abstract!LiveChanges
<1> QED
  BY <1>1, SoloInvariant, PTL DEF RecoverySpec
====
