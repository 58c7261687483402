---- MODULE Recovery ----
(***************************************************************************)
(* resume_campaign on Slurm and PBS: the queue is asked about every job on *)
(* record, the plan keeps what completed, the waiting jobs are cancelled   *)
(* if the operator says so, and the unfinished part of the graph is        *)
(* submitted held, recorded job by job, and released as a whole.  Jobs run *)
(* while a resume looks at them, and a resume can be killed anywhere.      *)
(***************************************************************************)
EXTENDS BatchSubmit, ResumeRound

CONSTANT Backends  \* bound: the queued backends a campaign may be for

ASSUME RecoveryAssumption ==
  /\ Resumer \subseteq Proc
  /\ Resumer \cap (Submitter \cup Job) = {}
  /\ Backends \subseteq {"slurm", "pbs"}

VARIABLES
  backend,  \* campaign.json: the backend
  cancels,  \* cancels[p]: whether resume p was given --cancel-pending
  snap,     \* snap[p]: what the queue said of the jobs on record
  newJobs,  \* newJobs[p]: the jobs of p's round its submit.json names
  answered, \* answered[p]: the job id p has been told and not recorded yet
  resumed   \* the jobs named in the submit.json of some round

queryVars == <<backend, cancels, snap>>
roundJobVars == <<newJobs, answered, resumed>>
recoveryVars == <<vars, resumeVars, queryVars, roundJobVars>>

JobView == {"none", "queued", "held", "running"}
NothingLive == [j \in Job |-> "none"]
NoNewJobs == [t \in Task |-> NoJob]

RecoveryTypeOK ==
  /\ BatchTypeOK
  /\ ResumeTypeOK
  /\ backend \in Backends
  /\ cancels \in [Resumer -> BOOLEAN]
  /\ snap \in [Resumer -> [Job -> JobView]]
  /\ newJobs \in [Resumer -> [Task -> Job \cup {NoJob}]]
  /\ answered \in [Resumer -> Job \cup {NoJob}]
  /\ resumed \subseteq Job

RecoveryInit ==
  /\ Init
  /\ ResumeInit
  /\ backend \in Backends
  /\ cancels = [p \in Resumer |-> FALSE]
  /\ snap = [p \in Resumer |-> NothingLive]
  /\ newJobs = [p \in Resumer |-> NoNewJobs]
  /\ answered = [p \in Resumer |-> NoJob]
  /\ resumed = {}

----
(* scheduler_snapshot                                                      *)

(* Mutant: the resume rounds are not looked at.                            *)
KnownJobs_Original == {recorded[n] : n \in Name} \ {NoJob}

(* The jobs of every submission on record, older rounds included.          *)
KnownJobs == ({recorded[n] : n \in Name} \ {NoJob}) \cup resumed

(* squeue says PENDING of a held job too; qstat tells them apart.          *)
JobSeen(j) ==
  IF j \notin KnownJobs \/ queue[j] \notin {"held", "queued", "running"} THEN "none"
  ELSE IF queue[j] = "held" /\ backend = "slurm" THEN "queued"
  ELSE queue[j]

CurrentSnap == [j \in Job |-> JobSeen(j)]
Active(s) == {j \in Job : s[j] # "none"}

(* What the plan is told of each task.                                     *)
NodesOf(s) ==
  [t \in Task |-> LET live == {j \in Active(s) : runs[j] = t} IN
                  IF live = {} THEN "none" ELSE s[CHOOSE j \in live : TRUE]]

(* Mutant: an unconfirmed submission does not stop the query.              *)
SnapshotValid_InFlight == returncode # "none"

(* There is a record, and none with an unconfirmed submission.             *)
SnapshotValid == returncode # "none" /\ ~inflight

(* No live job, or only waiting ones and --cancel-pending.                 *)
MayReplace(p, s) ==
  Active(s) = {} \/ (cancels[p] /\ \A j \in Active(s) : s[j] # "running")

(* The first look.  The query itself may fail, which ends the resume.      *)
Snapshot(p) ==
  /\ \/ /\ GoOn(p, "snapshot", "plan")
        /\ SnapshotValid /\ MayReplace(p, CurrentSnap)
        /\ snap' = [snap EXCEPT ![p] = CurrentSnap]
     \/ GoOn(p, "snapshot", "unlock") /\ UNCHANGED snap
  /\ UNCHANGED <<vars, lock, roundVars, inflight, resumes, backend, cancels, roundJobVars>>

(* The state files are read after the queue was.                           *)
Conflict(s) == \E j \in Active(s) : runs[j] \in Task /\ status[runs[j]] = "completed"

planFrame == <<stateVars, attempt, stray, startVars, callVars, startProcVars, jobVars,
               ctl, submitVars, submitJson, boundVars, lock, asked, inflight, resumes,
               queryVars, roundJobVars>>

PlanRound(p) ==
  /\ rctl[p] = "plan"
  /\ \/ /\ ~Conflict(snap[p])
        /\ MakePlan(p, NodesOf(snap[p]), "plan",
                    IF Active(snap[p]) = {} THEN "confirm" ELSE "recheck")
     \/ Conflict(snap[p]) /\ GoOn(p, "plan", "unlock") /\ UNCHANGED <<plan, seen, files>>
  /\ UNCHANGED planFrame

----
(* From the plan to the submission                                         *)

lookFrame == <<vars, lock, roundVars, inflight, resumes, queryVars, roundJobVars>>

(* Without a live job: there must still be none.                           *)
Confirm(p) ==
  /\ \/ GoOn(p, "confirm", "reconcile") /\ Active(CurrentSnap) = {}
     \/ GoOn(p, "confirm", "unlock")
  /\ UNCHANGED lookFrame

(* With waiting jobs: the queue must not have changed.                     *)
Recheck(p) ==
  /\ \/ GoOn(p, "recheck", "cancel") /\ CurrentSnap = snap[p]
     \/ GoOn(p, "recheck", "unlock")
  /\ UNCHANGED lookFrame

(* scancel --state=PENDING spares a job that runs by now, qdel does not.   *)
CancelJobs(S) ==
  LET running == {j \in S : queue[j] = "running" /\ backend = "pbs"} IN
  /\ queue' = [j \in Job |->
       IF j \in running \/ (j \in S /\ queue[j] \in {"held", "queued"})
       THEN "cancelled" ELSE queue[j]]
  /\ at' = [q \in Proc |-> IF q \in running THEN [t \in Task |-> "idle"] ELSE at[q]]
  /\ number' = [q \in Proc |-> IF q \in running THEN [t \in Task |-> 0] ELSE number[q]]
  /\ verdict' = [q \in Proc |-> IF q \in running THEN [t \in Task |-> "none"] ELSE verdict[q]]
  /\ stray' = stray \cup UNION {Outputs[t] : t \in {u \in Task : \E j \in running : at[j][u] = "payload"}}

(* The scheduler cancels all of the jobs, or some and reports a failure or *)
(* takes its time.                                                         *)
CancelPending(p) ==
  /\ GoOn(p, "cancel", "after") \/ GoOn(p, "cancel", "unlock")
  /\ \E S \in SUBSET Active(snap[p]) : CancelJobs(S)
  /\ UNCHANGED <<stateVars, attempt, files, startVars, startProcVars, runs, after, left, hook,
                 ctl, submitVars, submitJson, boundVars, lock, roundVars, inflight, resumes,
                 queryVars, roundJobVars>>

(* The old jobs must be gone.                                              *)
AfterCancel(p) ==
  /\ \/ GoOn(p, "after", "replan") /\ Active(CurrentSnap) = {}
     \/ GoOn(p, "after", "unlock")
  /\ UNCHANGED lookFrame

(* Mutant: the first plan is kept.                                         *)
Replan_First(p) == GoOn(p, "replan", "reconcile") /\ UNCHANGED lookFrame

(* The plan is made again of the state files; the staged scripts are those *)
(* of the first one.  Here, a plan with nothing selected goes on.          *)
Replan(p) ==
  LET pl == PlanFrom([t \in Task |-> "none"]) IN
  /\ \/ /\ GoOn(p, "replan", "reconcile")
        /\ PlanAccepted(pl, asked[p])
        /\ plan' = [plan EXCEPT ![p] = pl]
        /\ seen' = [seen EXCEPT ![p] =
                      [t \in Task |-> [state |-> status[t], attempts |-> attempts[t]]]]
     \/ /\ GoOn(p, "replan", "unlock")
        /\ ~PlanAccepted(pl, asked[p])
        /\ UNCHANGED <<plan, seen>>
  /\ UNCHANGED <<planFrame, files>>

ReconcileStates(p) ==
  /\ \/ ReconcileTask(p)
     \/ Reconciled(p) /\ UNCHANGED <<stateVars, seen>>
  /\ UNCHANGED <<attempt, fileVars, startVars, callVars, startProcVars, jobVars, ctl,
                 submitVars, submitJson, boundVars, lock, asked, plan, inflight, resumes,
                 queryVars, roundJobVars>>

----
(* _submit                                                                 *)

Selected(p) == SelectedIn(plan[p])

(* The selected tasks whose selected parents have a job in this round.     *)
ReadyTasks(p) ==
  {t \in Selected(p) :
     /\ newJobs[p][t] = NoJob
     /\ \A u \in Parents[t] \cap Selected(p) : newJobs[p][u] # NoJob}

(* Mutant: the dependencies are those on completed tasks.                  *)
NewDependencies_None(p, t) ==
  {newJobs[p][u] : u \in Parents[t] \ Selected(p)} \ {NoJob}

NewDependencies(p, t) == {newJobs[p][u] : u \in Parents[t] \cap Selected(p)}

submitFrame == <<diskVars, callVars, startProcVars, left, hook, ctl, submitVars, submitJson,
                 boundVars, lock, roundVars, resumes, queryVars>>

(* One sbatch --hold or qsub -h, with in_flight written before it.  The    *)
(* scheduler answers with a job id; or refuses, which clears in_flight; or *)
(* does not answer in time, whether or not it accepted the job.            *)
SubmitReplacement(p) ==
  rctl[p] = "submit" /\ \E t \in ReadyTasks(p), j \in Job :
    /\ \/ /\ SubmitHeld(j, t, NewDependencies(p, t))
          /\ GoOn(p, "submit", "acknowledge")
          /\ answered' = [answered EXCEPT ![p] = j]
          /\ inflight' = TRUE
       \/ /\ GoOn(p, "submit", "unlock")
          /\ UNCHANGED <<queueVars, inflight, answered>>
       \/ /\ \/ SubmitHeld(j, t, NewDependencies(p, t))
             \/ UNCHANGED queueVars
          /\ GoOn(p, "submit", "unlock")
          /\ inflight' = TRUE
          /\ UNCHANGED answered
    /\ UNCHANGED <<newJobs, resumed, submitFrame>>

(* The job id is on record, and in_flight is not, before the next task.    *)
Acknowledge(p) ==
  /\ GoOn(p, "acknowledge", "submit")
  /\ newJobs' = [newJobs EXCEPT ![p][runs[answered[p]]] = answered[p]]
  /\ resumed' = resumed \cup {answered[p]}
  /\ answered' = [answered EXCEPT ![p] = NoJob]
  /\ inflight' = FALSE
  /\ UNCHANGED <<queueVars, submitFrame>>

GraphSubmitted(p) ==
  /\ GoOn(p, "submit", "release")
  /\ \A t \in Selected(p) : newJobs[p][t] # NoJob

SubmissionEnds(p) ==
  /\ GraphSubmitted(p)
  /\ UNCHANGED <<queueVars, inflight, roundJobVars, submitFrame>>

(* scontrol release, qrls of the round's jobs: all, or some and a failure. *)
ReleaseRound(p) ==
  /\ GoOn(p, "release", "unlock")
  /\ \E S \in SUBSET {newJobs[p][t] : t \in Selected(p)} : Release(S)
  /\ UNCHANGED <<inflight, roundJobVars, submitFrame>>

----
(* The command, its end, and everything else that goes on                  *)

ForgetRecovery(p) ==
  /\ cancels' = [cancels EXCEPT ![p] = FALSE]
  /\ snap' = [snap EXCEPT ![p] = NothingLive]
  /\ newJobs' = [newJobs EXCEPT ![p] = NoNewJobs]
  /\ answered' = [answered EXCEPT ![p] = NoJob]
  /\ UNCHANGED <<backend, resumed>>

IssueRecovery(p, cancel, overwrite) ==
  /\ IssueResume(p, overwrite)
  /\ cancels' = [cancels EXCEPT ![p] = cancel]
  /\ UNCHANGED <<vars, plan, seen, inflight, backend, snap, roundJobVars>>

EndRecovery(p) ==
  /\ Unlock(p)
  /\ ForgetRecovery(p)
  /\ UNCHANGED <<vars, inflight, resumes>>

KillRecovery(p) ==
  /\ kills < MaxKills
  /\ KillResume(p)
  /\ ForgetRecovery(p)
  /\ kills' = kills + 1
  /\ UNCHANGED <<diskVars, callVars, startProcVars, jobVars, ctl, submitVars, submitJson,
                 overlap, issued, lock, inflight, resumes>>

OperatorUnlocks ==
  /\ RemoveStaleLock
  /\ UNCHANGED <<vars, rctl, roundVars, inflight, resumes, queryVars, roundJobVars>>

ResumerStep(p) ==
  \/ Snapshot(p) \/ PlanRound(p) \/ Confirm(p) \/ Recheck(p) \/ CancelPending(p)
  \/ AfterCancel(p) \/ Replan(p) \/ ReconcileStates(p) \/ SubmitReplacement(p)
  \/ Acknowledge(p) \/ SubmissionEnds(p) \/ ReleaseRound(p) \/ EndRecovery(p)

RecoveryNext ==
  \/ Next /\ UNCHANGED <<resumeVars, queryVars, roundJobVars>>
  \/ \E p \in Resumer :
       \/ \E cancel \in BOOLEAN, overwrite \in AskOverwrite : IssueRecovery(p, cancel, overwrite)
       \/ ResumerStep(p)
       \/ KillRecovery(p)
  \/ OperatorUnlocks

RecoverySpec == RecoveryInit /\ [][RecoveryNext]_recoveryVars
====
