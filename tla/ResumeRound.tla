---- MODULE ResumeRound ----
(***************************************************************************)
(* resume_campaign (recovery.py) as far as the queued backends share it:   *)
(* the lock that keeps resumes apart, the plan made of the state files,    *)
(* the attempt records and what the scheduler reports, and the state files *)
(* it reconciles.  How a backend is asked about its jobs and given new     *)
(* ones is left to the modules that extend this one.                       *)
(***************************************************************************)
EXTENDS Worker

CONSTANTS
  Resumer,      \* processes that run `yall-run resume`
  AskOverwrite, \* bound: whether resumes are given --overwrite, or either
  MaxResumes    \* bound: resumes issued in a behaviour

Nobody == "nobody"

ASSUME ResumeAssumption ==
  /\ Nobody \notin Resumer
  /\ AskOverwrite \subseteq BOOLEAN
  /\ MaxResumes \in Nat

VARIABLES
  lock,     \* state/resume.lock: the resume that made it
  rctl,     \* rctl[p]: what resume p does next
  asked,    \* asked[p]: whether it was given --overwrite
  plan,     \* plan[p][t]: the state its plan gives t
  seen,     \* seen[p][t]: the state file of t its plan was made from
  inflight, \* whether some submit.json carries an in_flight command
  resumes

roundVars == <<asked, plan, seen>>
resumeVars == <<lock, rctl, roundVars, inflight, resumes>>

ResumeControl == {"idle", "snapshot", "plan", "recheck", "cancel", "after", "replan",
                  "confirm", "reconcile", "submit", "acknowledge", "release", "unlock"}

(* What the scheduler reports of a task: "none" without a live job.        *)
NodeState == {"none", "queued", "held", "running"}
PlannedState == TaskStatus \cup {"queued", "held"}

NoPlan == [t \in Task |-> "pending"]
NothingSeen == [t \in Task |-> [state |-> "pending", attempts |-> 0]]

ResumeTypeOK ==
  /\ lock \in Resumer \cup {Nobody}
  /\ rctl \in [Resumer -> ResumeControl]
  /\ asked \in [Resumer -> BOOLEAN]
  /\ plan \in [Resumer -> [Task -> PlannedState]]
  /\ seen \in [Resumer -> [Task -> [state : TaskStatus, attempts : 0 .. MaxAttempt]]]
  /\ inflight \in BOOLEAN
  /\ resumes \in 0 .. MaxResumes

ResumeInit ==
  /\ lock = Nobody
  /\ rctl = [p \in Resumer |-> "idle"]
  /\ asked = [p \in Resumer |-> FALSE]
  /\ plan = [p \in Resumer |-> NoPlan]
  /\ seen = [p \in Resumer |-> NothingSeen]
  /\ inflight = FALSE
  /\ resumes = 0

GoOn(p, from, to) ==
  /\ rctl[p] = from
  /\ rctl' = [rctl EXCEPT ![p] = to]

----
(* The plan                                                                *)

(* The attempt record the state file points to.                            *)
Evidence(t) == IF attempts[t] \in AttemptNo THEN attempt[t][attempts[t]] ELSE "absent"

(* _effective: a live job decides, then a terminal attempt record (it can  *)
(* survive a crash before the state file was written), then the state file.*)
Effective(t, node) ==
  IF node # "none" THEN node
  ELSE IF Evidence(t) \in Terminal THEN Evidence(t)
  ELSE IF status[t] = "running" THEN "interrupted"
  ELSE status[t]

CompletedIn(pl) == {t \in Task : pl[t] = "completed"}
SelectedIn(pl) == {t \in Task : pl[t] # "completed"}

(* Whether existing outputs of t do not matter to the plan.                *)
OverwritePlanned(t, overwrite) == start = "overwrite" \/ overwrite \/ t \in TaskOverwrite

(* _plan goes through.                                                     *)
PlanAccepted(pl, overwrite) ==
  /\ \A t \in CompletedIn(pl) : Outputs[t] \subseteq files /\ Parents[t] \subseteq CompletedIn(pl)
  /\ \A t \in SelectedIn(pl) :
       /\ Inputs[t] \subseteq files \cup UNION {Outputs[u] : u \in SelectedIn(pl)}
       /\ OverwritePlanned(t, overwrite) \/ Outputs[t] \cap files = {}

(* overwrite_outputs: the outputs the resume will delete.  --overwrite is  *)
(* part of OverwritePlanned, so the list is always empty.                  *)
DoomedOutputs(pl, overwrite) ==
  {f \in files : overwrite /\ \E t \in SelectedIn(pl) :
                   ~OverwritePlanned(t, overwrite) /\ f \in Outputs[t]}

PlanFrom(nodes) == [t \in Task |-> Effective(t, nodes[t])]

(* Plan p's round from what the scheduler reported; a refusal, or nothing  *)
(* left to do, ends the resume.  The declared outputs on the list are      *)
(* deleted, and the scripts of the selected tasks staged.                  *)
MakePlan(p, nodes, from, to) ==
  LET pl == PlanFrom(nodes) IN
  \/ /\ PlanAccepted(pl, asked[p]) /\ SelectedIn(pl) # {}
     /\ GoOn(p, from, to)
     /\ plan' = [plan EXCEPT ![p] = pl]
     /\ seen' = [seen EXCEPT ![p] =
                   [t \in Task |-> [state |-> status[t], attempts |-> attempts[t]]]]
     /\ files' = files \ DoomedOutputs(pl, asked[p])
  \/ /\ ~PlanAccepted(pl, asked[p]) \/ SelectedIn(pl) = {}
     /\ GoOn(p, from, "unlock")
     /\ UNCHANGED <<plan, seen, files>>

(* The tasks whose state file the plan contradicts.                        *)
Unreconciled(p) ==
  {t \in Task : plan[p][t] \in {"interrupted"} \cup Terminal /\ plan[p][t] # seen[p][t].state}

(* {**old, "state": value}: one state file, with the count that was read.  *)
ReconcileTask(p) ==
  /\ GoOn(p, "reconcile", "reconcile")
  /\ \E t \in Unreconciled(p) :
       /\ WriteTaskState(t, plan[p][t], seen[p][t].attempts)
       /\ seen' = [seen EXCEPT ![p][t].state = plan[p][t]]

Reconciled(p) ==
  /\ GoOn(p, "reconcile", "submit")
  /\ Unreconciled(p) = {}

----
(* The lock                                                                *)

(* lock.mkdir(): of two resumes, the second is refused.                    *)
TakeLock(p) == lock = Nobody /\ lock' = p

IssueResume(p, overwrite) ==
  /\ resumes < MaxResumes
  /\ start # "none"
  /\ TakeLock(p)
  /\ GoOn(p, "idle", "snapshot")
  /\ asked' = [asked EXCEPT ![p] = overwrite]
  /\ resumes' = resumes + 1

ForgetRound(p) ==
  /\ asked' = [asked EXCEPT ![p] = FALSE]
  /\ plan' = [plan EXCEPT ![p] = NoPlan]
  /\ seen' = [seen EXCEPT ![p] = NothingSeen]

(* The finally clause of _resume_lock.                                     *)
Unlock(p) ==
  /\ GoOn(p, "unlock", "idle")
  /\ lock' = Nobody
  /\ ForgetRound(p)

(* A killed resume leaves its lock.                                        *)
KillResume(p) ==
  /\ rctl[p] # "idle"
  /\ rctl' = [rctl EXCEPT ![p] = "idle"]
  /\ ForgetRound(p)

(* The operator removes a lock whose owner is gone.                        *)
RemoveStaleLock ==
  /\ lock # Nobody /\ rctl[lock] = "idle"
  /\ lock' = Nobody
====
