---- MODULE CondorCampaign ----
(***************************************************************************)
(* Starting and resuming a Condor campaign.  submit_rendered               *)
(* (condor_backend.py) writes the pending start record, hands the DAG to   *)
(* condor_submit_dag - from then on its nodes may run - and only then      *)
(* writes submit.json and start.json.  resume_campaign (recovery.py)       *)
(* submits the DAG again, from a rescue file that must name exactly the    *)
(* tasks Yall itself takes for completed.                                  *)
(***************************************************************************)
EXTENDS CondorNode, StartProtocol, ResumeRound

CONSTANTS
  Submitter,    \* processes that run `yall-run start`
  Overwrite,    \* bound: whether starts are given --overwrite, or either
  InitialFiles, \* bound: the products that may exist before the start
  MaxCommands,  \* bound: starts issued in a behaviour
  MaxKills      \* bound: kills, evictions, removals and failures of launchers

NoDag == 0

ASSUME CampaignAssumption ==
  /\ Submitter \cup Resumer \subseteq Proc
  /\ Submitter \cap Resumer = {} /\ (Submitter \cup Resumer) \cap Dag = {}
  /\ Overwrite \subseteq BOOLEAN
  /\ InitialFiles \subseteq SUBSET File
  /\ MaxCommands \in Nat /\ MaxKills \in Nat

VARIABLES
  ctl,        \* ctl[p]: what start p does next
  accepted,   \* accepted[p]: the DAG its condor_submit_dag submitted
  returncode, \* condor/submit.json: the return code
  known,      \* the DAGs in a directory whose submit.json exists
  latest,     \* the DAG of the latest submit.json with a cluster_id
  staged,     \* staged[p]: the DONE nodes of the rescue file p copied
  answered,   \* answered[p]: the DAG p has been told of and not recorded
  promised,   \* history: the policy of the start whose DAG was accepted
  issued, kills

recordVars == <<returncode, known, latest>>
startCommandVars == <<ctl, accepted, promised, issued>>
rescueVars == <<staged, answered>>
condorVars == <<diskVars, callVars, dagVars, startProcVars, resumeVars, recordVars,
                startCommandVars, rescueVars, kills>>

StartControl == {"idle", "prepare", "dag", "record", "begin"}

CondorTypeOK ==
  /\ WorkerTypeOK /\ DagTypeOK /\ StartTypeOK /\ ResumeTypeOK
  /\ ctl \in [Submitter -> StartControl]
  /\ accepted \in [Submitter -> Dag \cup {NoDag}]
  /\ returncode \in {"none", "zero", "error"}
  /\ known \subseteq Dag
  /\ latest \in Dag \cup {NoDag}
  /\ staged \in [Resumer -> SUBSET Task]
  /\ answered \in [Resumer -> Dag \cup {NoDag}]
  /\ promised \in Record
  /\ issued \in 0 .. MaxCommands
  /\ kills \in 0 .. MaxKills

CondorInit ==
  /\ DiskInit /\ files \in InitialFiles
  /\ WorkerInit /\ DagInit /\ StartInit /\ ResumeInit
  /\ ctl = [p \in Submitter |-> "idle"]
  /\ accepted = [p \in Submitter |-> NoDag]
  /\ returncode = "none" /\ known = {} /\ latest = NoDag
  /\ staged = [p \in Resumer |-> {}]
  /\ answered = [p \in Resumer |-> NoDag]
  /\ promised = "none"
  /\ issued = 0 /\ kills = 0

----
(* submit_rendered                                                         *)

Step(p, from, to) ==
  /\ ctl[p] = from
  /\ ctl' = [ctl EXCEPT ![p] = to]

IssueStart(p, overwrite) ==
  /\ issued < MaxCommands
  /\ returncode # "zero"
  /\ CheckPrepare(p, IF overwrite THEN "overwrite" ELSE "keep")
  /\ Step(p, "idle", "prepare")
  /\ issued' = issued + 1
  /\ UNCHANGED <<callVars, dagVars, resumeVars, recordVars, accepted, promised, rescueVars, kills>>

(* Mutant: the DAG is submitted before the policy is on record.            *)
Prepare_Late(p) ==
  /\ Step(p, "prepare", "dag")
  /\ Move(p, "checked", "prepared")
  /\ UNCHANGED <<diskVars, policy, callVars, dagVars, resumeVars, recordVars, accepted, promised,
                 issued, rescueVars, kills>>

Prepare(p) ==
  /\ Step(p, "prepare", "dag")
  /\ WritePending(p)
  /\ UNCHANGED <<callVars, dagVars, resumeVars, recordVars, accepted, promised, issued, rescueVars,
                 kills>>

(* condor_submit_dag accepts the DAG, refuses it, or cannot be run; the    *)
(* last two withdraw the record, and leave a submit.json or none.          *)
SubmitDag(p) ==
  /\ \/ /\ Step(p, "dag", "record")
        /\ \E d \in Dag : AcceptDag(d, {}, NoRescue) /\ accepted' = [accepted EXCEPT ![p] = d]
        /\ promised' = policy[p]
        /\ UNCHANGED <<starting, returncode>>
     \/ /\ Step(p, "dag", "begin")
        /\ Move(p, "prepared", "cancel")
        /\ returncode' \in {returncode, "error"}
        /\ UNCHANGED <<dagVars, accepted, promised>>
  /\ UNCHANGED <<diskVars, callVars, policy, resumeVars, known, latest, issued, rescueVars, kills>>

(* submit.json has the cluster id if the output named it.                  *)
RecordDag(p) ==
  /\ Step(p, "record", "begin")
  /\ returncode' = "zero"
  /\ known' = known \cup {accepted[p]}
  /\ latest' \in {latest, accepted[p]}
  /\ UNCHANGED <<diskVars, callVars, dagVars, startProcVars, resumeVars, accepted, promised, issued,
                 rescueVars, kills>>

ForgetDag(p) == accepted' = [accepted EXCEPT ![p] = NoDag]

(* begin_campaign, and the ends: a refusal of begin_campaign is an         *)
(* exception nobody handles, and the DAG runs on.                          *)
Begin(p) ==
  /\ ctl[p] = "begin"
  /\ \/ (BeginAccepted(p) \/ CommitStart(p) \/ UnlinkPending(p)) /\ UNCHANGED <<ctl, accepted>>
     \/ /\ starting[p] = "started" \/ (starting[p] = "prepared" /\ ~MayBegin)
        /\ Step(p, "begin", "idle") /\ ForgetDag(p)
        /\ ForgetStart(p) /\ UNCHANGED diskVars
     \/ CancelPrepared(p) /\ Step(p, "begin", "idle") /\ ForgetDag(p)
  /\ UNCHANGED <<callVars, dagVars, resumeVars, recordVars, promised, issued, rescueVars, kills>>

KillStart(p) ==
  /\ kills < MaxKills
  /\ ctl[p] # "idle"
  /\ ctl' = [ctl EXCEPT ![p] = "idle"]
  /\ ForgetDag(p)
  /\ ForgetStart(p)
  /\ kills' = kills + 1
  /\ UNCHANGED <<diskVars, callVars, dagVars, resumeVars, recordVars, promised, issued, rescueVars>>

----
(* resume_campaign                                                         *)

resumeFrame == <<callVars, startProcVars, recordVars, startCommandVars, kills>>

(* condor_q is asked about the DAGs of every recorded directory; the       *)
(* cluster id of one of them must be on record.                            *)
LiveDags == {d \in known : dag[d] = "running"}
SnapshotValid == latest # NoDag /\ ~inflight

(* The first look, and the one before the submission.  The query itself    *)
(* may fail, which ends the resume.                                        *)
Look(p) ==
  /\ \E step \in {<<"snapshot", "plan">>, <<"confirm", "reconcile">>} :
       \/ SnapshotValid /\ LiveDags = {} /\ GoOn(p, step[1], step[2])
       \/ GoOn(p, step[1], "unlock")
  /\ UNCHANGED <<diskVars, dagVars, lock, roundVars, inflight, resumes, rescueVars, resumeFrame>>

(* Mutant: any rescue file will do.                                        *)
RescueAgrees_Any(pl) == latest # NoDag /\ rescue[latest] # NoRescue

(* The latest rescue file names exactly the completed tasks.               *)
RescueAgrees(pl) == latest # NoDag /\ rescue[latest] = CompletedIn(pl)

PlanRound(p) ==
  LET pl == PlanFrom([t \in Task |-> "none"]) IN
  /\ \/ /\ SelectedIn(pl) = {} \/ RescueAgrees(pl)
        /\ MakePlan(p, [t \in Task |-> "none"], "plan", "confirm")
        /\ staged' = [staged EXCEPT ![p] = IF rescue[latest] = NoRescue THEN {} ELSE rescue[latest]]
     \/ /\ SelectedIn(pl) # {} /\ ~RescueAgrees(pl)
        /\ GoOn(p, "plan", "unlock")
        /\ UNCHANGED <<plan, seen, files, staged>>
  /\ UNCHANGED <<stateVars, attempt, stray, startVars, dagVars, lock, asked, inflight, resumes,
                 answered, resumeFrame>>

ReconcileStates(p) ==
  /\ \/ ReconcileTask(p)
     \/ Reconciled(p) /\ UNCHANGED <<stateVars, seen>>
  /\ UNCHANGED <<attempt, fileVars, startVars, dagVars, lock, asked, plan, inflight, resumes,
                 rescueVars, resumeFrame>>

(* Mutant: in_flight is not written before the scheduler is contacted.     *)
SubmitRescue_NoIntent(p) ==
  /\ \/ /\ \E d \in Dag : /\ AcceptDag(d, staged[p], staged[p])
                          /\ answered' = [answered EXCEPT ![p] = d]
        /\ GoOn(p, "submit", "acknowledge")
     \/ /\ \E d \in Dag : AcceptDag(d, staged[p], staged[p])
        /\ GoOn(p, "submit", "unlock")
        /\ UNCHANGED answered
  /\ UNCHANGED <<diskVars, lock, roundVars, inflight, resumes, staged, resumeFrame>>

(* condor_submit_dag -dorescuefrom, in the round's directory, which is on  *)
(* record with in_flight before: answered; refused; or not answered in     *)
(* time, whether or not the DAG was accepted.                              *)
SubmitRescue(p) ==
  /\ \/ /\ \E d \in Dag : /\ AcceptDag(d, staged[p], staged[p])
                          /\ answered' = [answered EXCEPT ![p] = d]
        /\ inflight' = TRUE
        /\ GoOn(p, "submit", "acknowledge")
     \/ /\ GoOn(p, "submit", "unlock")
        /\ UNCHANGED <<dagVars, inflight, answered>>
     \/ /\ UNCHANGED dagVars \/ \E d \in Dag : AcceptDag(d, staged[p], staged[p])
        /\ inflight' = TRUE
        /\ GoOn(p, "submit", "unlock")
        /\ UNCHANGED answered
  /\ UNCHANGED <<diskVars, lock, roundVars, resumes, staged, resumeFrame>>

(* The cluster id is recorded, and in_flight cleared, in one write.        *)
Acknowledge(p) ==
  /\ GoOn(p, "acknowledge", "unlock")
  /\ known' = known \cup {answered[p]}
  /\ latest' = answered[p]
  /\ inflight' = FALSE
  /\ answered' = [answered EXCEPT ![p] = NoDag]
  /\ UNCHANGED <<diskVars, dagVars, callVars, startProcVars, returncode, startCommandVars, lock,
                 roundVars, resumes, staged, kills>>

ForgetRescue(p) ==
  /\ staged' = [staged EXCEPT ![p] = {}]
  /\ answered' = [answered EXCEPT ![p] = NoDag]

IssueCondorResume(p, overwrite) ==
  /\ IssueResume(p, overwrite)
  /\ UNCHANGED <<diskVars, dagVars, plan, seen, inflight, rescueVars, resumeFrame>>

EndResume(p) ==
  /\ Unlock(p)
  /\ ForgetRescue(p)
  /\ UNCHANGED <<diskVars, dagVars, inflight, resumes, resumeFrame>>

KillCondorResume(p) ==
  /\ kills < MaxKills
  /\ KillResume(p)
  /\ ForgetRescue(p)
  /\ kills' = kills + 1
  /\ UNCHANGED <<diskVars, dagVars, lock, inflight, resumes, callVars, startProcVars, recordVars,
                 startCommandVars>>

OperatorUnlocks ==
  /\ RemoveStaleLock
  /\ UNCHANGED <<diskVars, dagVars, rctl, roundVars, inflight, resumes, rescueVars, resumeFrame>>

ResumerStep(p) ==
  \/ Look(p) \/ PlanRound(p) \/ ReconcileStates(p) \/ SubmitRescue(p) \/ Acknowledge(p)
  \/ EndResume(p)

----
commandVars == <<startProcVars, resumeVars, recordVars, startCommandVars, rescueVars>>

LoseNode(d) ==
  /\ kills < MaxKills
  /\ (\E t \in Task : EvictNode(d, t) \/ LauncherFails(d, t)) \/ RemoveDag(d)
  /\ kills' = kills + 1
  /\ UNCHANGED commandVars

(* Nobody has to start the campaign, and a job may wait for ever.          *)
Rest ==
  /\ \A p \in Submitter : ctl[p] = "idle"
  /\ \A d \in Dag, t \in Task : node[d][t] # "running"
  /\ UNCHANGED condorVars

CondorNext ==
  \/ \E p \in Submitter :
       \/ \E overwrite \in Overwrite : IssueStart(p, overwrite)
       \/ Prepare(p) \/ SubmitDag(p) \/ RecordDag(p) \/ Begin(p) \/ KillStart(p)
  \/ \E p \in Resumer :
       \/ \E overwrite \in AskOverwrite : IssueCondorResume(p, overwrite)
       \/ ResumerStep(p)
       \/ KillCondorResume(p)
  \/ OperatorUnlocks
  \/ \E d \in Dag : DagStep(d) /\ UNCHANGED <<commandVars, kills>>
  \/ \E d \in Dag : LoseNode(d)
  \/ StrayOutput /\ UNCHANGED <<dagVars, commandVars, kills>>
  \/ Rest

CondorSpec == CondorInit /\ [][CondorNext]_condorVars
====
