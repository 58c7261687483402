---- MODULE StartProtocol ----
(***************************************************************************)
(* The two-phase start every backend goes through (campaign.py):           *)
(* prepare_campaign_start checks the campaign and writes                   *)
(* state/start-pending.json; the backend then submits its jobs (the local  *)
(* one has none); begin_campaign writes start.json and removes the pending *)
(* record; cancel_prepared_start withdraws it after an exception.          *)
(*                                                                         *)
(* The guards read files and the writes come later: no lock makes the two  *)
(* one step, so each check and each write is an action of its own.         *)
(***************************************************************************)
EXTENDS CampaignDisk

VARIABLES
  starting,  \* starting[p]: the next step of p's start
  policy     \* policy[p]: the overwrite policy p asked for or adopted

startProcVars == <<starting, policy>>
protocolVars == <<diskVars, startProcVars>>

StartPC == {"out", "checked", "prepared", "commit", "unlink", "cancel", "started"}

StartTypeOK ==
  /\ starting \in [Proc -> StartPC]
  /\ policy \in [Proc -> Record]

StartInit ==
  /\ starting = [p \in Proc |-> "out"]
  /\ policy = [p \in Proc |-> "none"]

Move(p, from, to) ==
  /\ starting[p] = from
  /\ starting' = [starting EXCEPT ![p] = to]

----
(* _validate_unstarted                                                     *)
Unstarted ==
  /\ start = "none"
  /\ \A t \in Task : status[t] = "pending" /\ attempts[t] = 0

(* _existing_declared_outputs is empty                                     *)
NoOutputConflict(asked) ==
  \/ asked = "overwrite"
  \/ \A t \in Task \ TaskOverwrite : Outputs[t] \cap files = {}

(* The guards of prepare_campaign_start; a refusal changes nothing.        *)
CheckPrepare(p, asked) ==
  /\ Unstarted
  /\ NoOutputConflict(asked)
  /\ startPending = "none"
  /\ Move(p, "out", "checked")
  /\ policy' = [policy EXCEPT ![p] = asked]
  /\ UNCHANGED diskVars

WritePending(p) ==
  /\ Move(p, "checked", "prepared")
  /\ startPending' = policy[p]
  /\ UNCHANGED <<stateVars, attempt, fileVars, start, policy>>

(* begin_campaign: a pending record, whoever wrote it, supplies the policy *)
(* and leaves only start.json to check; without one the campaign is        *)
(* validated again.                                                        *)
MayBegin == IF startPending # "none" THEN start = "none" ELSE Unstarted

BeginAccepted(p) ==
  /\ MayBegin
  /\ Move(p, "prepared", "commit")
  /\ policy' = [policy EXCEPT ![p] = IF startPending # "none" THEN startPending ELSE @]
  /\ UNCHANGED diskVars

BeginRefused(p) ==
  /\ ~MayBegin
  /\ Move(p, "prepared", "cancel")
  /\ UNCHANGED <<diskVars, policy>>

CommitStart(p) ==
  /\ Move(p, "commit", "unlink")
  /\ start' = policy[p]
  /\ UNCHANGED <<stateVars, attempt, fileVars, startPending, policy>>

UnlinkPending(p) ==
  /\ Move(p, "unlink", "started")
  /\ startPending' = "none"
  /\ UNCHANGED <<stateVars, attempt, fileVars, start, policy>>

(* Mutant: the exception goes on without withdrawing the record.           *)
CancelPrepared_Kept(p) ==
  /\ Move(p, "cancel", "out")
  /\ policy' = [policy EXCEPT ![p] = "none"]
  /\ UNCHANGED diskVars

(* cancel_prepared_start, then the exception goes on to the command line.  *)
CancelPrepared(p) ==
  /\ Move(p, "cancel", "out")
  /\ startPending' = "none"
  /\ policy' = [policy EXCEPT ![p] = "none"]
  /\ UNCHANGED <<stateVars, attempt, fileVars, start>>

StartStep(p) ==
  \/ WritePending(p) \/ BeginAccepted(p) \/ BeginRefused(p)
  \/ CommitStart(p) \/ UnlinkPending(p) \/ CancelPrepared(p)

ForgetStart(p) ==
  /\ starting' = [starting EXCEPT ![p] = "out"]
  /\ policy' = [policy EXCEPT ![p] = "none"]
====
