---- MODULE CampaignDisk ----
(***************************************************************************)
(* The campaign directory: the files through which every yall-run process  *)
(* - the local coordinator, the workers, the retry and resume commands and *)
(* the schedulers' batch scripts - communicates.  There is no other shared *)
(* state, so each file is one variable here (a file is replaced atomically *)
(* by _write_json: a temporary file, then rename).                         *)
(*                                                                         *)
(*   state/<task>.json               status[t], attempts[t]                *)
(*   <task>_attempt_NNN/attempt.json attempt[t][n]                         *)
(*   declared data products          files (stray: those still to come     *)
(*                                   from payloads whose worker is gone)   *)
(*   start.json                      start                                 *)
(*   state/start-pending.json        startPending                          *)
(***************************************************************************)
EXTENDS Naturals, FiniteSets

CONSTANTS
  Proc,          \* operating-system processes that run a yall-run command
  Task,          \* the frozen tasks of campaign.json
  File,          \* the declared input and output paths
  Parents,       \* Parents[t]: the tasks t comes after
  Inputs,        \* Inputs[t]: the declared input paths of t
  Outputs,       \* Outputs[t]: the declared output paths of t
  TaskOverwrite, \* the tasks declared with %overwrite
  MaxAttempt     \* bound: the largest attempt number a task can reach

(* What _validate_graph guarantees of a frozen graph, a list of tasks: an  *)
(* output path has one owning task, and the dependencies have no cycle     *)
(* (every set of tasks has one with no parent in the set).                 *)
ASSUME GraphAssumption ==
  /\ IsFiniteSet(Task)
  /\ Parents \in [Task -> SUBSET Task]
  /\ Inputs \in [Task -> SUBSET File]
  /\ Outputs \in [Task -> SUBSET File]
  /\ TaskOverwrite \subseteq Task
  /\ \A t, u \in Task : t # u => Outputs[t] \cap Outputs[u] = {}
  /\ \A S \in SUBSET Task : S # {} => \E t \in S : Parents[t] \cap S = {}

ASSUME MaxAttemptAssumption == MaxAttempt \in Nat \ {0}

AttemptNo == 1 .. MaxAttempt

Terminal == {"completed", "failed"}

(* "absent": no such directory; "made": the directory exists without an    *)
(* attempt.json; otherwise the state recorded in attempt.json.             *)
AttemptState == {"absent", "made", "running"} \cup Terminal

(* "interrupted" is written by the resume of a queued backend only.       *)
TaskStatus == {"pending", "running", "blocked", "interrupted"} \cup Terminal

(* The overwrite policy a start record carries, or "none" with no record.  *)
Policy == {"keep", "overwrite"}
Record == Policy \cup {"none"}

VARIABLES status, attempts, attempt, files, stray, start, startPending

stateVars == <<status, attempts>>
fileVars  == <<files, stray>>
startVars == <<start, startPending>>
diskVars  == <<stateVars, attempt, fileVars, startVars>>

DiskTypeOK ==
  /\ status \in [Task -> TaskStatus]
  /\ attempts \in [Task -> 0 .. MaxAttempt]
  /\ attempt \in [Task -> [AttemptNo -> AttemptState]]
  /\ files \subseteq File
  /\ stray \subseteq File
  /\ start \in Record
  /\ startPending \in Record

(* create_campaign: every state file is written pending/0 before           *)
(* campaign.json publishes the campaign; no product need be absent.        *)
DiskInit ==
  /\ status = [t \in Task |-> "pending"]
  /\ attempts = [t \in Task |-> 0]
  /\ attempt = [t \in Task |-> [n \in AttemptNo |-> "absent"]]
  /\ stray = {}
  /\ start = "none"
  /\ startPending = "none"

(* _write_task_state with both fields: one atomic replacement.             *)
WriteTaskState(t, st, n) ==
  /\ status' = [status EXCEPT ![t] = st]
  /\ attempts' = [attempts EXCEPT ![t] = n]

(* The read-modify-write of `blocked` and of resume's reset to `pending`,  *)
(* which keeps the attempt count.                                          *)
WriteStatusOnly(t, st) ==
  /\ status' = [status EXCEPT ![t] = st]
  /\ UNCHANGED attempts

(* _campaign_overwrite: start.json decides; the pending record covers the  *)
(* window in which a scheduler runs a job before start.json is committed.  *)
CampaignOverwrite ==
  IF start # "none" THEN start = "overwrite" ELSE startPending = "overwrite"

MayOverwrite(t) == t \in TaskOverwrite \/ CampaignOverwrite
====
