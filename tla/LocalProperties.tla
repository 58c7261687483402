---- MODULE LocalProperties ----
(***************************************************************************)
(* What is asked of the local backend.  The properties in the first part   *)
(* hold when commands are issued one at a time (one process); those in the *)
(* second part hold however commands overlap.                              *)
(***************************************************************************)
EXTENDS LocalCampaign

Attempted(t) == \E n \in AttemptNo : attempt[t][n] # "absent"

----
(* One command at a time, with kills, interrupts, retries and resumes      *)

(* A completed task still has every declared output: neither a later       *)
(* attempt nor resume --overwrite takes one away.                          *)
CompletedHasOutputs ==
  \A t \in Task : status[t] = "completed" => Outputs[t] \subseteq files

(* start and resume end without an error only when every task completed    *)
(* and the declared postflight ran.                                        *)
SuccessIsComplete ==
  \A p \in Proc : ctl[p] = "ok" /\ job[p] \in {"start", "resume"} =>
    AllCompleted /\ (HasPostflight => hook = "done")

(* "campaign dependency graph made no progress" is never raised.           *)
NeverStalled ==
  \A p \in Proc : ctl[p] = "scan" /\ cursor[p] > Len(TaskOrder) => ~Stalled(p)

(* A task recorded as running has a worker, unless one was killed.         *)
RunningHasWorker ==
  kills = 0 => \A t \in Task : status[t] = "running" =>
    \E p \in Proc : at[p][t] \in {"launch", "payload", "publish", "record"}

(* The local backend implements the lifecycle.                             *)
Abstract == INSTANCE CampaignLifecycle WITH status <- status
ImplementsLifecycle == Abstract!Lifecycle

----
(* However commands overlap                                                *)

(* Even when a retry, a resume and a start overlap and states go back and  *)
(* forth, a task is attempted only once each of its parents has a          *)
(* completed attempt on record.                                            *)
AttemptedAfterParentAttempts ==
  \A t \in Task : Attempted(t) =>
    \A u \in Parents[t] : \E n \in AttemptNo : attempt[u][n] = "completed"

(* Postflight runs only after every task has a completed attempt on record. *)
PostflightAfterAttempts ==
  hook # "none" => \A t \in Task : \E n \in AttemptNo : attempt[t][n] = "completed"

(* Every command comes to an end: no coordinator waits forever and no pool *)
(* shutdown hangs, as long as payloads and hooks end.                      *)
CommandsEnd == \A p \in Proc : ctl[p] # "idle" ~> ctl[p] = "idle"
====
