---- MODULE RecoveryProperties ----
(***************************************************************************)
(* What is asked of submission and recovery on Slurm and PBS together.     *)
(***************************************************************************)
EXTENDS Recovery, BatchProperties

(* "Recovery refuses to duplicate them", "resume continues that same       *)
(* campaign without rerunning successful tasks": whatever was submitted,   *)
(* cancelled, lost or killed before, a task has at most one live job, gets *)
(* it only while no attempt of it completed - also when only attempt.json  *)
(* says so - and stays completed.                                          *)
LiveJobs == [t \in Task |-> {j \in Job : runs[j] = t /\ queue[j] \in {"queued", "running"}}]

Abstract == INSTANCE QueuedCampaign WITH
  live <- LiveJobs,
  completed <- {t \in Task : HasCompletedAttempt(t)}
ImplementsQueuedCampaign == Abstract!Queued

(* "All accepted job IDs are recorded before the held jobs are released":  *)
(* the next resume finds every job that may run, whoever was killed.       *)
LiveJobsKnown == \A j \in Job : queue[j] \in {"queued", "running"} => j \in KnownJobs

(* "Further recovery is refused because a job may have been accepted":     *)
(* nothing is submitted while a submission is unconfirmed, also after the  *)
(* lock of a killed resume was removed.                                    *)
UnconfirmedStops ==
  [][inflight => \A j \in Job : queue[j] = "none" => queue'[j] = "none"]_recoveryVars

----
(* Stated by the documentation                                             *)

(* "resume --overwrite can remove the declared outputs belonging to        *)
(* unfinished tasks and retry them": at the submission of the round, when  *)
(* the queue was asked again and no earlier job is left, a task that had   *)
(* no job at the first look has no output a worker will refuse.  (One that *)
(* had can still have been started, and have written, before scancel; and  *)
(* what a payload writes that outlived its job is no resume's fault.)      *)
NoPayloadOutlived == kills = 0 /\ backend = "slurm"

OverwriteClears ==
  \A p \in Resumer : rctl[p] = "submit" /\ asked[p] /\ NoPayloadOutlived =>
    \A t \in Selected(p) : NodesOf(snap[p])[t] = "none" => OutputsClear(t)
====
