---- MODULE QueuedCampaign ----
(***************************************************************************)
(* What a queued campaign promises about the jobs of its tasks, whatever   *)
(* is submitted, recovered or lost: the abstract specification submission  *)
(* and recovery implement together.  A task has at most one live job, one  *)
(* that may run; it gets one only while it is not completed; only its live *)
(* job completes it, and it stays completed.                               *)
(***************************************************************************)
CONSTANTS Task, Job
VARIABLES live, completed

QueuedInit ==
  /\ live = [t \in Task |-> {}]
  /\ completed = {}

(* Jobs are released, any number of them at once, and others end.          *)
LiveChanges(t) ==
  \/ live'[t] \subseteq live[t]
  \/ live[t] = {} /\ t \notin completed /\ \E j \in Job : live'[t] = {j}

CompletedChanges ==
  /\ completed \subseteq completed'
  /\ \A t \in completed' \ completed : t \in Task /\ live[t] # {}

QueuedNext == CompletedChanges /\ \A t \in Task : LiveChanges(t)

Queued == QueuedInit /\ [][QueuedNext]_<<live, completed>>
====
