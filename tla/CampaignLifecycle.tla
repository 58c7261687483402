---- MODULE CampaignLifecycle ----
(***************************************************************************)
(* What a campaign promises about its tasks, whatever runs them: the       *)
(* abstract specification the backends are to implement.  A task runs only *)
(* after everything it comes after has completed, a completed task stays   *)
(* completed, a task is blocked only by a parent that did not succeed, and *)
(* only an unsuccessful task is set back to pending.                       *)
(***************************************************************************)
CONSTANTS Task, Parents
VARIABLE status

LifecycleInit == status = [t \in Task |-> "pending"]

Become(t, from, to) ==
  /\ status[t] \in from
  /\ status' = [status EXCEPT ![t] = to]

ParentsDone(t) == \A u \in Parents[t] : status[u] = "completed"

Run(t) == ParentsDone(t) /\ Become(t, {"pending", "failed"}, "running")
(* An attempt that fails its checks never runs.                            *)
Reject(t) == ParentsDone(t) /\ Become(t, {"pending", "failed"}, "failed")
Complete(t) == Become(t, {"running"}, "completed")
Fail(t) == Become(t, {"running"}, "failed")
Block(t) ==
  /\ \E u \in Parents[t] : status[u] \in {"failed", "blocked"}
  /\ Become(t, {"pending"}, "blocked")
SetBack(t) == Become(t, {"failed", "blocked"}, "pending")

LifecycleNext ==
  \E t \in Task : Run(t) \/ Reject(t) \/ Complete(t) \/ Fail(t) \/ Block(t) \/ SetBack(t)

Lifecycle == LifecycleInit /\ [][LifecycleNext]_status
====
