---- MODULE CondorProperties ----
(***************************************************************************)
(* What is asked of a Condor campaign: its start, its DAG and its nodes,   *)
(* and the rescue DAGs of its resumes.                                     *)
(***************************************************************************)
EXTENDS CondorCampaign

HasCompletedAttempt(t) == \E n \in AttemptNo : attempt[t][n] = "completed"

Live(t) == {d \in Dag : node[d][t] \in {"idle", "running"}}

(* "Recovery refuses to duplicate them": a task is a live node of one DAG  *)
(* at most, also after a submission nobody heard back from and after the   *)
(* lock of a killed resume was removed.                                    *)
OneLiveNode == \A t \in Task : \A d, e \in Live(t) : d = e

(* "resume continues that same campaign without rerunning successful       *)
(* tasks": what Yall takes for completed gets no node of a rescue DAG,     *)
(* although a removed DAG may not know of it, and nothing else is DONE.    *)
(* (A node that is already live may run again: Condor can evict a job      *)
(* whose worker has recorded its completion.)                              *)
RescueKeepsCompleted ==
  [][\A t \in Task : Live(t) = {} /\ Effective(t, "none") = "completed" => Live(t)' = {}]_condorVars

(* "Record the requested start policy before submission so an early worker *)
(* sees the same overwrite choice": a node that runs before start.json is  *)
(* written, or after the start was killed, still reads it.                 *)
EarlyNodesSeePolicy ==
  \A d \in Dag : dag[d] = "running" => CampaignOverwrite = (promised = "overwrite")

(* "Exhausting the startup retry budget does not consume application       *)
(* retries", and nothing else is free: what a node has left of %retry is   *)
(* what its payload tries, refused ones included, have not used up, unless *)
(* a marker could not be written.                                          *)
PayloadsCharged ==
  ~trouble => \A d \in Dag, t \in Task :
    node[d][t] \in {"idle", "running"} => tried[d][t] + left[d][t] = Retries[t]

(* The barrier knows only the leaves of the graph, and the DONE lines of a *)
(* rescue file: postflight still runs after everything.                    *)
PostflightFollowsAll == hook # "none" => \A t \in Task : HasCompletedAttempt(t)
====
