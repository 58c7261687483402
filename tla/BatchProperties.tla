---- MODULE BatchProperties ----
(***************************************************************************)
(* What is asked of Slurm and PBS submission.  The first properties hold   *)
(* however submissions overlap and whoever is killed; those that need one  *)
(* submitter at a time say so (overlapping starts are not excluded by the  *)
(* start protocol).                                                        *)
(***************************************************************************)
EXTENDS BatchSubmit

HasCompletedAttempt(t) == \E n \in AttemptNo : attempt[t][n] = "completed"

(* A task is attempted only once each of its parents has a completed       *)
(* attempt on record: the afterok chain of one submission is complete,     *)
(* also when submissions overlap, fail, or leave held jobs behind.         *)
AttemptsFollowDependencies ==
  \A t \in Task : (\E n \in AttemptNo : attempt[t][n] # "absent") =>
    \A u \in Parents[t] : HasCompletedAttempt(u)

(* The postflight runner checks no states: its job comes after the leaves  *)
(* of the graph only, and that must mean after everything.                 *)
PostflightFollowsAll == hook # "none" => \A t \in Task : HasCompletedAttempt(t)

(* No worker runs before start.json decides its overwrite policy.          *)
StartedBeforeRunning ==
  \A j \in Job : queue[j] \in {"queued", "running"} => start # "none"

(* Whatever fails in a submission, the pending record does not outlive it  *)
(* unless a submitter was killed.                                          *)
PendingWithdrawn ==
  kills = 0 /\ (\A p \in Submitter : ctl[p] = "idle") => startPending = "none"

----
(* One submitter at a time                                                 *)

(* "makes a best-effort attempt to cancel already-submitted held jobs and  *)
(* leaves the campaign unstarted": what a failed submission leaves behind  *)
(* never runs.                                                             *)
FailedSubmissionUnstarted ==
  ~overlap /\ returncode = "submit_failed" =>
    /\ start = "none"
    /\ \A t \in Task : status[t] = "pending"
    /\ Released = {}

----
(* A campaign whose submission was reported runs to its end: every job of  *)
(* it is done, or one has failed and keeps those after it waiting.         *)
RecordedJobs == {recorded[n] : n \in Name} \ {NoJob}

CampaignEnds ==
  returncode = "zero" ~> \/ \A j \in RecordedJobs : queue[j] = "done"
                         \/ \E j \in RecordedJobs : queue[j] = "failed"
====
