---- MODULE CondorNode ----
(***************************************************************************)
(* The rendered DAG as HTCondor runs it, and the launcher script of a node *)
(* (condor_backend.py).  The launcher clears the startup marker, runs the  *)
(* worker, and turns what happened into an exit code: 100 when the payload *)
(* was never reached (the same job is tried again, %startup-retry), 101    *)
(* when it failed (DAGMan tries the node again, %retry, unless the code is *)
(* 100), 0 when the task completed.  A DAG is a process of Worker: the job *)
(* of node t of DAG d makes the call at[d][t].                             *)
(***************************************************************************)
EXTENDS Worker

CONSTANTS
  Dag,            \* DAGMan jobs, numbered in the order of their submission
  Retries,        \* Retries[t]: %retry of t
  StartupRetries, \* StartupRetries[t]: %startup-retry of t
  Wrapped         \* the tasks run through an execution wrapper

NoRescue == {"no rescue file"}

ASSUME DagAssumption ==
  /\ Dag \subseteq Proc \cap (Nat \ {0})
  /\ Retries \in [Task -> Nat]
  /\ StartupRetries \in [Task -> Nat]
  /\ Wrapped \subseteq Task
  /\ ~(NoRescue \subseteq Task)

VARIABLES
  dag,      \* dag[d]: what the scheduler knows of DAG d
  node,     \* node[d][t]: what DAGMan knows of the node
  startups, \* startups[d][t]: startup retries its job has left
  left,     \* left[d][t]: DAG retries the node has left
  rescue,   \* rescue[d]: the DONE nodes of the rescue file in the directory of d
  marker,   \* the tasks whose startup marker exists
  hook,     \* postflight/ and postflight.json
  began,    \* history: the tasks whose current call reached its payload, or
            \* was refused by the checks before it
  tried,    \* tried[d][t]: history: the calls of which that was true
  trouble   \* history: whether a marker could not be written

nodeVars == <<node, startups, left>>
historyVars == <<began, tried, trouble>>
dagVars == <<dag, nodeVars, rescue, marker, hook, historyVars>>

DagState == {"none", "running", "ended"}
DagNodeState == {"waiting", "idle", "running", "done", "failed"}

DagTypeOK ==
  /\ dag \in [Dag -> DagState]
  /\ node \in [Dag -> [Task -> DagNodeState]]
  /\ startups \in [Dag -> [Task -> Nat]]
  /\ left \in [Dag -> [Task -> Nat]]
  /\ rescue \in [Dag -> (SUBSET Task) \cup {NoRescue}]
  /\ marker \subseteq Task
  /\ hook \in {"none", "tried", "done"}
  /\ began \subseteq Task
  /\ tried \in [Dag -> [Task -> Nat]]
  /\ trouble \in BOOLEAN

Untouched(x) == [d \in Dag |-> [t \in Task |-> x]]

DagInit ==
  /\ dag = [d \in Dag |-> "none"]
  /\ node = Untouched("waiting")
  /\ startups = Untouched(0)
  /\ left = Untouched(0)
  /\ rescue = [d \in Dag |-> NoRescue]
  /\ marker = {}
  /\ hook = "none"
  /\ began = {}
  /\ tried = Untouched(0)
  /\ trouble = FALSE

NewDag(d) == dag[d] = "none" /\ \A e \in Dag : dag[e] = "none" => d <= e

(* condor_submit_dag: DAG d, in a directory whose latest rescue file says  *)
(* the nodes of done are; its nodes may start at once.                     *)
AcceptDag(d, done, file) ==
  /\ NewDag(d)
  /\ dag' = [dag EXCEPT ![d] = "running"]
  /\ node' = [node EXCEPT ![d] = [t \in Task |-> IF t \in done THEN "done" ELSE "waiting"]]
  /\ rescue' = [rescue EXCEPT ![d] = file]
  /\ UNCHANGED <<startups, left, marker, hook, historyVars>>

----
(* A node and its job                                                      *)

(* PARENT/CHILD: the node's job is queued, with both of its budgets.       *)
SubmitNode(d, t) ==
  /\ dag[d] = "running" /\ node[d][t] = "waiting"
  /\ \A u \in Parents[t] : node[d][u] = "done"
  /\ node' = [node EXCEPT ![d][t] = "idle"]
  /\ startups' = [startups EXCEPT ![d][t] = StartupRetries[t]]
  /\ left' = [left EXCEPT ![d][t] = Retries[t]]
  /\ UNCHANGED <<diskVars, callVars, dag, rescue, marker, hook, historyVars>>

(* Mutant: the marker of the last job is left where it is.                 *)
StartJob_KeepsMarker(d, t) ==
  /\ dag[d] = "running" /\ node[d][t] = "idle"
  /\ RoomForAttempt(t)
  /\ Enter(d, t)
  /\ node' = [node EXCEPT ![d][t] = "running"]
  /\ began' = began \ {t}
  /\ UNCHANGED <<diskVars, number, verdict, dag, startups, left, rescue, marker, hook, tried,
                 trouble>>

(* The launcher: rm -f "$marker", then the worker.                         *)
StartJob(d, t) ==
  /\ dag[d] = "running" /\ node[d][t] = "idle"
  /\ RoomForAttempt(t)
  /\ Enter(d, t)
  /\ node' = [node EXCEPT ![d][t] = "running"]
  /\ marker' = marker \ {t}
  /\ began' = began \ {t}
  /\ UNCHANGED <<diskVars, number, verdict, dag, startups, left, rescue, hook, tried, trouble>>

(* The launcher cannot remove the marker: it exits 100 without a worker.   *)
LauncherFails(d, t) ==
  /\ dag[d] = "running" /\ node[d][t] = "idle"
  /\ \/ /\ startups[d][t] > 0
        /\ startups' = [startups EXCEPT ![d][t] = @ - 1]
        /\ UNCHANGED node
     \/ /\ startups[d][t] = 0
        /\ node' = [node EXCEPT ![d][t] = "failed"]
        /\ UNCHANGED startups
  /\ UNCHANGED <<diskVars, callVars, dag, left, rescue, marker, hook, historyVars>>

(* The marker is written, or cannot be.                                    *)
TouchMarker(t) ==
  \/ marker' = marker \cup {t} /\ UNCHANGED trouble
  \/ marker' = marker /\ trouble' = TRUE

(* _mark_nonstartup_failure: what the checks refuse is charged to %retry.  *)
MarkRejection(t) == TouchMarker(t)

(* Without a wrapper the worker touches the marker and starts the payload  *)
(* whether or not it could.  With one, the payload is entered through a    *)
(* shell that writes the marker or exits (125); the wrapper may never get  *)
(* that far.                                                               *)
StartPayload(d, t) ==
  \/ /\ Launch(d, t)
     /\ \/ t \notin Wrapped /\ TouchMarker(t) /\ began' = began \cup {t}
        \/ t \in Wrapped /\ marker' = marker \cup {t} /\ began' = began \cup {t} /\ UNCHANGED trouble
        \/ t \in Wrapped /\ UNCHANGED <<marker, began, trouble>>
  \/ /\ LaunchFails(d, t)
     /\ \/ t \notin Wrapped /\ TouchMarker(t) /\ began' = began \cup {t}
        \/ t \in Wrapped /\ UNCHANGED <<marker, began, trouble>>

(* A wrapper that never got to the payload has no product to show, but can *)
(* exit with zero: then the task completes, and the launcher exits 100.    *)
EndPayload(d, t) ==
  /\ PayloadExits(d, t)
  /\ t \notin began => files' = files
  /\ UNCHANGED <<marker, began, trouble>>

RunWorker(d, t) ==
  /\ \/ RejectLaunch(d, t) /\ MarkRejection(t) /\ began' = began \cup {t}
     \/ StartPayload(d, t)
     \/ EndPayload(d, t)
     \/ /\ \/ ChooseNumber(d, t) \/ MakeAttemptDir(d, t) \/ AttemptDirExists(d, t)
           \/ AcceptLaunch(d, t) \/ AnnounceAttempt(d, t) \/ AnnounceState(d, t)
           \/ PublishAttempt(d, t) \/ RecordState(d, t)
        /\ UNCHANGED <<marker, began, trouble>>
  /\ UNCHANGED <<dag, nodeVars, rescue, hook, tried>>

(* What the launcher exits with once the worker has.                       *)
ExitCode(d, t) ==
  IF t \notin marker THEN "startup"
  ELSE IF at[d][t] = "returned" /\ verdict[d][t] = "completed" THEN "success" ELSE "payload"

(* max_retries with retry_until = ExitCode =!= 100, and RETRY UNLESS-EXIT. *)
NextNodeState(d, t) ==
  CASE ExitCode(d, t) = "success" -> "done"
    [] ExitCode(d, t) = "startup" -> IF startups[d][t] > 0 THEN "idle" ELSE "failed"
    [] ExitCode(d, t) = "payload" -> IF left[d][t] > 0 THEN "idle" ELSE "failed"

(* A startup retry runs the same job again; a DAG retry submits a new one, *)
(* with a new budget of startup retries.                                   *)
EndJob(d, t) ==
  LET again == NextNodeState(d, t) = "idle"
      free == ExitCode(d, t) = "startup" /\ startups[d][t] > 0 IN
  /\ node[d][t] = "running" /\ at[d][t] \in {"returned", "raised"}
  /\ node' = [node EXCEPT ![d][t] = NextNodeState(d, t)]
  /\ startups' = [startups EXCEPT ![d][t] =
       IF again THEN IF free THEN @ - 1 ELSE StartupRetries[t] ELSE @]
  /\ left' = [left EXCEPT ![d][t] = IF again /\ ~free THEN @ - 1 ELSE @]
  /\ tried' = [tried EXCEPT ![d][t] = IF t \in began THEN @ + 1 ELSE @]
  /\ ForgetCalls(d, {t})
  /\ UNCHANGED <<diskVars, dag, rescue, marker, hook, began, trouble>>

KillNodeCalls(d, T) ==
  /\ ForgetCalls(d, T)
  /\ stray' = stray \cup UNION {Outputs[t] : t \in {u \in T : at[d][u] = "payload"}}
  /\ UNCHANGED <<stateVars, attempt, files, startVars>>

(* A running job is evicted: Condor puts it back into the queue, and its   *)
(* launcher begins again, at no charge.                                    *)
EvictNode(d, t) ==
  /\ node[d][t] = "running"
  /\ node' = [node EXCEPT ![d][t] = "idle"]
  /\ KillNodeCalls(d, {t})
  /\ UNCHANGED <<dag, startups, left, rescue, marker, hook, historyVars>>

----
(* DAGMan                                                                  *)

DoneNodes(d) == {t \in Task : node[d][t] = "done"}

CanContinue(d) ==
  \E t \in Task : \/ node[d][t] \in {"idle", "running"}
                  \/ node[d][t] = "waiting" /\ \A u \in Parents[t] : node[d][u] = "done"

(* Mutant: the barrier comes after the nodes without parents.              *)
Leaves_Roots == {t \in Task : Parents[t] = {}}

(* The parents of the barrier node.                                        *)
Leaves == {t \in Task : \A u \in Task : t \notin Parents[u]}

(* The POST script of the barrier is the postflight runner, which runs     *)
(* nothing twice; DAGMan leaves a rescue file unless all went well.        *)
EndDag(d) ==
  /\ dag[d] = "running" /\ ~CanContinue(d)
  /\ dag' = [dag EXCEPT ![d] = "ended"]
  /\ \/ /\ Leaves \subseteq DoneNodes(d)
        /\ hook' = "done"
        /\ UNCHANGED rescue
     \/ /\ hook' = IF Leaves \subseteq DoneNodes(d) /\ hook # "done" THEN "tried" ELSE hook
        /\ rescue' = [rescue EXCEPT ![d] = DoneNodes(d)]
  /\ UNCHANGED <<diskVars, callVars, nodeVars, marker, historyVars>>

(* The user removes the DAG: its jobs are killed, and DAGMan writes the    *)
(* rescue file - or is killed before it does.                              *)
RemoveDag(d) ==
  /\ dag[d] = "running"
  /\ dag' = [dag EXCEPT ![d] = "ended"]
  /\ rescue' = [rescue EXCEPT ![d] = DoneNodes(d)] \/ UNCHANGED rescue
  /\ KillNodeCalls(d, Task)
  /\ node' = [node EXCEPT ![d] = [t \in Task |-> IF @[t] \in {"idle", "running"}
                                                 THEN "failed" ELSE @[t]]]
  /\ UNCHANGED <<startups, left, marker, hook, historyVars>>

DagStep(d) ==
  \/ \E t \in Task : SubmitNode(d, t) \/ StartJob(d, t) \/ RunWorker(d, t) \/ EndJob(d, t)
  \/ EndDag(d)
====
