---- MODULE CondorProofs ----
(***************************************************************************)
(* Condor campaigns, for any number of tasks, DAGs, starts and resumes:    *)
(* what a DAG's nodes, its barrier and its rescue file claim of the tasks  *)
(* is what the attempt records say, and while starts do not overlap one    *)
(* DAG at most is running, which is why no task has two live nodes.        *)
(***************************************************************************)
EXTENDS CondorProperties, WorkerProofs

USE DEF diskVars, stateVars, fileVars, startVars, callVars, dagVars, nodeVars, historyVars,
        startProcVars, resumeVars, roundVars, recordVars, startCommandVars, rescueVars,
        resumeFrame, commandVars

----
(* The attempt records                                                     *)

(* What a node's job does to the records is what run_task does.            *)
LEMMA RunWorkerStep ==
  ASSUME NEW d \in Dag, NEW t \in Task, RunWorker(d, t)
  PROVE  WorkerStep(d, t)
  BY DEF RunWorker, WorkerStep, StartPayload, EndPayload

(* The calls of an evicted job, or of a removed DAG, are gone with it.     *)
LEMMA KillNodeCallsInv ==
  ASSUME WorkerInv, NEW d \in Dag, NEW T \in SUBSET Task, KillNodeCalls(d, T)
  PROVE  WorkerInv' /\ KeepsTerminal /\ UNCHANGED attempt
<1>1. stray' \subseteq File
  BY GraphAssumption DEF KillNodeCalls, WorkerInv, WorkerTypeOK, DiskTypeOK
<1>2. DiskTypeOK' /\ ForgetCalls(d, T) /\ UNCHANGED <<stateVars, attempt>>
  BY <1>1 DEF KillNodeCalls, WorkerInv, WorkerTypeOK, DiskTypeOK
<1> QED
  BY <1>2, ForgetCallsInv, DagAssumption

(* A step that changes no record, no state file and no call.               *)
LEMMA WorkerIdle ==
  ASSUME WorkerInv, DiskTypeOK', UNCHANGED <<stateVars, attempt, callVars>>
  PROVE  WorkerInv' /\ KeepsTerminal /\ KeepsAttempts
<1>1. \A t \in Task : status'[t] \in {"pending", "blocked", status[t]}
  OBVIOUS
<1> QED
  BY <1>1, StatusInv DEF KeepsAttempts

(* A step of DAGMan, of a job or of the scheduler.                         *)
LEMMA DagWorker ==
  ASSUME WorkerInv, NEW d \in Dag, DagStep(d) \/ LoseNode(d)
  PROVE  WorkerInv' /\ KeepsTerminal /\ KeepsAttempts
<1>0. DiskTypeOK /\ d \in Proc
  BY DagAssumption DEF WorkerInv, WorkerTypeOK
<1>1. ASSUME UNCHANGED <<diskVars, callVars>>
      PROVE  WorkerInv' /\ KeepsTerminal /\ KeepsAttempts
  BY <1>0, <1>1, WorkerIdle DEF DiskTypeOK
<1>2. ASSUME NEW t \in Task, RunWorker(d, t)
      PROVE  WorkerInv' /\ KeepsTerminal /\ KeepsAttempts
  BY <1>0, <1>2, RunWorkerStep, WorkerStepInv, WorkerKeepsAttempts
<1>3. ASSUME NEW t \in Task, StartJob(d, t)
      PROVE  WorkerInv' /\ KeepsTerminal /\ KeepsAttempts
  BY <1>0, <1>3, BeginInv DEF StartJob, Enter, DiskTypeOK, KeepsAttempts
<1>4. ASSUME NEW t \in Task, EndJob(d, t)
      PROVE  WorkerInv' /\ KeepsTerminal /\ KeepsAttempts
  BY <1>0, <1>4, ForgetCallsInv DEF EndJob, DiskTypeOK, KeepsAttempts
<1>5. ASSUME NEW T \in SUBSET Task, KillNodeCalls(d, T)
      PROVE  WorkerInv' /\ KeepsTerminal /\ KeepsAttempts
  BY <1>5, KillNodeCallsInv DEF KeepsAttempts
<1> QED
  BY <1>1, <1>2, <1>3, <1>4, <1>5
  DEF DagStep, SubmitNode, EndDag, LoseNode, EvictNode, LauncherFails, RemoveDag

(* What no start takes back: start.json.                                   *)
StartKept == start # "none" => start' # "none"

----
(* The nodes                                                               *)

(* A call of run_task is the job of a running node.                        *)
CallsAreNodes ==
  \A p \in Proc : \A t \in Task : at[p][t] # "idle" => p \in Dag /\ node[p][t] = "running"

(* Where DAGMan is with a node: only a running DAG has jobs, and a node it *)
(* takes for done has a completed attempt and comes after such nodes.      *)
NodeOK(d, t) ==
  /\ dag[d] = "none" => node[d][t] = "waiting"
  /\ node[d][t] \in {"idle", "running"} => dag[d] = "running"
  /\ node[d][t] = "waiting" => tried[d][t] = 0
  /\ node[d][t] = "done" => HasCompletedAttempt(t)
  /\ node[d][t] # "waiting" => \A u \in Parents[t] : node[d][u] = "done"

DagInv ==
  /\ DagTypeOK
  /\ CallsAreNodes
  /\ ~trouble => marker = began
  /\ \A d \in Dag : \A t \in Task : NodeOK(d, t)
  /\ PayloadsCharged
  /\ PostflightFollowsAll

(* One entry of a table of nodes.                                          *)
LEMMA NodeWrite ==
  ASSUME NEW S, NEW f \in [Dag -> [Task -> S]], NEW d \in Dag, NEW t \in Task, NEW v \in S, NEW g,
         g = [f EXCEPT ![d][t] = v]
  PROVE  /\ g \in [Dag -> [Task -> S]]
         /\ \A e \in Dag : \A u \in Task : g[e][u] = IF e = d /\ u = t THEN v ELSE f[e][u]
  OBVIOUS

(* Completed attempts stay completed.                                      *)
LEMMA CompletedKept ==
  ASSUME KeepsTerminal, NEW t \in Task, HasCompletedAttempt(t)
  PROVE  HasCompletedAttempt(t)'
  BY DEF KeepsTerminal, HasCompletedAttempt, Terminal

(* Steps beside the DAGs.                                                  *)
LEMMA DagKept ==
  ASSUME DagInv, KeepsTerminal, UNCHANGED <<dagVars, at>>
  PROVE  DagInv'
<1>1. \A t \in Task : HasCompletedAttempt(t) => HasCompletedAttempt(t)'
  BY CompletedKept
<1> QED
  BY <1>1 DEF DagInv, DagTypeOK, CallsAreNodes, NodeOK, PayloadsCharged, PostflightFollowsAll

(* A DAG is accepted whose rescue file names completed tasks only, and     *)
(* with each the tasks it comes after.                                     *)
LEMMA AcceptDagInv ==
  ASSUME DagInv, NEW d \in Dag, NEW done \in SUBSET Task,
         NEW file \in (SUBSET Task) \cup {NoRescue},
         AcceptDag(d, done, file), UNCHANGED <<attempt, at>>,
         \A t \in done : HasCompletedAttempt(t) /\ Parents[t] \subseteq done
  PROVE  DagInv'
<1>1. /\ dag[d] = "none" /\ dag' = [dag EXCEPT ![d] = "running"]
      /\ node' = [node EXCEPT ![d] = [t \in Task |-> IF t \in done THEN "done" ELSE "waiting"]]
      /\ rescue' = [rescue EXCEPT ![d] = file]
      /\ UNCHANGED <<startups, left, marker, hook, historyVars>>
  BY DEF AcceptDag, NewDag
<1>2. /\ \A e \in Dag : dag'[e] = IF e = d THEN "running" ELSE dag[e]
      /\ \A e \in Dag, t \in Task :
           node'[e][t] = IF e = d THEN IF t \in done THEN "done" ELSE "waiting" ELSE node[e][t]
  BY <1>1 DEF DagInv, DagTypeOK
<1>3. DagTypeOK'
  BY <1>1 DEF DagInv, DagTypeOK, DagState, DagNodeState
<1>4. \A t \in Task : node[d][t] = "waiting" /\ tried[d][t] = 0
  BY <1>1 DEF DagInv, NodeOK
<1>5. CallsAreNodes'
  BY <1>2, <1>4 DEF DagInv, CallsAreNodes
<1>6. ASSUME NEW e \in Dag, NEW t \in Task
      PROVE  NodeOK(e, t)'
  <2>1. NodeOK(e, t) /\ Parents[t] \subseteq Task
    BY GraphAssumption DEF DagInv
  <2>2. HasCompletedAttempt(t)' = HasCompletedAttempt(t)
    BY DEF HasCompletedAttempt
  <2> QED
    BY <1>1, <1>2, <1>4, <2>1, <2>2 DEF NodeOK
<1>7. PayloadsCharged'
  BY <1>1, <1>2 DEF DagInv, PayloadsCharged
<1>8. PostflightFollowsAll'
  BY <1>1 DEF DagInv, PostflightFollowsAll, HasCompletedAttempt
<1> QED
  BY <1>1, <1>3, <1>5, <1>6, <1>7, <1>8 DEF DagInv

(* A node whose parents are done moves on, to be done when it completed.   *)
LEMMA NodeMoves ==
  ASSUME DagInv, NEW d \in Dag, NEW t \in Task, NEW v \in DagNodeState \ {"waiting"},
         node' = [node EXCEPT ![d][t] = v], dag[d] = "running", node[d][t] # "done",
         \A u \in Parents[t] : node[d][u] = "done",
         v = "done" => HasCompletedAttempt(t),
         UNCHANGED dag, KeepsTerminal,
         \A e \in Dag : \A u \in Task : tried'[e][u] = tried[e][u] \/ (e = d /\ u = t)
  PROVE  /\ node' \in [Dag -> [Task -> DagNodeState]]
         /\ \A e \in Dag : \A u \in Task : node'[e][u] = IF e = d /\ u = t THEN v ELSE node[e][u]
         /\ \A e \in Dag : \A u \in Task : NodeOK(e, u)'
<1>1. /\ node' \in [Dag -> [Task -> DagNodeState]]
      /\ \A e \in Dag : \A u \in Task : node'[e][u] = IF e = d /\ u = t THEN v ELSE node[e][u]
  BY NodeWrite DEF DagInv, DagTypeOK
<1>2. ASSUME NEW e \in Dag, NEW u \in Task
      PROVE  NodeOK(e, u)'
  <2>1. NodeOK(e, u) /\ Parents[u] \subseteq Task /\ HasCompletedAttempt(t) \in BOOLEAN
    BY GraphAssumption DEF DagInv, HasCompletedAttempt
  <2>2. /\ HasCompletedAttempt(u) => HasCompletedAttempt(u)'
        /\ HasCompletedAttempt(t) => HasCompletedAttempt(t)'
    BY CompletedKept
  <2>3. CASE e = d /\ u = t
    BY <1>1, <2>1, <2>2, <2>3 DEF NodeOK
  <2>4. CASE ~(e = d /\ u = t)
    BY <1>1, <2>1, <2>2, <2>4 DEF NodeOK
  <2> QED
    BY <2>3, <2>4
<1> QED
  BY <1>1, <1>2

(* PARENT/CHILD lets a node begin, with its whole budget of retries.       *)
LEMMA SubmitNodeInv ==
  ASSUME DagInv, NEW d \in Dag, NEW t \in Task, SubmitNode(d, t)
  PROVE  DagInv'
<1>1. /\ startups' \in [Dag -> [Task -> Nat]] /\ left' \in [Dag -> [Task -> Nat]]
      /\ \A e \in Dag : \A u \in Task :
           left'[e][u] = IF e = d /\ u = t THEN Retries[t] ELSE left[e][u]
  <2>1. Retries[t] \in Nat /\ StartupRetries[t] \in Nat
    BY DagAssumption
  <2> QED
    BY <2>1, NodeWrite DEF SubmitNode, DagInv, DagTypeOK
<1>2. /\ node' \in [Dag -> [Task -> DagNodeState]]
      /\ \A e \in Dag : \A u \in Task : node'[e][u] = IF e = d /\ u = t THEN "idle" ELSE node[e][u]
      /\ \A e \in Dag : \A u \in Task : NodeOK(e, u)'
  <2>1. KeepsTerminal /\ "idle" \in DagNodeState \ {"waiting"}
    BY DEF SubmitNode, KeepsTerminal, DagNodeState
  <2> QED
    BY <2>1, NodeMoves DEF SubmitNode
<1>3. node[d][t] = "waiting" /\ tried[d][t] = 0
  BY DEF SubmitNode, DagInv, NodeOK
<1>4. UNCHANGED <<dag, rescue, marker, hook, historyVars, at, attempt>>
  BY DEF SubmitNode
<1>5. DagTypeOK' /\ CallsAreNodes'
  <2>1. DagTypeOK'
    BY <1>1, <1>2, <1>4 DEF DagInv, DagTypeOK
  <2>2. CallsAreNodes'
    BY <1>2, <1>3, <1>4 DEF DagInv, CallsAreNodes
  <2> QED
    BY <2>1, <2>2
<1>6. PayloadsCharged'
  <2>1. tried[d][t] + left'[d][t] = Retries[t]
    BY <1>1, <1>3, DagAssumption
  <2> QED
    BY <1>1, <1>2, <1>4, <2>1 DEF DagInv, PayloadsCharged
<1>7. PostflightFollowsAll'
  BY <1>4 DEF DagInv, PostflightFollowsAll, HasCompletedAttempt
<1> QED
  BY <1>2, <1>4, <1>5, <1>6, <1>7 DEF DagInv

(* The launcher clears the marker before it runs the worker.               *)
LEMMA StartJobInv ==
  ASSUME WorkerInv, DagInv, NEW d \in Dag, NEW t \in Task, StartJob(d, t)
  PROVE  DagInv'
<1>1. node[d][t] = "idle" /\ dag[d] = "running" /\ \A u \in Parents[t] : node[d][u] = "done"
  BY DEF StartJob, DagInv, NodeOK
<1>2. UNCHANGED <<dag, startups, left, rescue, hook, tried, trouble, attempt>>
  BY DEF StartJob
<1>3. /\ node' \in [Dag -> [Task -> DagNodeState]]
      /\ \A e \in Dag : \A u \in Task :
           node'[e][u] = IF e = d /\ u = t THEN "running" ELSE node[e][u]
      /\ \A e \in Dag : \A u \in Task : NodeOK(e, u)'
  <2>1. KeepsTerminal /\ "running" \in DagNodeState \ {"waiting"}
    BY <1>2 DEF KeepsTerminal, DagNodeState
  <2> QED
    BY <1>1, <1>2, <2>1, NodeMoves DEF StartJob
<1>4. d \in Proc /\ \A q \in Proc : \A u \in Task : (q = d /\ u = t) \/ at'[q][u] = at[q][u]
  BY DagAssumption, GotoAt DEF StartJob, Enter, WorkerInv, WorkerPC
<1>5. DagTypeOK' /\ CallsAreNodes'
  <2>1. DagTypeOK'
    BY <1>2, <1>3 DEF StartJob, DagInv, DagTypeOK
  <2>2. CallsAreNodes'
    BY <1>3, <1>4 DEF DagInv, CallsAreNodes
  <2> QED
    BY <2>1, <2>2
<1>6. PayloadsCharged'
  BY <1>1, <1>2, <1>3 DEF DagInv, PayloadsCharged
<1>7. PostflightFollowsAll' /\ (~trouble' => marker' = began')
  BY <1>2 DEF StartJob, DagInv, PostflightFollowsAll, HasCompletedAttempt
<1> QED
  BY <1>3, <1>5, <1>6, <1>7 DEF DagInv

(* The worker marks that its payload is reached, or could not mark it.     *)
LEMMA RunWorkerInv ==
  ASSUME WorkerInv, DagInv, KeepsTerminal, NEW d \in Dag, NEW t \in Task, RunWorker(d, t)
  PROVE  DagInv'
<1>1. /\ marker' \subseteq Task /\ began' \subseteq Task /\ trouble' \in BOOLEAN
      /\ (~trouble' => ~trouble /\ marker' = began')
  BY DEF RunWorker, MarkRejection, TouchMarker, StartPayload, EndPayload, DagInv, DagTypeOK
<1>2. UNCHANGED <<dag, node, startups, left, rescue, hook, tried>>
  BY DEF RunWorker
<1>3. at[d][t] # "idle" /\ \A q \in Proc : \A u \in Task : (q = d /\ u = t) \/ at'[q][u] = at[q][u]
  BY RunWorkerStep, WorkerStepLocal, DagAssumption DEF WorkerInv
<1>4. CallsAreNodes'
  BY <1>2, <1>3, DagAssumption DEF DagInv, CallsAreNodes
<1>5. \A u \in Task : HasCompletedAttempt(u) => HasCompletedAttempt(u)'
  BY CompletedKept
<1> QED
  BY <1>1, <1>2, <1>4, <1>5
  DEF DagInv, DagTypeOK, NodeOK, PayloadsCharged, PostflightFollowsAll

(* What a call leaves when it is forgotten.                                *)
LEMMA ForgottenCalls ==
  ASSUME WorkerInv, CallsAreNodes, NEW d \in Dag, NEW T \in SUBSET Task, ForgetCalls(d, T)
  PROVE  \A q \in Proc : \A u \in Task : at'[q][u] = IF q = d /\ u \in T THEN "idle" ELSE at[q][u]
  BY DagAssumption DEF ForgetCalls, WorkerInv, WorkerTypeOK

(* A node is done when its call recorded a completion.                     *)
LEMMA SuccessCompletes ==
  ASSUME WorkerInv, NEW d \in Dag, NEW t \in Task, ExitCode(d, t) = "success"
  PROVE  HasCompletedAttempt(t)
<1>1. at[d][t] = "returned" /\ verdict[d][t] = "completed"
  BY DEF ExitCode
<1>2. CallOK(d, t)
  BY DagAssumption DEF WorkerInv, CallConsistent
<1> QED
  BY <1>1, <1>2 DEF CallOK, OwnsAttempt, OwnerPC, HasCompletedAttempt

(* The next job is charged to startup retries when the payload was never   *)
(* reached, and otherwise to %retry.                                       *)
LEMMA EndJobInv ==
  ASSUME WorkerInv, DagInv, NEW d \in Dag, NEW t \in Task, EndJob(d, t)
  PROVE  DagInv'
<1> DEFINE v == NextNodeState(d, t)
           free == ExitCode(d, t) = "startup" /\ startups[d][t] > 0
           s == IF v = "idle" THEN IF free THEN startups[d][t] - 1 ELSE StartupRetries[t]
                              ELSE startups[d][t]
           l == IF v = "idle" /\ ~free THEN left[d][t] - 1 ELSE left[d][t]
           n == IF t \in began THEN tried[d][t] + 1 ELSE tried[d][t]
<1>1. /\ node[d][t] = "running" /\ dag[d] = "running" /\ \A u \in Parents[t] : node[d][u] = "done"
      /\ startups[d][t] \in Nat /\ left[d][t] \in Nat /\ tried[d][t] \in Nat
  <2>1. node[d][t] = "running" /\ NodeOK(d, t) /\ DagTypeOK
    BY DEF EndJob, DagInv
  <2> QED
    BY <2>1 DEF NodeOK, DagTypeOK
<1>2. ExitCode(d, t) \in {"startup", "success", "payload"}
  BY DEF ExitCode
<1>3. /\ v \in {"done", "idle", "failed"} /\ (v = "done" => ExitCode(d, t) = "success")
      /\ v = "idle" => free \/ (ExitCode(d, t) = "payload" /\ left[d][t] > 0)
  BY <1>2 DEF NextNodeState
<1>4. /\ node' = [node EXCEPT ![d][t] = v]
      /\ startups' = [startups EXCEPT ![d][t] = s]
      /\ left' = [left EXCEPT ![d][t] = l]
      /\ tried' = [tried EXCEPT ![d][t] = n]
      /\ UNCHANGED <<dag, rescue, marker, hook, began, trouble, attempt>>
  BY DEF EndJob, DagInv, DagTypeOK
<1>5. s \in Nat /\ l \in Nat /\ n \in Nat
  BY <1>1, <1>3, DagAssumption
<1>6. v = "idle" /\ ~trouble => n + l = tried[d][t] + left[d][t]
  <2>1. ExitCode(d, t) = "startup" <=> t \notin marker
    BY DEF ExitCode
  <2> QED
    BY <1>1, <1>3, <2>1 DEF DagInv
<1> HIDE DEF v, s, l, n
<1>7. /\ startups' \in [Dag -> [Task -> Nat]] /\ left' \in [Dag -> [Task -> Nat]]
      /\ tried' \in [Dag -> [Task -> Nat]]
      /\ \A e \in Dag : \A u \in Task :
           /\ left'[e][u] = IF e = d /\ u = t THEN l ELSE left[e][u]
           /\ tried'[e][u] = IF e = d /\ u = t THEN n ELSE tried[e][u]
  BY <1>4, <1>5, NodeWrite DEF DagInv, DagTypeOK
<1>8. /\ node' \in [Dag -> [Task -> DagNodeState]]
      /\ \A e \in Dag : \A u \in Task : node'[e][u] = IF e = d /\ u = t THEN v ELSE node[e][u]
      /\ \A e \in Dag : \A u \in Task : NodeOK(e, u)'
  <2>1. KeepsTerminal /\ v \in DagNodeState \ {"waiting"}
    BY <1>3, <1>4 DEF KeepsTerminal, DagNodeState
  <2>2. \A e \in Dag : \A u \in Task : tried'[e][u] = tried[e][u] \/ (e = d /\ u = t)
    BY <1>7
  <2>3. v = "done" => HasCompletedAttempt(t)
    BY <1>3, SuccessCompletes
  <2> QED
    BY <1>1, <1>4, <2>1, <2>2, <2>3, NodeMoves
<1>9. CallsAreNodes'
  <2>1. \A q \in Proc : \A u \in Task : at'[q][u] = IF q = d /\ u \in {t} THEN "idle" ELSE at[q][u]
    BY ForgottenCalls DEF EndJob, DagInv
  <2> QED
    BY <1>8, <2>1 DEF DagInv, CallsAreNodes
<1>10. DagTypeOK'
  BY <1>4, <1>7, <1>8 DEF DagInv, DagTypeOK
<1>11. PayloadsCharged'
  <2> SUFFICES ASSUME ~trouble, NEW e \in Dag, NEW u \in Task, node'[e][u] \in {"idle", "running"}
               PROVE  tried'[e][u] + left'[e][u] = Retries[u]
    BY <1>4 DEF PayloadsCharged
  <2>1. CASE e = d /\ u = t
    <3>1. tried[d][t] + left[d][t] = Retries[t]
      BY <1>1 DEF DagInv, PayloadsCharged
    <3>2. v = "idle"
      BY <1>3, <1>8, <2>1
    <3> QED
      BY <1>6, <1>7, <2>1, <3>1, <3>2
  <2>2. CASE ~(e = d /\ u = t)
    <3>1. /\ tried'[e][u] = tried[e][u] /\ left'[e][u] = left[e][u]
          /\ node[e][u] \in {"idle", "running"}
      BY <1>7, <1>8, <2>2
    <3> QED
      BY <3>1 DEF DagInv, PayloadsCharged
  <2> QED
    BY <2>1, <2>2
<1>12. PostflightFollowsAll' /\ (~trouble' => marker' = began')
  BY <1>4 DEF DagInv, PostflightFollowsAll, HasCompletedAttempt
<1> QED
  BY <1>8, <1>9, <1>10, <1>11, <1>12 DEF DagInv

(* An evicted job is queued again at no charge.                            *)
LEMMA EvictNodeInv ==
  ASSUME WorkerInv, DagInv, NEW d \in Dag, NEW t \in Task, EvictNode(d, t)
  PROVE  DagInv'
<1>1. /\ node[d][t] = "running" /\ dag[d] = "running" /\ \A u \in Parents[t] : node[d][u] = "done"
      /\ UNCHANGED <<dag, startups, left, rescue, marker, hook, historyVars, attempt>>
  BY DEF EvictNode, KillNodeCalls, DagInv, NodeOK
<1>2. /\ node' \in [Dag -> [Task -> DagNodeState]]
      /\ \A e \in Dag : \A u \in Task : node'[e][u] = IF e = d /\ u = t THEN "idle" ELSE node[e][u]
      /\ \A e \in Dag : \A u \in Task : NodeOK(e, u)'
  <2>1. KeepsTerminal /\ "idle" \in DagNodeState \ {"waiting"}
    BY <1>1 DEF KeepsTerminal, DagNodeState
  <2> QED
    BY <1>1, <2>1, NodeMoves DEF EvictNode
<1>3. CallsAreNodes'
  <2>1. \A q \in Proc : \A u \in Task : at'[q][u] = IF q = d /\ u \in {t} THEN "idle" ELSE at[q][u]
    BY ForgottenCalls DEF EvictNode, KillNodeCalls, DagInv
  <2> QED
    BY <1>2, <2>1 DEF DagInv, CallsAreNodes
<1>4. DagTypeOK'
  BY <1>1, <1>2 DEF DagInv, DagTypeOK
<1>5. PayloadsCharged'
  BY <1>1, <1>2 DEF DagInv, PayloadsCharged
<1>6. PostflightFollowsAll' /\ (~trouble' => marker' = began')
  BY <1>1 DEF DagInv, PostflightFollowsAll, HasCompletedAttempt
<1> QED
  BY <1>2, <1>3, <1>4, <1>5, <1>6 DEF DagInv

(* A job that its launcher gives up is tried again or fails, as a startup. *)
LEMMA LauncherFailsInv ==
  ASSUME DagInv, NEW d \in Dag, NEW t \in Task, LauncherFails(d, t)
  PROVE  DagInv'
<1>1. /\ node[d][t] = "idle" /\ dag[d] = "running" /\ \A u \in Parents[t] : node[d][u] = "done"
      /\ UNCHANGED <<dag, left, rescue, marker, hook, historyVars, attempt, at>>
  BY DEF LauncherFails, DagInv, NodeOK
<1>2. PICK v \in {"idle", "failed"} : node' = [node EXCEPT ![d][t] = v]
  <2>1. CASE node' = node
    BY <1>1, <2>1 DEF DagInv, DagTypeOK
  <2>2. CASE node' = [node EXCEPT ![d][t] = "failed"]
    BY <2>2
  <2> QED
    BY <2>1, <2>2 DEF LauncherFails
<1>3. /\ node' \in [Dag -> [Task -> DagNodeState]]
      /\ \A e \in Dag : \A u \in Task : node'[e][u] = IF e = d /\ u = t THEN v ELSE node[e][u]
      /\ \A e \in Dag : \A u \in Task : NodeOK(e, u)'
  <2>1. KeepsTerminal /\ v \in DagNodeState \ {"waiting"} /\ v # "done"
    BY <1>1 DEF KeepsTerminal, DagNodeState
  <2> QED
    BY <1>1, <1>2, <2>1, NodeMoves
<1>4. startups' \in [Dag -> [Task -> Nat]]
  <2>1. startups \in [Dag -> [Task -> Nat]] /\ startups[d][t] \in Nat
    BY DEF DagInv, DagTypeOK
  <2>2. \/ startups' = startups
        \/ startups[d][t] > 0 /\ startups' = [startups EXCEPT ![d][t] = @ - 1]
    BY DEF LauncherFails
  <2>3. startups[d][t] > 0 => startups[d][t] - 1 \in Nat
    BY <2>1
  <2> QED
    BY <2>1, <2>2, <2>3
<1>5. DagTypeOK' /\ CallsAreNodes'
  <2>1. DagTypeOK'
    BY <1>1, <1>3, <1>4 DEF DagInv, DagTypeOK
  <2>2. \A p \in Proc : at[p][t] # "idle" => p # d
    BY <1>1 DEF DagInv, CallsAreNodes
  <2>3. CallsAreNodes'
    BY <1>1, <1>3, <2>2 DEF DagInv, CallsAreNodes
  <2> QED
    BY <2>1, <2>3
<1>6. PayloadsCharged' /\ PostflightFollowsAll'
  BY <1>1, <1>3 DEF DagInv, PayloadsCharged, PostflightFollowsAll, HasCompletedAttempt
<1> QED
  BY <1>1, <1>3, <1>5, <1>6 DEF DagInv

(* When the leaves of the graph are done, so is everything before them.    *)
LEMMA LeavesCover ==
  ASSUME DagInv, NEW d \in Dag, Leaves \subseteq DoneNodes(d)
  PROVE  \A t \in Task : HasCompletedAttempt(t)
<1> DEFINE S == {t \in Task : node[d][t] # "done"}
<1>1. \A t \in S : \A u \in Task : t \in Parents[u] => u \in S
  BY DEF DagInv, NodeOK
<1>2. S = {}
  <2>1. \A t \in S : t \notin Leaves
    BY DEF DoneNodes
  <2>2. ~\E t \in S : \A u \in Task : t \notin Parents[u]
    BY <2>1 DEF Leaves
  <2> QED
    BY <1>1, <2>2, LeafAmong
<1> QED
  BY <1>2 DEF DagInv, NodeOK

(* The barrier's postflight runs after every task, and what is said to be  *)
(* done in a rescue file is.                                               *)
LEMMA EndDagInv ==
  ASSUME DagInv, NEW d \in Dag, EndDag(d)
  PROVE  DagInv'
<1>1. /\ dag' = [dag EXCEPT ![d] = "ended"] /\ dag[d] = "running"
      /\ UNCHANGED <<attempt, at, node, startups, left, marker, historyVars>>
  BY DEF EndDag
<1>2. \A t \in Task : node[d][t] \notin {"idle", "running"}
  BY DEF EndDag, CanContinue
<1>3. /\ DagTypeOK' /\ \A e \in Dag : dag'[e] = IF e = d THEN "ended" ELSE dag[e]
  BY <1>1, SMTT(30), ZenonT(30) DEF EndDag, DagInv, DagTypeOK, DagState, DoneNodes
<1>4. ASSUME NEW e \in Dag, NEW t \in Task
      PROVE  NodeOK(e, t)'
  BY <1>1, <1>2, <1>3 DEF DagInv, NodeOK, HasCompletedAttempt
<1>5. PostflightFollowsAll'
  <2>1. hook' # "none" => hook # "none" \/ Leaves \subseteq DoneNodes(d)
    BY DEF EndDag
  <2> QED
    BY <1>1, <2>1, LeavesCover DEF DagInv, PostflightFollowsAll, HasCompletedAttempt
<1> QED
  BY <1>1, <1>3, <1>4, <1>5 DEF DagInv, CallsAreNodes, PayloadsCharged

(* A removed DAG has no jobs.                                              *)
LEMMA RemoveDagInv ==
  ASSUME WorkerInv, DagInv, NEW d \in Dag, RemoveDag(d)
  PROVE  DagInv'
<1>1. /\ dag' = [dag EXCEPT ![d] = "ended"] /\ dag[d] = "running"
      /\ UNCHANGED <<attempt, startups, left, marker, hook, historyVars>>
  BY DEF RemoveDag, KillNodeCalls
<1>2. /\ node' = [node EXCEPT ![d] = [t \in Task |-> IF node[d][t] \in {"idle", "running"}
                                                     THEN "failed" ELSE node[d][t]]]
  BY DEF RemoveDag, DagInv, DagTypeOK
<1>3. /\ \A e \in Dag : dag'[e] = IF e = d THEN "ended" ELSE dag[e]
      /\ \A e \in Dag : \A t \in Task :
           node'[e][t] = IF e = d /\ node[e][t] \in {"idle", "running"}
                         THEN "failed" ELSE node[e][t]
  BY <1>1, <1>2 DEF DagInv, DagTypeOK
<1>4. DagTypeOK'
  <2>1. node' \in [Dag -> [Task -> DagNodeState]]
    BY <1>2 DEF DagInv, DagTypeOK, DagNodeState
  <2>2. rescue' \in [Dag -> (SUBSET Task) \cup {NoRescue}]
    BY DEF RemoveDag, DagInv, DagTypeOK, DoneNodes
  <2> QED
    BY <1>1, <2>1, <2>2 DEF DagInv, DagTypeOK, DagState
<1>5. ASSUME NEW e \in Dag, NEW t \in Task
      PROVE  NodeOK(e, t)'
  <2>1. Parents[t] \subseteq Task
    BY GraphAssumption
  <2> QED
    BY <1>1, <1>3, <2>1 DEF DagInv, NodeOK, HasCompletedAttempt
<1>6. CallsAreNodes'
  <2>1. \A q \in Proc : \A u \in Task : at'[q][u] = IF q = d /\ u \in Task THEN "idle" ELSE at[q][u]
    BY ForgottenCalls DEF RemoveDag, KillNodeCalls, DagInv
  <2> QED
    BY <1>3, <2>1 DEF DagInv, CallsAreNodes
<1>7. PayloadsCharged' /\ PostflightFollowsAll'
  BY <1>1, <1>3 DEF DagInv, PayloadsCharged, PostflightFollowsAll, HasCompletedAttempt
<1> QED
  BY <1>1, <1>4, <1>5, <1>6, <1>7 DEF DagInv

(* Every step of DAGMan, of a job or of the scheduler.                     *)
LEMMA DagStepInv ==
  ASSUME WorkerInv, DagInv, NEW d \in Dag, DagStep(d) \/ LoseNode(d)
  PROVE  DagInv'
<1>1. KeepsTerminal
  BY DagWorker
<1> QED
  BY <1>1, SubmitNodeInv, StartJobInv, RunWorkerInv, EndJobInv, EndDagInv, EvictNodeInv,
     LauncherFailsInv, RemoveDagInv
  DEF DagStep, LoseNode

----
(* Starts                                                                  *)

(* A step of a start.                                                      *)
StarterStep(p) ==
  \/ \E overwrite \in Overwrite : IssueStart(p, overwrite)
  \/ Prepare(p) \/ SubmitDag(p) \/ RecordDag(p) \/ Begin(p) \/ KillStart(p)

(* What the processes of starts and resumes keep is in its type.           *)
StarterTypeOK ==
  /\ StartTypeOK
  /\ ctl \in [Submitter -> StartControl]
  /\ accepted \in [Submitter -> Dag \cup {NoDag}]
  /\ returncode \in {"none", "zero", "error"}
  /\ known \subseteq Dag
  /\ latest \in Dag \cup {NoDag}
  /\ promised \in Record
  /\ issued \in 0 .. MaxCommands
  /\ kills \in 0 .. MaxKills

RoundTypeOK ==
  /\ ResumeTypeOK
  /\ staged \in [Resumer -> SUBSET Task]
  /\ answered \in [Resumer -> Dag \cup {NoDag}]

(* The types are all there are.                                            *)
LEMMA TypesComplete ==
  WorkerTypeOK /\ DagTypeOK /\ StarterTypeOK /\ RoundTypeOK => CondorTypeOK
  BY DEF StarterTypeOK, RoundTypeOK, CondorTypeOK

(* A start that goes on has a policy, and an accepted DAG to record.       *)
StarterOK(p) ==
  /\ starting[p] \in {"checked", "prepared", "commit"} => policy[p] \in Policy
  /\ ctl[p] = "record" => accepted[p] # NoDag

StarterInv == StarterTypeOK /\ \A p \in Submitter : StarterOK(p)

(* Only p's part of the start changes.                                     *)
LEMMA StarterFrame ==
  ASSUME StarterInv, NEW p \in Submitter,
         NEW c \in StartControl, NEW s \in StartPC, NEW v \in Record, NEW a \in Dag \cup {NoDag},
         ctl' = [ctl EXCEPT ![p] = c], starting' = [starting EXCEPT ![p] = s],
         policy' = [policy EXCEPT ![p] = v], accepted' = [accepted EXCEPT ![p] = a],
         s \in {"checked", "prepared", "commit"} => v \in Policy, c = "record" => a # NoDag,
         returncode' \in {"none", "zero", "error"}, known' \subseteq Dag,
         latest' \in Dag \cup {NoDag}, promised' \in Record,
         issued' \in 0 .. MaxCommands, kills' \in 0 .. MaxKills
  PROVE  StarterInv'
<1>1. p \in Proc /\ Submitter \subseteq Proc
  BY CampaignAssumption
<1>2. StarterTypeOK'
  BY <1>1 DEF StarterInv, StarterTypeOK, StartTypeOK
<1>3. ASSUME NEW q \in Submitter
      PROVE  StarterOK(q)'
  <2>1. StarterOK(q)
    BY DEF StarterInv
  <2>2. /\ ctl'[q] = IF q = p THEN c ELSE ctl[q]
        /\ starting'[q] = IF q = p THEN s ELSE starting[q]
        /\ policy'[q] = IF q = p THEN v ELSE policy[q]
        /\ accepted'[q] = IF q = p THEN a ELSE accepted[q]
    BY <1>1 DEF StarterInv, StarterTypeOK, StartTypeOK
  <2> QED
    BY <2>1, <2>2 DEF StarterOK
<1> QED
  BY <1>2, <1>3 DEF StarterInv

(* The steps of begin_campaign, and its ends.                              *)
LEMMA BeginsInv ==
  ASSUME DiskTypeOK, StarterInv, NEW p \in Submitter, Begin(p)
  PROVE  StarterInv' /\ DiskTypeOK' /\ StartKept
<1>1. /\ p \in Proc /\ StarterOK(p) /\ StarterTypeOK
      /\ starting[p] \in StartPC /\ policy[p] \in Record /\ ctl[p] = "begin"
      /\ ctl[p] \in StartControl /\ accepted[p] \in Dag \cup {NoDag}
      /\ startPending \in Record
  BY CampaignAssumption DEF StarterInv, StarterTypeOK, StartTypeOK, DiskTypeOK, Begin
<1>2. /\ ctl = [ctl EXCEPT ![p] = ctl[p]] /\ accepted = [accepted EXCEPT ![p] = accepted[p]]
      /\ policy = [policy EXCEPT ![p] = policy[p]]
  BY <1>1 DEF StarterTypeOK, StartTypeOK
<1>3. /\ UNCHANGED <<recordVars, promised, issued, kills, stateVars, attempt, fileVars>>
      /\ returncode \in {"none", "zero", "error"} /\ known \subseteq Dag
      /\ latest \in Dag \cup {NoDag} /\ promised \in Record
      /\ issued \in 0 .. MaxCommands /\ kills \in 0 .. MaxKills
  BY <1>1
  DEF StarterTypeOK, Begin, BeginAccepted, CommitStart, UnlinkPending, CancelPrepared
<1>4. CASE BeginAccepted(p) /\ UNCHANGED <<ctl, accepted>>
  <2> DEFINE v == IF startPending # "none" THEN startPending ELSE policy[p]
  <2>1. /\ starting[p] = "prepared" /\ starting' = [starting EXCEPT ![p] = "commit"]
        /\ policy' = [policy EXCEPT ![p] = v] /\ UNCHANGED startVars
    BY <1>1, <1>4 DEF BeginAccepted, Move, StarterTypeOK, StartTypeOK
  <2>2. v \in Policy
    BY <1>1, <2>1 DEF StarterOK, Record
  <2>3. StarterInv'
    <3> HIDE DEF v
    <3>1. v \in Record /\ "commit" \in StartPC
      BY <2>2 DEF Record, StartPC
    <3> QED
      BY <1>1, <1>2, <1>3, <1>4, <2>1, <2>2, <3>1, StarterFrame
  <2> QED
    BY <1>3, <2>1, <2>3 DEF DiskTypeOK, StartKept
<1>5. CASE CommitStart(p) /\ UNCHANGED <<ctl, accepted>>
  <2>1. /\ starting[p] = "commit" /\ starting' = [starting EXCEPT ![p] = "unlink"]
        /\ start' = policy[p] /\ UNCHANGED <<policy, startPending>>
    BY <1>5 DEF CommitStart, Move
  <2>2. policy[p] \in Policy /\ policy[p] # "none"
    BY <1>1, <2>1 DEF StarterOK, Policy
  <2>3. StarterInv'
    <3>1. "unlink" \in StartPC /\ "unlink" \notin {"checked", "prepared", "commit"}
      BY DEF StartPC
    <3>2. /\ ctl' = [ctl EXCEPT ![p] = ctl[p]] /\ accepted' = [accepted EXCEPT ![p] = accepted[p]]
          /\ policy' = [policy EXCEPT ![p] = policy[p]] /\ ctl[p] # "record"
      BY <1>1, <1>2, <1>5, <2>1
    <3>3. /\ returncode' \in {"none", "zero", "error"} /\ known' \subseteq Dag
          /\ latest' \in Dag \cup {NoDag} /\ promised' \in Record
          /\ issued' \in 0 .. MaxCommands /\ kills' \in 0 .. MaxKills
      BY <1>3
    <3> QED
      BY <1>1, <2>1, <3>1, <3>2, <3>3, StarterFrame
  <2> QED
    BY <1>1, <1>3, <2>1, <2>2, <2>3 DEF DiskTypeOK, StartKept
<1>6. CASE UnlinkPending(p) /\ UNCHANGED <<ctl, accepted>>
  <2>1. /\ starting' = [starting EXCEPT ![p] = "started"] /\ startPending' = "none"
        /\ UNCHANGED <<policy, start>>
    BY <1>6 DEF UnlinkPending, Move
  <2>2. StarterInv'
    <3>1. "started" \in StartPC /\ "started" \notin {"checked", "prepared", "commit"}
      BY DEF StartPC
    <3>2. /\ ctl' = [ctl EXCEPT ![p] = ctl[p]] /\ accepted' = [accepted EXCEPT ![p] = accepted[p]]
          /\ policy' = [policy EXCEPT ![p] = policy[p]] /\ ctl[p] # "record"
      BY <1>1, <1>2, <1>6, <2>1
    <3>3. /\ returncode' \in {"none", "zero", "error"} /\ known' \subseteq Dag
          /\ latest' \in Dag \cup {NoDag} /\ promised' \in Record
          /\ issued' \in 0 .. MaxCommands /\ kills' \in 0 .. MaxKills
      BY <1>3
    <3> QED
      BY <1>1, <2>1, <3>1, <3>2, <3>3, StarterFrame
  <2> QED
    BY <1>3, <2>1, <2>2 DEF DiskTypeOK, StartKept, Record
<1>7. ASSUME ctl' = [ctl EXCEPT ![p] = "idle"], ForgetDag(p), UNCHANGED start,
             starting' = [starting EXCEPT ![p] = "out"], policy' = [policy EXCEPT ![p] = "none"],
             startPending' \in {startPending, "none"}
      PROVE  StarterInv' /\ DiskTypeOK' /\ StartKept
  <2>1. "out" \in StartPC \ {"checked", "prepared", "commit"} /\ "none" \in Record
        /\ "idle" \in StartControl
    BY DEF StartPC, Record, StartControl
  <2>2. StarterInv'
    BY <1>3, <1>7, <2>1, StarterFrame DEF ForgetDag
  <2> QED
    BY <1>3, <1>7, <2>1, <2>2 DEF DiskTypeOK, StartKept
<1> QED
  BY <1>4, <1>5, <1>6, <1>7 DEF Begin, ForgetStart, CancelPrepared, Move, Step

(* The checks of a start, the submission of its DAG and its record, or its *)
(* kill.                                                                   *)
LEMMA StarterStepInv ==
  ASSUME DiskTypeOK, StarterInv, NEW p \in Submitter, StarterStep(p)
  PROVE  StarterInv' /\ DiskTypeOK' /\ StartKept
<1>1. /\ p \in Proc /\ StarterOK(p) /\ StarterTypeOK
      /\ starting[p] \in StartPC /\ policy[p] \in Record
      /\ ctl[p] \in StartControl /\ accepted[p] \in Dag \cup {NoDag}
      /\ issued \in 0 .. MaxCommands /\ kills \in 0 .. MaxKills
      /\ returncode \in {"none", "zero", "error"} /\ known \subseteq Dag
      /\ latest \in Dag \cup {NoDag} /\ promised \in Record
  BY CampaignAssumption DEF StarterInv, StarterTypeOK, StartTypeOK
<1>2. /\ accepted = [accepted EXCEPT ![p] = accepted[p]]
      /\ policy = [policy EXCEPT ![p] = policy[p]]
      /\ starting = [starting EXCEPT ![p] = starting[p]]
  BY <1>1 DEF StarterTypeOK, StartTypeOK
<1>3. /\ {"idle", "prepare", "dag", "record", "begin"} \subseteq StartControl
      /\ {"out", "checked", "prepared", "cancel"} \subseteq StartPC
  BY DEF StartControl, StartPC
<1>4. ASSUME NEW overwrite \in Overwrite, IssueStart(p, overwrite)
      PROVE  StarterInv' /\ DiskTypeOK' /\ StartKept
  <2> DEFINE wish == IF overwrite THEN "overwrite" ELSE "keep"
  <2>1. /\ ctl' = [ctl EXCEPT ![p] = "prepare"] /\ accepted' = [accepted EXCEPT ![p] = accepted[p]]
        /\ starting' = [starting EXCEPT ![p] = "checked"] /\ policy' = [policy EXCEPT ![p] = wish]
        /\ UNCHANGED <<diskVars, recordVars, promised, kills>>
    BY <1>2, <1>4 DEF IssueStart, CheckPrepare, Move, Step
  <2>2. wish \in Policy /\ wish \in Record /\ issued' \in 0 .. MaxCommands
    BY <1>1, <1>4, CampaignAssumption DEF IssueStart, Policy, Record
  <2> HIDE DEF wish
  <2>3. StarterInv'
    BY <1>1, <1>3, <2>1, <2>2, StarterFrame
  <2> QED
    BY <2>1, <2>3 DEF DiskTypeOK, StartKept
<1>5. CASE Prepare(p)
  <2>1. /\ ctl' = [ctl EXCEPT ![p] = "dag"] /\ accepted' = [accepted EXCEPT ![p] = accepted[p]]
        /\ starting' = [starting EXCEPT ![p] = "prepared"]
        /\ policy' = [policy EXCEPT ![p] = policy[p]]
        /\ starting[p] = "checked" /\ startPending' = policy[p]
        /\ UNCHANGED <<stateVars, attempt, fileVars, start, recordVars, promised, issued, kills>>
    BY <1>2, <1>5 DEF Prepare, WritePending, Move, Step
  <2>2. policy[p] \in Policy
    BY <1>1, <2>1 DEF StarterOK
  <2>3. StarterInv'
    BY <1>1, <1>3, <2>1, <2>2, StarterFrame
  <2> QED
    BY <1>1, <2>1, <2>3 DEF DiskTypeOK, StartKept
<1>6. ASSUME NEW d \in Dag, AcceptDag(d, {}, NoRescue), accepted' = [accepted EXCEPT ![p] = d],
             SubmitDag(p), Step(p, "dag", "record"), promised' = policy[p],
             UNCHANGED <<starting, returncode>>
      PROVE  StarterInv'
  <2>1. d # NoDag
    BY DagAssumption DEF NoDag
  <2>2. UNCHANGED <<policy, known, latest, issued, kills>>
    BY <1>6 DEF SubmitDag
  <2>3. starting[p] \in {"checked", "prepared", "commit"} => policy[p] \in Policy
    BY <1>1 DEF StarterOK
  <2>4. /\ ctl' = [ctl EXCEPT ![p] = "record"] /\ policy' = [policy EXCEPT ![p] = policy[p]]
        /\ starting' = [starting EXCEPT ![p] = starting[p]]
    BY <1>2, <1>6, <2>2 DEF Step
  <2>5. /\ returncode' \in {"none", "zero", "error"} /\ known' \subseteq Dag
        /\ latest' \in Dag \cup {NoDag} /\ promised' \in Record
        /\ issued' \in 0 .. MaxCommands /\ kills' \in 0 .. MaxKills
    BY <1>1, <1>6, <2>2
  <2> QED
    BY <1>1, <1>3, <1>6, <2>1, <2>3, <2>4, <2>5, StarterFrame
<1>7. ASSUME SubmitDag(p), Step(p, "dag", "begin"), Move(p, "prepared", "cancel"),
             returncode' \in {returncode, "error"}, UNCHANGED <<dagVars, accepted, promised>>
      PROVE  StarterInv'
  <2>1. UNCHANGED <<policy, known, latest, issued, kills>>
    BY <1>7 DEF SubmitDag
  <2>2. /\ ctl' = [ctl EXCEPT ![p] = "begin"] /\ policy' = [policy EXCEPT ![p] = policy[p]]
        /\ starting' = [starting EXCEPT ![p] = "cancel"]
        /\ accepted' = [accepted EXCEPT ![p] = accepted[p]]
    BY <1>2, <1>7, <2>1 DEF Step, Move
  <2>3. /\ returncode' \in {"none", "zero", "error"} /\ known' \subseteq Dag
        /\ latest' \in Dag \cup {NoDag} /\ promised' \in Record
        /\ issued' \in 0 .. MaxCommands /\ kills' \in 0 .. MaxKills
    BY <1>1, <1>7, <2>1
  <2> QED
    BY <1>1, <1>3, <2>2, <2>3, StarterFrame
<1>8. CASE SubmitDag(p)
  <2>1. DiskTypeOK' /\ StartKept
    BY <1>8 DEF SubmitDag, DiskTypeOK, StartKept
  <2> QED
    BY <1>6, <1>7, <1>8, <2>1 DEF SubmitDag
<1>9. CASE RecordDag(p)
  <2>1. /\ ctl' = [ctl EXCEPT ![p] = "begin"] /\ policy' = [policy EXCEPT ![p] = policy[p]]
        /\ starting' = [starting EXCEPT ![p] = starting[p]]
        /\ accepted' = [accepted EXCEPT ![p] = accepted[p]] /\ accepted[p] # NoDag
        /\ known' = known \cup {accepted[p]} /\ returncode' = "zero"
        /\ latest' \in {latest, accepted[p]} /\ latest \in Dag \cup {NoDag}
        /\ UNCHANGED <<diskVars, promised, issued, kills>>
    BY <1>1, <1>2, <1>9 DEF RecordDag, Step, StarterOK
  <2>2. starting[p] \in {"checked", "prepared", "commit"} => policy[p] \in Policy
    BY <1>1 DEF StarterOK
  <2>3. StarterInv'
    BY <1>1, <1>3, <2>1, <2>2, StarterFrame
  <2> QED
    BY <2>1, <2>3 DEF DiskTypeOK, StartKept
<1>10. CASE KillStart(p)
  <2>1. /\ ctl' = [ctl EXCEPT ![p] = "idle"] /\ policy' = [policy EXCEPT ![p] = "none"]
        /\ starting' = [starting EXCEPT ![p] = "out"] /\ accepted' = [accepted EXCEPT ![p] = NoDag]
        /\ UNCHANGED <<diskVars, recordVars, promised, issued>> /\ kills' \in 0 .. MaxKills
    BY <1>1, <1>10, CampaignAssumption DEF KillStart, ForgetDag, ForgetStart
  <2>2. "none" \in Record
    BY DEF Record
  <2>3. StarterInv'
    BY <1>1, <1>3, <2>1, <2>2, StarterFrame
  <2> QED
    BY <2>1, <2>3 DEF DiskTypeOK, StartKept
<1> QED
  BY <1>4, <1>5, <1>8, <1>9, <1>10, BeginsInv DEF StarterStep

(* Such a step leaves calls, nodes and records alone, but for the DAG it   *)
(* may have accepted, of which no node is done.                            *)
LEMMA StarterLeaves ==
  ASSUME WorkerInv, DagInv, DiskTypeOK', NEW p \in Submitter, StarterStep(p)
  PROVE  WorkerInv' /\ DagInv' /\ KeepsTerminal /\ KeepsAttempts
<1>1. UNCHANGED <<stateVars, attempt, callVars>>
  BY DEF StarterStep, IssueStart, CheckPrepare, Prepare, WritePending, SubmitDag, RecordDag, Begin,
         BeginAccepted, CommitStart, UnlinkPending, CancelPrepared, KillStart
<1>2. WorkerInv' /\ KeepsTerminal /\ KeepsAttempts
  BY <1>1, WorkerIdle
<1>3. ASSUME UNCHANGED dagVars
      PROVE  DagInv'
  BY <1>1, <1>2, <1>3, DagKept
<1>4. ASSUME NEW d \in Dag, AcceptDag(d, {}, NoRescue)
      PROVE  DagInv'
  <2>1. {} \in SUBSET Task /\ NoRescue \in (SUBSET Task) \cup {NoRescue}
    OBVIOUS
  <2>3. UNCHANGED <<attempt, at>>
    BY <1>1
  <2>2. \A t \in {} : HasCompletedAttempt(t) /\ Parents[t] \subseteq {}
    OBVIOUS
  <2> QED
    BY <1>4, <2>1, <2>2, <2>3, AcceptDagInv
<1>5. DagInv'
  BY <1>3, <1>4 DEF StarterStep, IssueStart, Prepare, SubmitDag, RecordDag, Begin, KillStart
<1> QED
  BY <1>2, <1>5

----
(* Resumes                                                                 *)

Planned == {"confirm", "reconcile", "submit"}

(* What p plans of a task with a terminal state is what the attempt record *)
(* says to which the state file p read points; the rescue file it copied   *)
(* names the tasks planned to be complete, and what these come after.      *)
PlanBacked(p) ==
  \A t \in Task :
    /\ plan[p][t] \in Terminal =>
         seen[p][t].attempts > 0 /\ attempt[t][seen[p][t].attempts] = plan[p][t]
    /\ seen[p][t].attempts > 0 => attempt[t][seen[p][t].attempts] # "absent"

StagedPlan(p) ==
  /\ staged[p] = CompletedIn(plan[p])
  /\ \A t \in staged[p] : Parents[t] \subseteq staged[p]

RoundAt(p) ==
  /\ rctl[p] # "idle" => lock = p
  /\ rctl[p] \in {"plan"} \cup Planned => latest # NoDag
  /\ rctl[p] \in Planned => PlanBacked(p) /\ StagedPlan(p)
  /\ rctl[p] = "acknowledge" => answered[p] # NoDag

RoundInv == RoundTypeOK /\ \A p \in Resumer : RoundAt(p)

CondorInv == WorkerInv /\ DagInv /\ StarterInv /\ RoundInv

(* Starts, DAGs and jobs leave a round as it is.                           *)
LEMMA RoundKept ==
  ASSUME RoundInv, KeepsTerminal, KeepsAttempts, latest # NoDag => latest' # NoDag,
         UNCHANGED <<resumeVars, rescueVars>>
  PROVE  RoundInv'
<1>1. RoundTypeOK'
  BY DEF RoundInv, RoundTypeOK, ResumeTypeOK
<1>2. ASSUME NEW p \in Resumer
      PROVE  RoundAt(p)'
  <2>1. RoundAt(p) /\ RoundTypeOK
    BY DEF RoundInv
  <2>2. PlanBacked(p) => PlanBacked(p)'
    <3>1. \A t \in Task : seen[p][t].attempts > 0 => seen[p][t].attempts \in AttemptNo
      BY <2>1, MaxAttemptAssumption DEF RoundTypeOK, ResumeTypeOK, AttemptNo
    <3>2. UNCHANGED <<plan, seen>>
      OBVIOUS
    <3> QED
      BY <3>1, <3>2 DEF PlanBacked, KeepsTerminal, KeepsAttempts
  <2>3. StagedPlan(p) => StagedPlan(p)'
    BY DEF StagedPlan, CompletedIn
  <2> QED
    BY <2>1, <2>2, <2>3 DEF RoundAt
<1> QED
  BY <1>1, <1>2 DEF RoundInv

(* The lock: while p goes on, or takes it, every other resume is idle.     *)
LEMMA RoundStep ==
  ASSUME RoundInv, RoundTypeOK', NEW p \in Resumer, rctl[p] # "idle" \/ lock = Nobody, RoundAt(p)',
         \A q \in Resumer : q # p => rctl'[q] = rctl[q]
  PROVE  RoundInv'
<1> SUFFICES ASSUME NEW q \in Resumer, q # p
             PROVE  RoundAt(q)'
  BY DEF RoundInv
<1>1. rctl[q] = "idle"
  BY ResumeAssumption DEF RoundInv, RoundAt
<1> QED
  BY <1>1 DEF RoundAt, Planned

(* A terminal state in a plan comes from the attempt record the state file *)
(* points to, whichever of the two it was read from.                       *)
LEMMA PlanFromRecords ==
  ASSUME WorkerInv, NEW t \in Task
  PROVE  /\ Effective(t, "none") \in PlannedState
         /\ Effective(t, "none") \in Terminal =>
              attempts[t] > 0 /\ attempt[t][attempts[t]] = Effective(t, "none")
<1>1. status[t] \in TaskStatus /\ attempts[t] \in 0 .. MaxAttempt /\ StateOK(t)
  BY DEF WorkerInv, WorkerTypeOK, DiskTypeOK, StateBackedByAttempt
<1>2. CASE Evidence(t) \in Terminal
  <2>1. attempts[t] \in AttemptNo /\ Evidence(t) = attempt[t][attempts[t]]
    BY <1>2 DEF Evidence, Terminal
  <2>2. attempts[t] > 0
    BY <2>1 DEF AttemptNo
  <2> QED
    BY <1>1, <1>2, <2>1, <2>2 DEF Effective, PlannedState, TaskStatus
<1>3. CASE Evidence(t) \notin Terminal
  BY <1>1, <1>3 DEF Effective, PlannedState, TaskStatus, StateOK, Terminal
<1> QED
  BY <1>2, <1>3

(* Resumes leave the starts alone, but for what is on record of DAGs.      *)
LEMMA StarterKept ==
  ASSUME StarterInv, UNCHANGED <<startProcVars, ctl, accepted, returncode, promised, issued>>,
         known' \subseteq Dag, latest' \in Dag \cup {NoDag}, kills' \in 0 .. MaxKills
  PROVE  StarterInv'
  BY DEF StarterInv, StarterTypeOK, StartTypeOK, StarterOK

(* What a resume leaves alone in most of its steps.                        *)
LEMMA ResumeLeaves ==
  ASSUME CondorInv, UNCHANGED <<diskVars, callVars, dagVars, startProcVars, recordVars,
                                startCommandVars>>, kills' \in 0 .. MaxKills
  PROVE  WorkerInv' /\ DagInv' /\ StarterInv' /\ KeepsTerminal /\ KeepsAttempts
<1>1. DiskTypeOK'
  BY DEF CondorInv, WorkerInv, WorkerTypeOK, DiskTypeOK
<1>2. WorkerInv' /\ KeepsTerminal /\ KeepsAttempts
  BY <1>1, WorkerIdle DEF CondorInv
<1>3. DagInv'
  BY <1>2, DagKept DEF CondorInv
<1>4. StarterInv'
  BY StarterKept DEF CondorInv, StarterInv, StarterTypeOK
<1> QED
  BY <1>2, <1>3, <1>4

(* The checks of a resume, its end, its kill, and the removal of its lock. *)
LEMMA RoundEnds ==
  ASSUME CondorInv, NEW p \in Resumer,
         \/ \E overwrite \in AskOverwrite : IssueCondorResume(p, overwrite)
         \/ EndResume(p) \/ KillCondorResume(p)
  PROVE  CondorInv'
<1>0. RoundTypeOK /\ kills \in 0 .. MaxKills
  BY DEF CondorInv, RoundInv, StarterInv, StarterTypeOK
<1>1. ASSUME NEW overwrite \in AskOverwrite, IssueCondorResume(p, overwrite)
      PROVE  CondorInv'
  <2>1. WorkerInv' /\ DagInv' /\ StarterInv' /\ KeepsTerminal /\ KeepsAttempts
    BY <1>0, <1>1, ResumeLeaves DEF IssueCondorResume
  <2>2. /\ lock = Nobody /\ lock' = p /\ rctl' = [rctl EXCEPT ![p] = "snapshot"]
        /\ asked' = [asked EXCEPT ![p] = overwrite] /\ overwrite \in BOOLEAN
        /\ resumes' \in 0 .. MaxResumes /\ UNCHANGED <<plan, seen, inflight, rescueVars, latest>>
    BY <1>0, <1>1, ResumeAssumption
    DEF IssueCondorResume, IssueResume, TakeLock, GoOn, RoundTypeOK, ResumeTypeOK
  <2>3. RoundTypeOK'
    BY <1>0, <2>2 DEF RoundTypeOK, ResumeTypeOK, ResumeControl
  <2>4. rctl'[p] = "snapshot" /\ \A q \in Resumer : q # p => rctl'[q] = rctl[q]
    BY <1>0, <2>2 DEF RoundTypeOK, ResumeTypeOK
  <2>5. RoundAt(p)'
    BY <2>2, <2>4 DEF RoundAt, Planned
  <2> QED
    BY <2>1, <2>2, <2>3, <2>4, <2>5, RoundStep DEF CondorInv
<1>2. CASE EndResume(p) \/ KillCondorResume(p)
  <2>1. /\ rctl[p] # "idle" /\ rctl' = [rctl EXCEPT ![p] = "idle"] /\ lock' \in {lock, Nobody}
        /\ asked' = [asked EXCEPT ![p] = FALSE] /\ plan' = [plan EXCEPT ![p] = NoPlan]
        /\ seen' = [seen EXCEPT ![p] = NothingSeen] /\ staged' = [staged EXCEPT ![p] = {}]
        /\ answered' = [answered EXCEPT ![p] = NoDag] /\ UNCHANGED <<inflight, resumes>>
        /\ kills' \in 0 .. MaxKills
        /\ UNCHANGED <<diskVars, callVars, dagVars, startProcVars, recordVars, startCommandVars>>
    BY <1>0, <1>2, CampaignAssumption
    DEF EndResume, KillCondorResume, Unlock, GoOn, KillResume, ForgetRound, ForgetRescue
  <2>2. WorkerInv' /\ DagInv' /\ StarterInv'
    BY <2>1, ResumeLeaves
  <2>3. NoPlan \in [Task -> PlannedState]
        /\ NothingSeen \in [Task -> [state : TaskStatus, attempts : 0 .. MaxAttempt]]
    <3>1. 0 \in 0 .. MaxAttempt /\ "pending" \in TaskStatus
      BY MaxAttemptAssumption DEF TaskStatus
    <3> QED
      BY <3>1 DEF NoPlan, NothingSeen, PlannedState
  <2>4. RoundTypeOK'
    BY <1>0, <2>1, <2>3 DEF RoundTypeOK, ResumeTypeOK, ResumeControl
  <2>5. rctl'[p] = "idle" /\ \A q \in Resumer : q # p => rctl'[q] = rctl[q]
    BY <1>0, <2>1 DEF RoundTypeOK, ResumeTypeOK
  <2>6. RoundAt(p)'
    BY <2>5 DEF RoundAt, Planned
  <2> QED
    BY <2>1, <2>2, <2>4, <2>5, <2>6, RoundStep DEF CondorInv
<1> QED
  BY <1>1, <1>2

(* A lock is removed when its resume is idle.                              *)
LEMMA UnlocksInv == CondorInv /\ OperatorUnlocks => CondorInv'
<1> SUFFICES ASSUME CondorInv, OperatorUnlocks PROVE CondorInv'
  OBVIOUS
<1>1. kills' \in 0 .. MaxKills
  BY DEF OperatorUnlocks, CondorInv, StarterInv, StarterTypeOK
<1>2. WorkerInv' /\ DagInv' /\ StarterInv'
  BY <1>1, ResumeLeaves DEF OperatorUnlocks
<1>3. /\ lock # Nobody /\ rctl[lock] = "idle" /\ lock' = Nobody
      /\ UNCHANGED <<rctl, roundVars, inflight, resumes, rescueVars, latest, attempt>>
  BY DEF OperatorUnlocks, RemoveStaleLock
<1>4. ASSUME NEW p \in Resumer
      PROVE  rctl[p] = "idle"
  BY <1>3 DEF CondorInv, RoundInv, RoundAt
<1>5. RoundInv'
  BY <1>3, <1>4 DEF CondorInv, RoundInv, RoundTypeOK, ResumeTypeOK, RoundAt, Planned
<1> QED
  BY <1>2, <1>5 DEF CondorInv

(* condor_q: the latest submit.json names a cluster, or the resume ends.   *)
LEMMA LookInv ==
  ASSUME CondorInv, NEW p \in Resumer, Look(p)
  PROVE  CondorInv'
<1>1. RoundTypeOK /\ RoundAt(p) /\ kills \in 0 .. MaxKills
  BY DEF CondorInv, RoundInv, StarterInv, StarterTypeOK
<1>2. WorkerInv' /\ DagInv' /\ StarterInv' /\ KeepsTerminal /\ KeepsAttempts
  BY <1>1, ResumeLeaves DEF Look
<1>3. UNCHANGED <<lock, roundVars, inflight, resumes, rescueVars, latest, attempt>>
  BY DEF Look
<1>4. PICK to \in {"plan", "reconcile", "unlock"} :
        /\ rctl[p] \in {"snapshot", "confirm"} /\ rctl' = [rctl EXCEPT ![p] = to]
        /\ to = "plan" => latest # NoDag
        /\ to = "reconcile" => rctl[p] = "confirm"
  BY DEF Look, GoOn, SnapshotValid
<1>5. rctl'[p] = to /\ \A q \in Resumer : q # p => rctl'[q] = rctl[q]
  BY <1>1, <1>4 DEF RoundTypeOK, ResumeTypeOK
<1>6. RoundTypeOK'
  BY <1>1, <1>3, <1>4 DEF RoundTypeOK, ResumeTypeOK, ResumeControl
<1>7. RoundAt(p)'
  BY <1>1, <1>3, <1>4, <1>5 DEF RoundAt, Planned, PlanBacked, StagedPlan, CompletedIn
<1> QED
  BY <1>2, <1>4, <1>5, <1>6, <1>7, RoundStep DEF CondorInv

(* The plan of the round, and the rescue file it agrees with.              *)
LEMMA PlanRoundInv ==
  ASSUME CondorInv, NEW p \in Resumer, PlanRound(p)
  PROVE  CondorInv'
<1> DEFINE pl == PlanFrom([t \in Task |-> "none"])
<1>1. /\ RoundTypeOK /\ RoundAt(p) /\ kills \in 0 .. MaxKills /\ WorkerInv
      /\ latest \in Dag /\ rctl[p] = "plan" /\ rescue[latest] \in (SUBSET Task) \cup {NoRescue}
  BY DEF CondorInv, RoundInv, StarterInv, StarterTypeOK, RoundAt, PlanRound, MakePlan, GoOn, DagInv,
         DagTypeOK
<1>2. /\ UNCHANGED <<stateVars, attempt, stray, startVars, dagVars, lock, asked, inflight, resumes,
                     answered, resumeFrame>>
      /\ files' \subseteq files
  BY DEF PlanRound, MakePlan
<1>3. DiskTypeOK'
  BY <1>1, <1>2 DEF WorkerInv, WorkerTypeOK, DiskTypeOK
<1>4. WorkerInv' /\ KeepsTerminal /\ KeepsAttempts
  BY <1>1, <1>2, <1>3, WorkerIdle
<1>5. DagInv' /\ StarterInv'
  BY <1>1, <1>2, <1>4, DagKept, StarterKept DEF CondorInv, StarterInv, StarterTypeOK
<1>6. /\ pl \in [Task -> PlannedState] /\ CompletedIn(pl) \subseteq Task
      /\ \A t \in Task : pl[t] = Effective(t, "none")
  BY <1>1, PlanFromRecords DEF PlanFrom, CompletedIn
<1> DEFINE done == IF rescue[latest] = NoRescue THEN {} ELSE rescue[latest]
           read == [t \in Task |-> [state |-> status[t], attempts |-> attempts[t]]]
<1>7. done \in SUBSET Task
  BY <1>1
<1>8. read \in [Task -> [state : TaskStatus, attempts : 0 .. MaxAttempt]]
  BY <1>1 DEF WorkerInv, WorkerTypeOK, DiskTypeOK
<1>9. CASE /\ PlanAccepted(pl, asked[p]) /\ SelectedIn(pl) # {} /\ RescueAgrees(pl)
           /\ rctl' = [rctl EXCEPT ![p] = "confirm"] /\ plan' = [plan EXCEPT ![p] = pl]
           /\ seen' = [seen EXCEPT ![p] = read] /\ staged' = [staged EXCEPT ![p] = done]
  <2>1. done = CompletedIn(pl)
    BY <1>6, <1>9, DagAssumption DEF RescueAgrees
  <2>2. \A t \in CompletedIn(pl) : Parents[t] \subseteq CompletedIn(pl)
    BY <1>9 DEF PlanAccepted
  <2> HIDE DEF pl, done, read
  <2>3. RoundTypeOK'
    BY <1>1, <1>2, <1>6, <1>7, <1>8, <1>9 DEF RoundTypeOK, ResumeTypeOK, ResumeControl
  <2>4. /\ rctl'[p] = "confirm" /\ \A q \in Resumer : q # p => rctl'[q] = rctl[q]
        /\ plan'[p] = pl /\ staged'[p] = done /\ seen'[p] = read
    BY <1>1, <1>9 DEF RoundTypeOK, ResumeTypeOK
  <2>5. PlanBacked(p)'
    <3>1. \A t \in Task : read[t].attempts = attempts[t]
      BY DEF read
    <3>2. \A t \in Task : StateOK(t)
      BY <1>1 DEF WorkerInv, StateBackedByAttempt
    <3> QED
      BY <1>1, <1>2, <1>6, <2>4, <3>1, <3>2, PlanFromRecords DEF PlanBacked, StateOK
  <2>6. StagedPlan(p)'
    BY <2>1, <2>2, <2>4 DEF StagedPlan, CompletedIn
  <2>7. RoundAt(p)'
    BY <1>1, <1>2, <2>4, <2>5, <2>6 DEF RoundAt
  <2> QED
    BY <1>1, <1>4, <1>5, <2>3, <2>4, <2>7, RoundStep DEF CondorInv
<1>10. CASE /\ rctl' = [rctl EXCEPT ![p] = "unlock"] /\ UNCHANGED <<plan, seen>>
            /\ staged' \in {staged, [staged EXCEPT ![p] = done]}
  <2> HIDE DEF done
  <2>1. RoundTypeOK'
    BY <1>1, <1>2, <1>7, <1>10 DEF RoundTypeOK, ResumeTypeOK, ResumeControl
  <2>2. rctl'[p] = "unlock" /\ \A q \in Resumer : q # p => rctl'[q] = rctl[q]
    BY <1>1, <1>10 DEF RoundTypeOK, ResumeTypeOK
  <2>3. RoundAt(p)'
    BY <1>1, <1>2, <2>2 DEF RoundAt, Planned
  <2> QED
    BY <1>1, <1>4, <1>5, <2>1, <2>2, <2>3, RoundStep DEF CondorInv
<1> QED
  BY <1>9, <1>10 DEF PlanRound, MakePlan, GoOn

(* A state file is written as planned.                                     *)
LEMMA ReconcileInv ==
  ASSUME CondorInv, NEW p \in Resumer, ReconcileStates(p)
  PROVE  CondorInv'
<1>1. /\ RoundTypeOK /\ RoundAt(p) /\ kills \in 0 .. MaxKills /\ WorkerInv
      /\ rctl[p] = "reconcile" /\ PlanBacked(p) /\ StagedPlan(p)
      /\ UNCHANGED <<attempt, fileVars, startVars, dagVars, lock, asked, plan, inflight, resumes,
                     rescueVars, resumeFrame>>
  BY DEF CondorInv, RoundInv, StarterInv, StarterTypeOK, RoundAt, Planned, ReconcileStates,
         ReconcileTask, Reconciled, GoOn
<1>2. CASE Reconciled(p) /\ UNCHANGED <<stateVars, seen>>
  <2>1. WorkerInv' /\ DagInv' /\ StarterInv'
    BY <1>1, <1>2, ResumeLeaves
  <2>2. rctl' = [rctl EXCEPT ![p] = "submit"]
    BY <1>2 DEF Reconciled, GoOn
  <2>3. rctl'[p] = "submit" /\ \A q \in Resumer : q # p => rctl'[q] = rctl[q]
    BY <1>1, <2>2 DEF RoundTypeOK, ResumeTypeOK
  <2>4. RoundTypeOK'
    BY <1>1, <1>2, <2>2 DEF RoundTypeOK, ResumeTypeOK, ResumeControl
  <2>5. RoundAt(p)'
    BY <1>1, <1>2, <2>3 DEF RoundAt, Planned, PlanBacked, StagedPlan, CompletedIn
  <2> QED
    BY <1>1, <2>1, <2>3, <2>4, <2>5, RoundStep DEF CondorInv
<1>3. CASE ReconcileTask(p)
  <2>1. PICK t \in Unreconciled(p) :
          /\ WriteTaskState(t, plan[p][t], seen[p][t].attempts)
          /\ seen' = [seen EXCEPT ![p][t].state = plan[p][t]]
    BY <1>3 DEF ReconcileTask
  <2>2. rctl' = rctl
    BY <1>1, <1>3 DEF ReconcileTask, GoOn, RoundTypeOK, ResumeTypeOK
  <2>3. /\ t \in Task /\ plan[p][t] \in TaskStatus \ {"running"}
        /\ seen \in [Resumer -> [Task -> [state : TaskStatus, attempts : 0 .. MaxAttempt]]]
    BY <1>1, <2>1 DEF Unreconciled, Terminal, TaskStatus, RoundTypeOK, ResumeTypeOK
  <2>4. seen[p][t].attempts \in 0 .. MaxAttempt
    BY <2>3
  <2>5. WorkerInv' /\ KeepsTerminal
    BY <1>1, <2>1, <2>3, <2>4, ReconcileWorker DEF PlanBacked
  <2>6. DagInv' /\ StarterInv'
    BY <1>1, <2>5, DagKept, StarterKept DEF CondorInv, StarterInv, StarterTypeOK
  <2>7. /\ seen' \in [Resumer -> [Task -> [state : TaskStatus, attempts : 0 .. MaxAttempt]]]
        /\ \A u \in Task : seen'[p][u].attempts = seen[p][u].attempts
    BY <2>1, <2>3
  <2>8. RoundTypeOK'
    BY <1>1, <2>2, <2>7 DEF RoundTypeOK, ResumeTypeOK
  <2>9. RoundAt(p)'
    BY <1>1, <2>2, <2>7 DEF RoundAt, PlanBacked, StagedPlan, CompletedIn
  <2> QED
    BY <1>1, <2>2, <2>5, <2>6, <2>8, <2>9, RoundStep DEF CondorInv
<1> QED
  BY <1>2, <1>3 DEF ReconcileStates

(* The rescue DAG is submitted, answered for or not.                       *)
LEMMA SubmitRescueInv ==
  ASSUME CondorInv, NEW p \in Resumer, SubmitRescue(p)
  PROVE  CondorInv'
<1>1. /\ RoundTypeOK /\ RoundAt(p) /\ kills \in 0 .. MaxKills
      /\ rctl[p] = "submit" /\ PlanBacked(p) /\ StagedPlan(p) /\ staged[p] \in SUBSET Task
      /\ UNCHANGED <<diskVars, lock, roundVars, resumes, staged, resumeFrame>>
  BY DEF CondorInv, RoundInv, StarterInv, StarterTypeOK, RoundTypeOK, RoundAt, Planned,
         SubmitRescue,
         GoOn
<1>2. WorkerInv' /\ KeepsTerminal /\ KeepsAttempts
  <2>1. DiskTypeOK'
    BY <1>1 DEF CondorInv, WorkerInv, WorkerTypeOK, DiskTypeOK
  <2> QED
    BY <1>1, <2>1, WorkerIdle DEF CondorInv
<1>3. ASSUME NEW d \in Dag, AcceptDag(d, staged[p], staged[p])
      PROVE  DagInv'
  <2>1. \A t \in staged[p] : HasCompletedAttempt(t) /\ Parents[t] \subseteq staged[p]
    <3>1. ASSUME NEW t \in staged[p]
          PROVE  HasCompletedAttempt(t)
      <4>1. t \in Task /\ plan[p][t] = "completed" /\ seen[p][t].attempts \in 0 .. MaxAttempt
        BY <1>1, <3>1 DEF StagedPlan, CompletedIn, RoundTypeOK, ResumeTypeOK
      <4>2. seen[p][t].attempts > 0 /\ attempt[t][seen[p][t].attempts] = "completed"
        BY <1>1, <4>1 DEF PlanBacked, Terminal
      <4>3. seen[p][t].attempts \in AttemptNo
        BY <4>1, <4>2, MaxAttemptAssumption DEF AttemptNo
      <4> QED
        BY <4>2, <4>3 DEF HasCompletedAttempt
    <3> QED
      BY <1>1, <3>1 DEF StagedPlan
  <2> QED
    BY <1>1, <1>3, <2>1, AcceptDagInv DEF CondorInv
<1>4. DagInv'
  <2>1. CASE UNCHANGED dagVars
    BY <1>1, <1>2, <2>1, DagKept DEF CondorInv
  <2> QED
    BY <1>3, <2>1 DEF SubmitRescue
<1>5. StarterInv'
  BY <1>1, StarterKept DEF CondorInv, StarterInv, StarterTypeOK
<1>6. PICK to \in {"acknowledge", "unlock"} :
        /\ rctl' = [rctl EXCEPT ![p] = to] /\ inflight' \in BOOLEAN
        /\ to = "acknowledge" => \E d \in Dag : answered' = [answered EXCEPT ![p] = d]
        /\ to = "unlock" => UNCHANGED answered
  BY <1>1 DEF SubmitRescue, GoOn, RoundTypeOK, ResumeTypeOK
<1>7. rctl'[p] = to /\ \A q \in Resumer : q # p => rctl'[q] = rctl[q]
  BY <1>1, <1>6 DEF RoundTypeOK, ResumeTypeOK
<1>8. RoundTypeOK'
  BY <1>1, <1>6 DEF RoundTypeOK, ResumeTypeOK, ResumeControl
<1>9. RoundAt(p)'
  <2>1. to = "acknowledge" => answered'[p] # NoDag
    BY <1>1, <1>6, DagAssumption DEF RoundTypeOK, NoDag
  <2> QED
    BY <1>1, <1>6, <1>7, <2>1 DEF RoundAt, Planned
<1> QED
  BY <1>1, <1>2, <1>4, <1>5, <1>7, <1>8, <1>9, RoundStep DEF CondorInv

(* The cluster of the round is on record.                                  *)
LEMMA AcknowledgeInv ==
  ASSUME CondorInv, NEW p \in Resumer, Acknowledge(p)
  PROVE  CondorInv'
<1>1. /\ RoundTypeOK /\ RoundAt(p) /\ rctl[p] = "acknowledge" /\ answered[p] \in Dag
      /\ rctl' = [rctl EXCEPT ![p] = "unlock"] /\ inflight' = FALSE
      /\ known' = known \cup {answered[p]} /\ latest' = answered[p]
      /\ answered' = [answered EXCEPT ![p] = NoDag]
      /\ UNCHANGED <<diskVars, dagVars, callVars, startProcVars, returncode, startCommandVars, lock,
                     roundVars, resumes, staged, kills>>
  BY DEF CondorInv, RoundInv, RoundTypeOK, RoundAt, Acknowledge, GoOn
<1>2. DiskTypeOK'
  BY <1>1 DEF CondorInv, WorkerInv, WorkerTypeOK, DiskTypeOK
<1>3. WorkerInv' /\ KeepsTerminal
  BY <1>1, <1>2, WorkerIdle DEF CondorInv
<1>4. DagInv'
  BY <1>1, <1>3, DagKept DEF CondorInv
<1>5. StarterInv'
  BY <1>1, StarterKept DEF CondorInv, StarterInv, StarterTypeOK
<1>6. rctl'[p] = "unlock" /\ \A q \in Resumer : q # p => rctl'[q] = rctl[q]
  BY <1>1 DEF RoundTypeOK, ResumeTypeOK
<1>7. RoundTypeOK'
  BY <1>1 DEF RoundTypeOK, ResumeTypeOK, ResumeControl
<1>8. RoundAt(p)'
  BY <1>1, <1>6 DEF RoundAt, Planned
<1> QED
  BY <1>1, <1>3, <1>4, <1>5, <1>6, <1>7, <1>8, RoundStep DEF CondorInv

(* Any step of the campaign.                                               *)
LEMMA CondorNextInv ==
  ASSUME CondorInv, [CondorNext]_condorVars
  PROVE  CondorInv' /\ KeepsTerminal /\ StartKept
<1>0. DiskTypeOK /\ kills \in 0 .. MaxKills
  BY DEF CondorInv, WorkerInv, WorkerTypeOK, StarterInv, StarterTypeOK
<1>1. ASSUME NEW p \in Submitter, StarterStep(p)
      PROVE  CondorInv' /\ KeepsTerminal /\ StartKept
  <2>1. StarterInv' /\ DiskTypeOK' /\ StartKept
    BY <1>0, <1>1, StarterStepInv DEF CondorInv
  <2>2. WorkerInv' /\ DagInv' /\ KeepsTerminal /\ KeepsAttempts
    BY <1>1, <2>1, StarterLeaves DEF CondorInv
  <2>3. UNCHANGED <<resumeVars, rescueVars>>
    BY <1>1 DEF StarterStep, IssueStart, Prepare, SubmitDag, RecordDag, Begin, KillStart
  <2>4. latest # NoDag => latest' # NoDag
    BY <1>1
    DEF StarterStep, IssueStart, Prepare, SubmitDag, RecordDag, Begin, KillStart, CondorInv,
        StarterInv, StarterOK, Step
  <2>5. RoundInv'
    BY <2>2, <2>3, <2>4, RoundKept DEF CondorInv
  <2> QED
    BY <2>1, <2>2, <2>5 DEF CondorInv
<1>2. ASSUME NEW p \in Resumer, \/ \E overwrite \in AskOverwrite : IssueCondorResume(p, overwrite)
                                \/ ResumerStep(p) \/ KillCondorResume(p)
      PROVE  CondorInv' /\ KeepsTerminal /\ StartKept
  <2>1. CondorInv'
    BY <1>2, RoundEnds, LookInv, PlanRoundInv, ReconcileInv, SubmitRescueInv, AcknowledgeInv
    DEF ResumerStep
  <2>2. UNCHANGED <<attempt, start>>
    BY <1>2
    DEF IssueCondorResume, ResumerStep, Look, PlanRound, ReconcileStates, SubmitRescue, Acknowledge,
        EndResume, KillCondorResume
  <2> QED
    BY <2>1, <2>2 DEF KeepsTerminal, StartKept
<1>3. ASSUME NEW d \in Dag, (DagStep(d) /\ UNCHANGED <<commandVars, kills>>) \/ LoseNode(d)
      PROVE  CondorInv' /\ KeepsTerminal /\ StartKept
  <2>1. WorkerInv' /\ DagInv' /\ KeepsTerminal /\ KeepsAttempts
    BY <1>3, DagWorker, DagStepInv DEF CondorInv
  <2>2. UNCHANGED commandVars /\ kills' \in 0 .. MaxKills
    BY <1>0, <1>3, CampaignAssumption DEF LoseNode
  <2>3. StarterInv'
    BY <2>2, StarterKept DEF CondorInv, StarterInv, StarterTypeOK
  <2>4. RoundInv'
    BY <2>1, <2>2, RoundKept DEF CondorInv
  <2>5. UNCHANGED start
    BY <1>3
    DEF DagStep, SubmitNode, StartJob, RunWorker, MarkRejection, StartPayload, Launch, LaunchFails,
        EndPayload, PayloadExits, ChooseNumber, MakeAttemptDir, AttemptDirExists, AcceptLaunch,
        RejectLaunch, AnnounceAttempt, AnnounceState, PublishAttempt, RecordState, EndJob, EndDag,
        LoseNode, EvictNode, LauncherFails, RemoveDag, KillNodeCalls
  <2> QED
    BY <2>1, <2>3, <2>4, <2>5 DEF CondorInv, StartKept
<1>4. CASE OperatorUnlocks
  BY <1>4, UnlocksInv DEF OperatorUnlocks, KeepsTerminal, StartKept
<1>5. CASE StrayOutput /\ UNCHANGED <<dagVars, commandVars, kills>>
  <2>1. WorkerInv' /\ KeepsTerminal /\ UNCHANGED <<attempt, at, start>>
    BY <1>5, StrayOutputInv DEF CondorInv, StrayOutput
  <2>2. DagInv' /\ StarterInv' /\ RoundInv'
    BY <1>0, <1>5, <2>1, DagKept, StarterKept, RoundKept
    DEF CondorInv, StarterInv, StarterTypeOK, KeepsAttempts
  <2> QED
    BY <2>1, <2>2 DEF CondorInv, StartKept
<1>6. CASE UNCHANGED condorVars
  <2>1. UNCHANGED <<diskVars, callVars, dagVars, startProcVars, resumeVars, recordVars,
                    startCommandVars, rescueVars, kills>>
    BY <1>6 DEF condorVars
  <2>2. WorkerInv' /\ DagInv' /\ StarterInv' /\ KeepsTerminal /\ KeepsAttempts
    BY <1>0, <2>1, ResumeLeaves
  <2>3. RoundInv'
    BY <2>1, <2>2, RoundKept DEF CondorInv
  <2> QED
    BY <2>1, <2>2, <2>3 DEF CondorInv, StartKept
<1>7. ASSUME NEW p \in Submitter,
             \/ \E overwrite \in Overwrite : IssueStart(p, overwrite)
             \/ Prepare(p) \/ SubmitDag(p) \/ RecordDag(p) \/ Begin(p) \/ KillStart(p)
      PROVE  StarterStep(p)
  BY <1>7 DEF StarterStep
<1> QED
  BY <1>1, <1>2, <1>3, <1>4, <1>5, <1>6, <1>7 DEF CondorNext, Rest

(* A new campaign.                                                         *)
LEMMA CondorInitInv == CondorInit => CondorInv
<1> SUFFICES ASSUME CondorInit PROVE CondorInv
  OBVIOUS
<1>1. WorkerInv
  <2>1. files \in SUBSET File
    BY CampaignAssumption DEF CondorInit
  <2> QED
    BY <2>1, InitInv DEF CondorInit
<1>2. DagInv
  <2>1. DagTypeOK
    BY DEF CondorInit, DagInit, DagTypeOK, DagState, DagNodeState, Untouched
  <2>2. CallsAreNodes
    BY DEF CondorInit, WorkerInit, CallsAreNodes
  <2>3. \A d \in Dag : \A t \in Task :
          dag[d] = "none" /\ node[d][t] = "waiting" /\ tried[d][t] = 0
    BY DEF CondorInit, DagInit, Untouched
  <2>4. PayloadsCharged /\ \A d \in Dag : \A t \in Task : NodeOK(d, t)
    BY <2>3 DEF PayloadsCharged, NodeOK
  <2> QED
    BY <2>1, <2>2, <2>4 DEF DagInv, CondorInit, DagInit, PostflightFollowsAll
<1>3. StarterInv
  <2>1. 0 \in 0 .. MaxCommands /\ 0 \in 0 .. MaxKills /\ Submitter \subseteq Proc
    BY CampaignAssumption
  <2> QED
    BY <2>1
    DEF CondorInit, StartInit, StarterInv, StarterTypeOK, StartTypeOK, StarterOK, StartControl,
        StartPC, Record
<1>4. RoundInv
  <2>1. 0 \in 0 .. MaxAttempt /\ "pending" \in TaskStatus
    BY MaxAttemptAssumption DEF TaskStatus
  <2>2. /\ NothingSeen \in [Task -> [state : TaskStatus, attempts : 0 .. MaxAttempt]]
        /\ NoPlan \in [Task -> PlannedState]
    BY <2>1 DEF NothingSeen, NoPlan, PlannedState
  <2>3. ResumeTypeOK
    <3>1. 0 \in 0 .. MaxResumes /\ "idle" \in ResumeControl
      BY ResumeAssumption DEF ResumeControl
    <3>2. plan \in [Resumer -> [Task -> PlannedState]]
      BY <2>2 DEF CondorInit, ResumeInit
    <3>3. seen \in [Resumer -> [Task -> [state : TaskStatus, attempts : 0 .. MaxAttempt]]]
      BY <2>2 DEF CondorInit, ResumeInit
    <3> QED
      BY <3>1, <3>2, <3>3 DEF CondorInit, ResumeInit, ResumeTypeOK
  <2>4. \A p \in Resumer : rctl[p] = "idle"
    BY DEF CondorInit, ResumeInit
  <2> QED
    BY <2>3, <2>4 DEF CondorInit, RoundInv, RoundTypeOK, RoundAt, Planned
<1> QED
  BY <1>1, <1>2, <1>3, <1>4 DEF CondorInv

----
(* One start at a time                                                     *)

(* Two starts are never under way together.  (Nothing in the protocol      *)
(* keeps them apart: both may find no start record, and submit.)           *)
OneStart == \A p, q \in Submitter : ctl[p] # "idle" /\ ctl[q] # "idle" => p = q

Launched == \E d \in Dag : dag[d] # "none"
Running == {d \in Dag : dag[d] = "running"}

(* The policy of the DAG that was accepted is on record until start.json   *)
(* has it; before there is a DAG nothing has run.                          *)
Promised ==
  /\ Launched => promised \in Policy /\ promised = IF start = "none" THEN startPending ELSE start
  /\ ~Launched => start = "none" /\ \A t \in Task : attempts[t] = 0
  /\ start = "none" /\ startPending = "none" => ~Launched

(* A start has accepted no DAG before it submits its own, whose cluster is *)
(* on record before start.json is.                                         *)
StartAt(p) ==
  /\ ctl[p] = "idle" => starting[p] = "out"
  /\ ctl[p] = "prepare" => starting[p] = "checked" /\ ~Launched
  /\ ctl[p] = "dag" => starting[p] = "prepared" /\ ~Launched /\ startPending = policy[p]
  /\ ctl[p] = "record" =>
       /\ starting[p] = "prepared" /\ Launched /\ start = "none" /\ policy[p] = promised
       /\ Running \subseteq {accepted[p]}
  /\ ctl[p] = "begin" =>
       \/ starting[p] = "cancel" /\ ~Launched
       \/ /\ starting[p] \in {"prepared", "commit"} /\ Launched /\ start = "none"
          /\ policy[p] = promised /\ Running \subseteq known
       \/ starting[p] \in {"unlink", "started"} /\ start # "none"

(* Of a started campaign every running DAG is on record, unless in_flight  *)
(* says that a submission may be missing; there is one at most; and it     *)
(* waits with no task that is complete.                                    *)
KnownDags == start # "none" /\ ~inflight => Running \subseteq known
OneDag == \A d, e \in Running : d = e
CompletedNotWaiting ==
  \A d \in Running : \A t \in Task : Evidence(t) = "completed" => node[d][t] # "waiting"

(* From its first look to its submission nothing runs beside a resume, and *)
(* what it has read stays true.                                            *)
QuietAt(p) ==
  /\ rctl[p] # "idle" => start # "none"
  /\ rctl[p] \in {"plan"} \cup Planned => Running = {} /\ ~inflight
  /\ rctl[p] = "acknowledge" => Running \subseteq {answered[p]} /\ inflight
  /\ rctl[p] \in Planned => \A t \in Task :
       seen[p][t].attempts = attempts[t] /\ (plan[p][t] = "completed" <=> Evidence(t) = "completed")

SoleInv ==
  /\ Promised /\ KnownDags /\ OneDag /\ CompletedNotWaiting
  /\ inflight => start # "none"
  /\ \A p \in Submitter : StartAt(p)
  /\ \A p \in Resumer : QuietAt(p)

(* Only p's own start is under way, whose step leaves the others idle.     *)
LEMMA AloneStarting ==
  ASSUME CondorInv, SoleInv, OneStart, OneStart', NEW p \in Submitter, StarterStep(p),
         StartAt(p)'
  PROVE  \A q \in Submitter : StartAt(q)'
<1> SUFFICES ASSUME NEW q \in Submitter, q # p
             PROVE  StartAt(q)'
  OBVIOUS
<1>1. /\ ctl \in [Submitter -> StartControl] /\ starting \in [Proc -> StartPC] /\ p \in Proc
      /\ q \in Proc
  BY CampaignAssumption DEF CondorInv, StarterInv, StarterTypeOK, StartTypeOK
<1>2. /\ ctl'[q] = ctl[q] /\ starting'[q] = starting[q]
      /\ ctl[p] # "idle" \/ ctl'[p] # "idle"
  BY <1>1
  DEF StarterStep, IssueStart, CheckPrepare, Prepare, WritePending, SubmitDag, RecordDag, Begin,
      BeginAccepted, CommitStart, UnlinkPending, CancelPrepared, KillStart, ForgetStart, Step, Move
<1>3. ctl[q] = "idle"
  BY <1>2 DEF OneStart
<1> QED
  BY <1>2, <1>3 DEF SoleInv, StartAt

(* A start's checks and its pending record come before any DAG.            *)
LEMMA PrepareSole ==
  ASSUME CondorInv, SoleInv, NEW p \in Submitter,
         (\E overwrite \in Overwrite : IssueStart(p, overwrite)) \/ Prepare(p)
  PROVE  StartAt(p)' /\ Promised' /\ ~Launched /\ UNCHANGED <<dagVars, stateVars, attempt, start>>
<1>0. /\ ctl \in [Submitter -> StartControl] /\ starting \in [Proc -> StartPC] /\ p \in Proc
      /\ StartAt(p)
  BY CampaignAssumption DEF CondorInv, StarterInv, StarterTypeOK, StartTypeOK, SoleInv
<1>1. CASE \E overwrite \in Overwrite : IssueStart(p, overwrite)
  <2>1. /\ ctl'[p] = "prepare" /\ starting'[p] = "checked"
        /\ start = "none" /\ startPending = "none" /\ UNCHANGED <<diskVars, dagVars, promised>>
    BY <1>0, <1>1 DEF IssueStart, CheckPrepare, Unstarted, Step, Move
  <2>2. ~Launched
    BY <2>1 DEF SoleInv, Promised
  <2> QED
    BY <2>1, <2>2 DEF StartAt, SoleInv, Promised, Launched
<1>2. CASE Prepare(p)
  <2>1. /\ ctl[p] = "prepare" /\ ctl'[p] = "dag" /\ starting'[p] = "prepared"
        /\ startPending' = policy[p] /\ policy' = policy
        /\ UNCHANGED <<stateVars, attempt, start, dagVars, promised>>
    BY <1>0, <1>2 DEF Prepare, WritePending, Step, Move
  <2>2. ~Launched
    BY <1>0, <2>1 DEF StartAt
  <2> QED
    BY <2>1, <2>2 DEF StartAt, SoleInv, Promised, Launched
<1> QED
  BY <1>1, <1>2

(* What an accepted DAG adds to those there were.                          *)
LEMMA AcceptedDag ==
  ASSUME DagInv, NEW d \in Dag, NEW done, NEW file, AcceptDag(d, done, file)
  PROVE  /\ Running' = Running \cup {d} /\ Launched' /\ dag[d] = "none"
         /\ \A e \in Dag : \A t \in Task :
              node'[e][t] \in {"idle", "running"} => node[e][t] = node'[e][t]
         /\ \A t \in Task : node'[d][t] = "waiting" => t \notin done
         /\ \A e \in Running : \A t \in Task : node'[e][t] = node[e][t]
  BY DEF AcceptDag, NewDag, DagInv, DagTypeOK, Running, Launched

(* The DAG of a start is the first.                                        *)
LEMMA SubmitSole ==
  ASSUME CondorInv, SoleInv, NEW p \in Submitter, SubmitDag(p)
  PROVE  StartAt(p)' /\ Promised' /\ OneDag' /\ CompletedNotWaiting' /\ start = "none"
<1>0. /\ ctl \in [Submitter -> StartControl] /\ starting \in [Proc -> StartPC] /\ p \in Proc
      /\ accepted \in [Submitter -> Dag \cup {NoDag}] /\ StartAt(p) /\ StarterOK(p)
      /\ attempts \in [Task -> 0 .. MaxAttempt]
  BY CampaignAssumption
  DEF CondorInv, StarterInv, StarterTypeOK, StartTypeOK, SoleInv, WorkerInv, WorkerTypeOK,
      DiskTypeOK
<1>1. /\ ctl[p] = "dag" /\ starting[p] = "prepared" /\ ~Launched /\ startPending = policy[p]
      /\ policy[p] \in Policy /\ start = "none" /\ Running = {}
      /\ UNCHANGED <<diskVars, policy>> /\ \A t \in Task : attempts[t] = 0
  BY <1>0 DEF SubmitDag, Step, StartAt, StarterOK, SoleInv, Promised, Launched, Running
<1>2. \A t \in Task : Evidence(t)' # "completed"
  BY <1>1 DEF Evidence, AttemptNo
<1>3. ASSUME NEW d \in Dag, AcceptDag(d, {}, NoRescue), accepted' = [accepted EXCEPT ![p] = d],
             Step(p, "dag", "record"), promised' = policy[p], UNCHANGED starting
      PROVE  StartAt(p)' /\ Promised' /\ OneDag'
  <2>1. Running' = {d} /\ Launched' /\ ctl'[p] = "record" /\ accepted'[p] = d
    BY <1>0, <1>1, <1>3, AcceptedDag DEF CondorInv, Step
  <2>2. StartAt(p)' /\ OneDag'
    BY <1>1, <1>3, <2>1 DEF StartAt, OneDag
  <2>3. Promised'
    BY <1>1, <1>3, <2>1 DEF Promised, Policy
  <2> QED
    BY <2>2, <2>3
<1>4. ASSUME Step(p, "dag", "begin"), Move(p, "prepared", "cancel"), UNCHANGED <<dagVars, promised>>
      PROVE  StartAt(p)' /\ Promised' /\ OneDag'
  <2>1. ctl'[p] = "begin" /\ starting'[p] = "cancel" /\ Running' = {} /\ ~Launched'
    BY <1>0, <1>1, <1>4 DEF Step, Move, Running, Launched
  <2> QED
    BY <1>1, <1>4, <2>1 DEF StartAt, Promised, OneDag
<1> QED
  BY <1>1, <1>2, <1>3, <1>4 DEF SubmitDag, CompletedNotWaiting

(* The record and the rest of the start.                                   *)
LEMMA RecordSole ==
  ASSUME CondorInv, SoleInv, NEW p \in Submitter, RecordDag(p) \/ Begin(p) \/ KillStart(p)
  PROVE  /\ StartAt(p)' /\ Promised' /\ KnownDags' /\ known \subseteq known'
         /\ UNCHANGED <<dagVars, stateVars, attempt>>
<1>0. /\ ctl \in [Submitter -> StartControl] /\ starting \in [Proc -> StartPC] /\ p \in Proc
      /\ policy \in [Proc -> Record] /\ StartAt(p) /\ StarterOK(p)
  BY CampaignAssumption DEF CondorInv, StarterInv, StarterTypeOK, StartTypeOK, SoleInv
<1>1. /\ UNCHANGED <<dagVars, stateVars, attempt, inflight, promised>> /\ known \subseteq known'
      /\ Running' = Running /\ Launched' = Launched
  BY DEF RecordDag, Begin, BeginAccepted, CommitStart, UnlinkPending, CancelPrepared, KillStart,
         Running, Launched
<1>2. CASE RecordDag(p)
  <2>1. /\ ctl[p] = "record" /\ ctl'[p] = "begin" /\ known' = known \cup {accepted[p]}
        /\ UNCHANGED <<diskVars, starting, policy>>
    BY <1>0, <1>2 DEF RecordDag, Step
  <2> QED
    BY <1>0, <1>1, <2>1 DEF StartAt, SoleInv, Promised, KnownDags
<1>3. CASE Begin(p) /\ BeginAccepted(p) /\ UNCHANGED ctl
  <2>1. /\ ctl[p] = "begin" /\ starting[p] = "prepared" /\ starting'[p] = "commit"
        /\ policy'[p] = (IF startPending # "none" THEN startPending ELSE policy[p])
        /\ UNCHANGED <<diskVars, ctl, known>>
    BY <1>0, <1>3 DEF Begin, BeginAccepted, Move
  <2>2. /\ Launched /\ start = "none" /\ policy[p] = promised /\ Running \subseteq known
        /\ startPending = promised
    BY <1>0, <2>1 DEF StartAt, SoleInv, Promised
  <2> QED
    BY <1>1, <2>1, <2>2 DEF StartAt, SoleInv, Promised, KnownDags
<1>4. CASE Begin(p) /\ CommitStart(p) /\ UNCHANGED ctl
  <2>1. /\ ctl[p] = "begin" /\ starting[p] = "commit" /\ starting'[p] = "unlink"
        /\ start' = policy[p] /\ UNCHANGED <<startPending, attempts, ctl, known>>
    BY <1>0, <1>4 DEF Begin, CommitStart, Move
  <2>2. /\ Launched /\ start = "none" /\ policy[p] = promised /\ Running \subseteq known
        /\ promised \in Policy
    BY <1>0, <2>1 DEF StartAt, SoleInv, Promised
  <2> QED
    BY <1>1, <2>1, <2>2 DEF StartAt, Promised, KnownDags, Policy
<1>5. CASE Begin(p) /\ UnlinkPending(p) /\ UNCHANGED ctl
  <2>1. /\ ctl[p] = "begin" /\ starting[p] = "unlink" /\ starting'[p] = "started"
        /\ UNCHANGED <<start, attempts, ctl, known>>
    BY <1>0, <1>5 DEF Begin, UnlinkPending, Move
  <2>2. start # "none"
    BY <1>0, <2>1 DEF StartAt
  <2> QED
    BY <1>1, <2>1, <2>2 DEF StartAt, SoleInv, Promised, KnownDags
<1>6. ASSUME ctl' = [ctl EXCEPT ![p] = "idle"], starting' = [starting EXCEPT ![p] = "out"],
             UNCHANGED <<start, known>>,
             startPending' = startPending \/ (startPending' = "none" /\ ~Launched)
      PROVE  StartAt(p)' /\ Promised' /\ KnownDags'
  <2>1. ctl'[p] = "idle" /\ starting'[p] = "out" /\ UNCHANGED attempts
    BY <1>0, <1>1, <1>6
  <2> QED
    BY <1>1, <1>6, <2>1 DEF StartAt, SoleInv, Promised, KnownDags
<1>7. CASE Begin(p) /\ CancelPrepared(p) /\ Step(p, "begin", "idle")
  <2>1. ~Launched
    BY <1>0, <1>7 DEF CancelPrepared, Move, Step, StartAt
  <2> QED
    BY <1>1, <1>6, <1>7, <2>1 DEF Begin, CancelPrepared, Move, Step
<1>8. CASE \/ KillStart(p)
           \/ Begin(p) /\ ForgetStart(p) /\ Step(p, "begin", "idle") /\ UNCHANGED diskVars
  BY <1>1, <1>6, <1>8 DEF KillStart, Begin, ForgetStart, Step
<1> QED
  BY <1>1, <1>2, <1>3, <1>4, <1>5, <1>7, <1>8 DEF Begin

(* A step of a start that is alone.                                        *)
LEMMA StarterSole ==
  ASSUME CondorInv, SoleInv, OneStart, OneStart', NEW p \in Submitter, StarterStep(p)
  PROVE  SoleInv'
<1>1. UNCHANGED <<rctl, inflight, plan, seen, answered, stateVars, attempt>>
  BY DEF StarterStep, IssueStart, CheckPrepare, Prepare, WritePending, SubmitDag, RecordDag, Begin,
         BeginAccepted, CommitStart, UnlinkPending, CancelPrepared, KillStart
<1>2. start # "none" => start' # "none"
  BY CondorNextInv, StarterStepInv DEF CondorInv, WorkerInv, WorkerTypeOK, StartKept
<1>3. ASSUME StartAt(p)', Promised', KnownDags', OneDag', CompletedNotWaiting',
             \A r \in Resumer : rctl[r] # "idle" => Running' = Running
      PROVE  SoleInv'
  <2>1. \A q \in Submitter : StartAt(q)'
    BY <1>3, AloneStarting
  <2>2. ASSUME NEW r \in Resumer
        PROVE  QuietAt(r)'
    BY <1>1, <1>2, <1>3 DEF SoleInv, QuietAt, Evidence, Planned
  <2> QED
    BY <1>1, <1>2, <1>3, <2>1, <2>2 DEF SoleInv
<1>4. ASSUME UNCHANGED dagVars
      PROVE  OneDag' /\ CompletedNotWaiting' /\ Running' = Running
  BY <1>1, <1>4 DEF SoleInv, OneDag, CompletedNotWaiting, Running, Evidence
<1>5. CASE (\E overwrite \in Overwrite : IssueStart(p, overwrite)) \/ Prepare(p)
  <2>1. StartAt(p)' /\ Promised' /\ ~Launched /\ UNCHANGED <<dagVars, start>>
    BY <1>5, PrepareSole
  <2>2. KnownDags'
    BY <2>1 DEF SoleInv, Promised, KnownDags
  <2> QED
    BY <1>3, <1>4, <2>1, <2>2
<1>6. CASE SubmitDag(p)
  <2>1. /\ StartAt(p)' /\ Promised' /\ OneDag' /\ CompletedNotWaiting'
        /\ start = "none" /\ start' = start
    BY <1>6, SubmitSole DEF SubmitDag
  <2>2. KnownDags' /\ \A r \in Resumer : rctl[r] = "idle"
    BY <2>1 DEF KnownDags, SoleInv, QuietAt
  <2> QED
    BY <1>3, <2>1, <2>2
<1>7. CASE RecordDag(p) \/ Begin(p) \/ KillStart(p)
  BY <1>3, <1>4, <1>7, RecordSole
<1> QED
  BY <1>5, <1>6, <1>7 DEF StarterStep

(* Beside a resume no start is before its commit.                          *)
LEMMA ResumeSole ==
  ASSUME SoleInv, start # "none", UNCHANGED <<start, startPending, promised, ctl, starting>>,
         Launched', inflight' \in BOOLEAN
  PROVE  Promised' /\ (\A p \in Submitter : StartAt(p)')
<1>1. Launched
  BY DEF SoleInv, Promised
<1> QED
  BY <1>1 DEF SoleInv, Promised, StartAt

(* Of a step of a resume the rounds of the others, which are idle, need    *)
(* nothing.                                                                *)
LEMMA RoundSole ==
  ASSUME CondorInv, SoleInv, NEW p \in Resumer, rctl[p] # "idle" \/ lock = Nobody, QuietAt(p)',
         \A q \in Resumer : q # p => rctl'[q] = rctl[q]
  PROVE  \A q \in Resumer : QuietAt(q)'
<1> SUFFICES ASSUME NEW q \in Resumer, q # p
             PROVE  QuietAt(q)'
  OBVIOUS
<1>1. rctl[q] = "idle"
  BY ResumeAssumption DEF CondorInv, RoundInv, RoundAt
<1> QED
  BY <1>1 DEF QuietAt, Planned

(* A resume that submits nothing and reconciles nothing.                   *)
LEMMA ResumeRests ==
  ASSUME CondorInv, SoleInv, NEW p \in Resumer, rctl[p] # "idle" \/ lock = Nobody, start # "none",
         UNCHANGED <<start, startPending, attempts, attempt, dagVars, startProcVars, recordVars,
                     startCommandVars, inflight>>,
         \A q \in Resumer : q # p => rctl'[q] = rctl[q],
         QuietAt(p)'
  PROVE  SoleInv'
<1>1. Launched' = Launched /\ Running' = Running /\ \A t \in Task : Evidence(t)' = Evidence(t)
  BY DEF Launched, Running, Evidence
<1>2. Launched /\ inflight \in BOOLEAN
  BY DEF SoleInv, Promised, CondorInv, RoundInv, RoundTypeOK, ResumeTypeOK
<1>3. Promised' /\ (\A q \in Submitter : StartAt(q)')
  BY <1>1, <1>2, ResumeSole
<1>4. KnownDags' /\ OneDag' /\ CompletedNotWaiting'
  BY <1>1 DEF SoleInv, KnownDags, OneDag, CompletedNotWaiting
<1>5. \A q \in Resumer : QuietAt(q)'
  BY RoundSole
<1> QED
  BY <1>3, <1>4, <1>5 DEF SoleInv

(* The first look finds every DAG that may be running.                     *)
LEMMA LookSole ==
  ASSUME CondorInv, SoleInv, NEW p \in Resumer, Look(p)
  PROVE  SoleInv'
<1>1. /\ rctl \in [Resumer -> ResumeControl] /\ QuietAt(p)
      /\ UNCHANGED <<diskVars, dagVars, plan, seen, answered, inflight, resumeFrame>>
  BY DEF CondorInv, RoundInv, RoundTypeOK, ResumeTypeOK, SoleInv, Look
<1>2. PICK to \in {"plan", "reconcile", "unlock"} :
        /\ rctl[p] \in {"snapshot", "confirm"} /\ rctl' = [rctl EXCEPT ![p] = to]
        /\ to = "plan" => SnapshotValid /\ LiveDags = {}
        /\ to = "reconcile" => rctl[p] = "confirm"
  BY DEF Look, GoOn
<1>3. rctl'[p] = to /\ (\A q \in Resumer : q # p => rctl'[q] = rctl[q]) /\ start # "none"
  BY <1>1, <1>2 DEF QuietAt
<1>4. to = "plan" => Running = {} /\ ~inflight
  BY <1>2, <1>3 DEF SnapshotValid, LiveDags, SoleInv, KnownDags, Running
<1>5. Running' = Running /\ \A t \in Task : Evidence(t)' = Evidence(t)
  BY <1>1 DEF Running, Evidence
<1>6. QuietAt(p)'
  BY <1>1, <1>2, <1>3, <1>4, <1>5 DEF QuietAt, Planned
<1> QED
  BY <1>1, <1>2, <1>3, <1>6, ResumeRests

(* A task is planned to be complete when its attempt record says so.       *)
LEMMA PlanComplete ==
  ASSUME WorkerInv, NEW t \in Task
  PROVE  Effective(t, "none") = "completed" <=> Evidence(t) = "completed"
<1>1. StateOK(t) /\ attempts[t] \in 0 .. MaxAttempt
  BY DEF WorkerInv, StateBackedByAttempt, WorkerTypeOK, DiskTypeOK
<1>2. attempts[t] > 0 => attempts[t] \in AttemptNo
  BY <1>1, MaxAttemptAssumption DEF AttemptNo
<1> QED
  BY <1>1, <1>2 DEF Effective, Evidence, StateOK, Terminal

(* The plan is made of what is on disk.                                    *)
LEMMA PlanSole ==
  ASSUME CondorInv, SoleInv, NEW p \in Resumer, PlanRound(p)
  PROVE  SoleInv'
<1> DEFINE pl == PlanFrom([t \in Task |-> "none"])
           read == [t \in Task |-> [state |-> status[t], attempts |-> attempts[t]]]
<1>1. /\ RoundTypeOK /\ QuietAt(p) /\ WorkerInv /\ rctl[p] = "plan"
      /\ UNCHANGED <<stateVars, attempt, startVars, dagVars, answered, inflight, resumeFrame>>
  BY DEF CondorInv, RoundInv, SoleInv, PlanRound, MakePlan, GoOn
<1>2. \/ /\ rctl' = [rctl EXCEPT ![p] = "confirm"] /\ plan' = [plan EXCEPT ![p] = pl]
         /\ seen' = [seen EXCEPT ![p] = read]
      \/ rctl' = [rctl EXCEPT ![p] = "unlock"] /\ UNCHANGED <<plan, seen>>
  BY DEF PlanRound, MakePlan, GoOn
<1>3. Running' = Running /\ \A t \in Task : Evidence(t)' = Evidence(t)
  BY <1>1 DEF Running, Evidence
<1>4. \A t \in Task : pl[t] = "completed" <=> Evidence(t) = "completed"
  BY <1>1, PlanComplete DEF PlanFrom
<1>5. \A t \in Task : read[t].attempts = attempts[t]
  OBVIOUS
<1> HIDE DEF pl, read
<1>6. rctl'[p] \in {"confirm", "unlock"} /\ \A q \in Resumer : q # p => rctl'[q] = rctl[q]
  BY <1>1, <1>2 DEF RoundTypeOK, ResumeTypeOK
<1>7. rctl'[p] = "confirm" => plan'[p] = pl /\ seen'[p] = read
  BY <1>1, <1>2 DEF RoundTypeOK, ResumeTypeOK
<1>8. QuietAt(p)' /\ start # "none"
  BY <1>1, <1>3, <1>4, <1>5, <1>6, <1>7 DEF QuietAt, Planned
<1> QED
  BY <1>1, <1>6, <1>8, ResumeRests

(* Reconciling changes no attempt count.                                   *)
LEMMA ReconcileSole ==
  ASSUME CondorInv, SoleInv, NEW p \in Resumer, ReconcileStates(p)
  PROVE  SoleInv'
<1>1. /\ RoundTypeOK /\ QuietAt(p) /\ attempts \in [Task -> 0 .. MaxAttempt]
      /\ rctl[p] = "reconcile"
      /\ UNCHANGED <<attempt, startVars, dagVars, plan, answered, inflight, resumeFrame>>
  BY DEF CondorInv, RoundInv, SoleInv, WorkerInv, WorkerTypeOK, DiskTypeOK, ReconcileStates,
         ReconcileTask, Reconciled, GoOn
<1>2. UNCHANGED attempts /\ \A t \in Task : seen'[p][t].attempts = seen[p][t].attempts
  <2>1. CASE UNCHANGED <<stateVars, seen>>
    BY <2>1
  <2>2. CASE ReconcileTask(p)
    <3>1. PICK t \in Unreconciled(p) :
            /\ attempts' = [attempts EXCEPT ![t] = seen[p][t].attempts]
            /\ seen' = [seen EXCEPT ![p][t].state = plan[p][t]]
      BY <2>2 DEF ReconcileTask, WriteTaskState
    <3>2. seen[p][t].attempts = attempts[t]
      BY <1>1, <3>1 DEF QuietAt, Planned, Unreconciled
    <3>3. seen \in [Resumer -> [Task -> [state : TaskStatus, attempts : 0 .. MaxAttempt]]]
      BY <1>1 DEF RoundTypeOK, ResumeTypeOK
    <3> QED
      BY <1>1, <3>1, <3>2, <3>3
  <2> QED
    BY <2>1, <2>2 DEF ReconcileStates
<1>3. Running' = Running /\ \A t \in Task : Evidence(t)' = Evidence(t)
  BY <1>1, <1>2 DEF Running, Evidence
<1>4. rctl'[p] \in {"reconcile", "submit"} /\ \A q \in Resumer : q # p => rctl'[q] = rctl[q]
  BY <1>1 DEF ReconcileStates, ReconcileTask, Reconciled, GoOn, RoundTypeOK, ResumeTypeOK
<1>5. QuietAt(p)' /\ start # "none"
  BY <1>1, <1>2, <1>3, <1>4 DEF QuietAt, Planned
<1> QED
  BY <1>1, <1>2, <1>4, <1>5, ResumeRests

(* Nothing runs beside the DAG of a resume, and its rescue file leaves out *)
(* no task that is complete.                                               *)
LEMMA SubmitRescueSole ==
  ASSUME CondorInv, SoleInv, NEW p \in Resumer, SubmitRescue(p)
  PROVE  SoleInv'
<1>1. /\ RoundTypeOK /\ QuietAt(p) /\ StagedPlan(p) /\ DagInv /\ rctl[p] = "submit"
      /\ start # "none" /\ Running = {} /\ ~inflight /\ Launched
      /\ UNCHANGED <<diskVars, plan, seen, resumeFrame>>
  BY DEF CondorInv, RoundInv, RoundAt, SoleInv, Promised, QuietAt, Planned, SubmitRescue, GoOn
<1>2. \A t \in Task : Evidence(t)' = Evidence(t)
  BY <1>1 DEF Evidence
<1>3. rctl'[p] \in {"acknowledge", "unlock"} /\ \A q \in Resumer : q # p => rctl'[q] = rctl[q]
  BY <1>1 DEF SubmitRescue, GoOn, RoundTypeOK, ResumeTypeOK
<1>4. ASSUME NEW d \in Dag, AcceptDag(d, staged[p], staged[p]), inflight' = TRUE,
             rctl'[p] = "acknowledge" => answered' = [answered EXCEPT ![p] = d]
      PROVE  SoleInv'
  <2>1. /\ Running' = {d} /\ Launched'
        /\ \A t \in Task : node'[d][t] = "waiting" => t \notin staged[p]
    BY <1>1, <1>4, AcceptedDag
  <2>2. OneDag' /\ KnownDags'
    BY <1>4, <2>1 DEF OneDag, KnownDags
  <2>3. CompletedNotWaiting'
    <3>1. \A t \in Task : Evidence(t) = "completed" => t \in staged[p]
      BY <1>1 DEF QuietAt, Planned, StagedPlan, CompletedIn
    <3> QED
      BY <1>2, <2>1, <3>1 DEF CompletedNotWaiting
  <2>4. QuietAt(p)'
    <3>1. rctl'[p] = "acknowledge" => answered'[p] = d
      BY <1>1, <1>4 DEF RoundTypeOK
    <3> QED
      BY <1>1, <1>3, <1>4, <2>1, <3>1 DEF QuietAt, Planned
  <2>5. Promised' /\ (\A q \in Submitter : StartAt(q)')
    BY <1>1, <1>4, <2>1, ResumeSole
  <2>6. \A q \in Resumer : QuietAt(q)'
    BY <1>1, <1>3, <2>4, RoundSole
  <2> QED
    BY <1>1, <1>4, <2>2, <2>3, <2>5, <2>6 DEF SoleInv
<1>5. ASSUME UNCHANGED dagVars, inflight' \in BOOLEAN, rctl'[p] = "unlock"
      PROVE  SoleInv'
  <2>1. Running' = {} /\ Launched'
    BY <1>1, <1>5 DEF Running, Launched
  <2>2. OneDag' /\ KnownDags' /\ CompletedNotWaiting'
    BY <2>1 DEF OneDag, KnownDags, CompletedNotWaiting
  <2>3. Promised' /\ (\A q \in Submitter : StartAt(q)')
    BY <1>1, <1>5, <2>1, ResumeSole
  <2>4. \A q \in Resumer : QuietAt(q)'
    <3>1. QuietAt(p)'
      BY <1>1, <1>5 DEF QuietAt, Planned
    <3> QED
      BY <1>1, <1>3, <3>1, RoundSole
  <2> QED
    BY <1>1, <2>2, <2>3, <2>4 DEF SoleInv
<1> QED
  BY <1>1, <1>4, <1>5 DEF SubmitRescue, GoOn, RoundTypeOK, ResumeTypeOK

(* What was answered for is on record, and was all that could be missing.  *)
LEMMA AcknowledgeSole ==
  ASSUME CondorInv, SoleInv, NEW p \in Resumer, Acknowledge(p)
  PROVE  SoleInv'
<1>1. /\ RoundTypeOK /\ QuietAt(p) /\ rctl[p] = "acknowledge"
      /\ start # "none" /\ Running \subseteq {answered[p]} /\ Launched
      /\ known' = known \cup {answered[p]} /\ inflight' = FALSE
      /\ UNCHANGED <<diskVars, dagVars, startProcVars, startCommandVars>>
  BY DEF CondorInv, RoundInv, SoleInv, Promised, QuietAt, Acknowledge, GoOn
<1>2. /\ Running' = Running /\ Launched' = Launched /\ \A t \in Task : Evidence(t)' = Evidence(t)
  BY <1>1 DEF Running, Launched, Evidence
<1>3. rctl'[p] = "unlock" /\ \A q \in Resumer : q # p => rctl'[q] = rctl[q]
  BY <1>1 DEF Acknowledge, GoOn, RoundTypeOK, ResumeTypeOK
<1>4. KnownDags' /\ OneDag' /\ CompletedNotWaiting'
  BY <1>1, <1>2 DEF SoleInv, KnownDags, OneDag, CompletedNotWaiting
<1>5. Promised' /\ (\A q \in Submitter : StartAt(q)')
  BY <1>1, <1>2, ResumeSole
<1>6. \A q \in Resumer : QuietAt(q)'
  <2>1. QuietAt(p)'
    BY <1>1, <1>3 DEF QuietAt, Planned
  <2> QED
    BY <1>1, <1>3, <2>1, RoundSole
<1> QED
  BY <1>1, <1>4, <1>5, <1>6 DEF SoleInv

(* A resume begins and ends with nothing to rely on.                       *)
LEMMA EndsSole ==
  ASSUME CondorInv, SoleInv, NEW p \in Resumer,
         \/ \E overwrite \in AskOverwrite : IssueCondorResume(p, overwrite)
         \/ EndResume(p) \/ KillCondorResume(p)
  PROVE  SoleInv'
<1>1. RoundTypeOK /\ QuietAt(p)
  BY DEF CondorInv, RoundInv, SoleInv
<1>2. /\ UNCHANGED <<diskVars, dagVars, startProcVars, recordVars, startCommandVars, inflight>>
      /\ rctl'[p] \in {"snapshot", "idle"} /\ \A q \in Resumer : q # p => rctl'[q] = rctl[q]
      /\ start # "none" /\ (rctl[p] # "idle" \/ lock = Nobody)
  BY <1>1
  DEF IssueCondorResume, IssueResume, TakeLock, EndResume, KillCondorResume, Unlock, GoOn,
      KillResume,
      RoundTypeOK, ResumeTypeOK, QuietAt
<1>3. QuietAt(p)'
  BY <1>2 DEF QuietAt, Planned
<1> QED
  BY <1>2, <1>3, ResumeRests

(* A stale lock is of no resume that goes on.                              *)
LEMMA UnlocksSole ==
  ASSUME SoleInv, OperatorUnlocks
  PROVE  SoleInv'
<1>1. /\ UNCHANGED <<diskVars, dagVars, startProcVars, startCommandVars, recordVars>>
      /\ UNCHANGED <<rctl, roundVars, inflight, rescueVars>>
  BY DEF OperatorUnlocks
<1>2. Launched' = Launched /\ Running' = Running /\ \A t \in Task : Evidence(t)' = Evidence(t)
  BY <1>1 DEF Launched, Running, Evidence
<1> QED
  BY <1>1, <1>2
  DEF SoleInv, Promised, KnownDags, OneDag, CompletedNotWaiting, StartAt, QuietAt

(* What the steps of a DAG may change: it was running, it starts no node   *)
(* that it waits with, and the records of such a node are left alone.      *)
LEMMA DagFrame ==
  ASSUME WorkerInv, DagInv, NEW d \in Dag, DagStep(d) \/ LoseNode(d)
  PROVE  /\ dag[d] = "running" /\ dag' \in {dag, [dag EXCEPT ![d] = "ended"]}
         /\ UNCHANGED startVars
         /\ \A e \in Dag : \A t \in Task : node'[e][t] = "waiting" => node[e][t] = "waiting"
         /\ \A t \in Task : node[d][t] = "waiting" => Evidence(t)' = Evidence(t)
<1>0. /\ d \in Proc /\ WorkerTypeOK /\ DagTypeOK
      /\ \A t \in Task : node[d][t] \in {"idle", "running"} => dag[d] = "running"
      /\ \A t \in Task : at[d][t] # "idle" => node[d][t] = "running"
  BY DagAssumption DEF DagInv, NodeOK, CallsAreNodes, WorkerInv
<1>1. ASSUME NEW t \in Task, RunWorker(d, t)
      PROVE  /\ UNCHANGED <<dag, node, startVars>> /\ node[d][t] = "running"
             /\ \A u \in Task : u # t => Evidence(u)' = Evidence(u)
  BY <1>0, <1>1, RunWorkerStep, WorkerStepLocal DEF RunWorker, Evidence
<1>2. ASSUME UNCHANGED <<stateVars, attempt>>
      PROVE  \A t \in Task : Evidence(t)' = Evidence(t)
  BY <1>2 DEF Evidence
<1>3. ASSUME NEW t \in Task, NEW v, v # "waiting", node' = [node EXCEPT ![d][t] = v]
      PROVE  \A e \in Dag : \A u \in Task : node'[e][u] = "waiting" => node[e][u] = "waiting"
  BY <1>0, <1>3 DEF DagTypeOK
<1>4. ASSUME NEW t \in Task,
             SubmitNode(d, t) \/ StartJob(d, t) \/ EndJob(d, t) \/ EvictNode(d, t)
      PROVE  /\ UNCHANGED <<dag, startVars, stateVars, attempt>> /\ dag[d] = "running"
             /\ \A e \in Dag : \A u \in Task : node'[e][u] = "waiting" => node[e][u] = "waiting"
  <2>1. PICK v : v # "waiting" /\ node' = [node EXCEPT ![d][t] = v]
    BY <1>4 DEF SubmitNode, StartJob, EndJob, NextNodeState, EvictNode, ExitCode
  <2> QED
    BY <1>0, <1>3, <1>4, <2>1 DEF SubmitNode, StartJob, EndJob, EvictNode, KillNodeCalls
<1>5. ASSUME EndDag(d) \/ RemoveDag(d)
      PROVE  /\ dag' = [dag EXCEPT ![d] = "ended"] /\ dag[d] = "running"
             /\ UNCHANGED <<startVars, stateVars, attempt>>
             /\ \A e \in Dag : \A u \in Task : node'[e][u] = "waiting" => node[e][u] = "waiting"
  <2>1. \/ node' = node
        \/ node' = [node EXCEPT ![d] = [t \in Task |-> IF @[t] \in {"idle", "running"}
                                                       THEN "failed" ELSE @[t]]]
    BY <1>5 DEF EndDag, RemoveDag
  <2>2. \A e \in Dag : \A u \in Task : node'[e][u] \in {node[e][u], "failed"}
    <3>1. CASE node' = node
      BY <3>1
    <3>2. CASE node' = [node EXCEPT ![d] = [t \in Task |-> IF @[t] \in {"idle", "running"}
                                                         THEN "failed" ELSE @[t]]]
      <4>1. node \in [Dag -> [Task -> DagNodeState]]
        BY <1>0 DEF DagTypeOK
      <4> QED
        BY <3>2, <4>1
    <3> QED
      BY <2>1, <3>1, <3>2
  <2> QED
    BY <1>5, <2>2 DEF EndDag, RemoveDag, KillNodeCalls
<1>6. ASSUME NEW t \in Task, LauncherFails(d, t)
      PROVE  /\ UNCHANGED <<dag, startVars, stateVars, attempt>> /\ dag[d] = "running"
             /\ \A e \in Dag : \A u \in Task : node'[e][u] = "waiting" => node[e][u] = "waiting"
  BY <1>3, <1>6 DEF LauncherFails
<1> QED
  BY <1>0, <1>1, <1>2, <1>4, <1>5, <1>6 DEF DagStep, LoseNode

(* The DAG that runs is the only one, and the starts and resumes beside it *)
(* rely on no more than that.                                              *)
LEMMA DagSole ==
  ASSUME CondorInv, SoleInv, NEW d \in Dag, DagStep(d) \/ LoseNode(d), UNCHANGED commandVars
  PROVE  SoleInv'
<1>1. /\ dag[d] = "running" /\ dag' \in {dag, [dag EXCEPT ![d] = "ended"]}
      /\ UNCHANGED startVars
      /\ \A e \in Dag : \A t \in Task : node'[e][t] = "waiting" => node[e][t] = "waiting"
      /\ \A t \in Task : node[d][t] = "waiting" => Evidence(t)' = Evidence(t)
  BY DagFrame DEF CondorInv
<1>2. Running' \subseteq Running /\ d \in Running /\ Launched /\ Launched'
  BY <1>1 DEF CondorInv, DagInv, DagTypeOK, Running, Launched
<1>3. Promised' /\ KnownDags' /\ OneDag'
  BY <1>1, <1>2 DEF SoleInv, Promised, KnownDags, OneDag
<1>4. CompletedNotWaiting'
  <2> SUFFICES ASSUME NEW e \in Running', NEW t \in Task, node'[e][t] = "waiting"
               PROVE  Evidence(t)' # "completed"
    BY DEF CompletedNotWaiting
  <2>1. e = d /\ node[d][t] = "waiting"
    BY <1>1, <1>2 DEF SoleInv, OneDag, Running
  <2> QED
    BY <1>1, <1>2, <2>1 DEF SoleInv, CompletedNotWaiting
<1>5. ASSUME NEW p \in Submitter
      PROVE  StartAt(p)'
  BY <1>1, <1>2 DEF SoleInv, StartAt
<1>6. ASSUME NEW p \in Resumer
      PROVE  QuietAt(p)'
  BY <1>1, <1>2 DEF SoleInv, QuietAt, Planned
<1> QED
  BY <1>1, <1>3, <1>4, <1>5, <1>6 DEF SoleInv

(* Any step, while starts do not overlap.                                  *)
LEMMA SoleNextInv ==
  ASSUME CondorInv, SoleInv, OneStart, OneStart', [CondorNext]_condorVars
  PROVE  SoleInv'
<1>1. ASSUME NEW p \in Submitter,
             \/ \E overwrite \in Overwrite : IssueStart(p, overwrite)
             \/ Prepare(p) \/ SubmitDag(p) \/ RecordDag(p) \/ Begin(p) \/ KillStart(p)
      PROVE  SoleInv'
  BY <1>1, StarterSole DEF StarterStep
<1>2. ASSUME NEW p \in Resumer, \/ \E overwrite \in AskOverwrite : IssueCondorResume(p, overwrite)
                                \/ ResumerStep(p) \/ KillCondorResume(p)
      PROVE  SoleInv'
  BY <1>2, LookSole, PlanSole, ReconcileSole, SubmitRescueSole, AcknowledgeSole, EndsSole
  DEF ResumerStep
<1>3. ASSUME NEW d \in Dag, (DagStep(d) /\ UNCHANGED <<commandVars, kills>>) \/ LoseNode(d)
      PROVE  SoleInv'
  <2>1. UNCHANGED commandVars
    BY <1>3 DEF LoseNode
  <2> QED
    BY <1>3, <2>1, DagSole
<1>4. CASE OperatorUnlocks
  BY <1>4, UnlocksSole
<1>5. ASSUME UNCHANGED <<stateVars, attempt, startVars, dagVars, commandVars>>
      PROVE  SoleInv'
  <2>1. Launched' = Launched /\ Running' = Running /\ \A t \in Task : Evidence(t)' = Evidence(t)
    BY <1>5 DEF Launched, Running, Evidence
  <2> QED
    BY <1>5, <2>1
    DEF SoleInv, Promised, KnownDags, OneDag, CompletedNotWaiting, StartAt, QuietAt
<1>6. CASE StrayOutput /\ UNCHANGED <<dagVars, commandVars, kills>>
  BY <1>5, <1>6 DEF StrayOutput
<1>7. CASE UNCHANGED condorVars
  BY <1>5, <1>7 DEF condorVars
<1> QED
  BY <1>1, <1>2, <1>3, <1>4, <1>6, <1>7 DEF CondorNext, Rest

(* A new campaign.                                                         *)
LEMMA SoleInitInv == CondorInit => SoleInv
<1> SUFFICES ASSUME CondorInit PROVE SoleInv
  OBVIOUS
<1>1. ~Launched /\ Running = {} /\ start = "none" /\ \A t \in Task : attempts[t] = 0
  BY DEF CondorInit, DagInit, DiskInit, Launched, Running
<1>2. ~inflight /\ (\A p \in Resumer : rctl[p] = "idle")
  BY DEF CondorInit, ResumeInit
<1>3. \A p \in Submitter : ctl[p] = "idle" /\ starting[p] = "out"
  BY CampaignAssumption DEF CondorInit, StartInit
<1> QED
  BY <1>1, <1>2, <1>3
  DEF SoleInv, Promised, KnownDags, OneDag, CompletedNotWaiting, StartAt, QuietAt, Planned
(* A node is live because it was, or because DAGMan submits it.            *)
LEMMA NodesBegin ==
  ASSUME DagInv, [CondorNext]_condorVars, NEW e \in Dag, NEW t \in Task,
         node'[e][t] \in {"idle", "running"}, node[e][t] \notin {"idle", "running"}
  PROVE  SubmitNode(e, t)
<1>0. node \in [Dag -> [Task -> DagNodeState]]
  BY DEF DagInv, DagTypeOK
<1>1. node' # node
  OBVIOUS
<1>2. ASSUME NEW d \in Dag, NEW done, NEW file, AcceptDag(d, done, file)
      PROVE  FALSE
  BY <1>2, AcceptedDag
<1>3. ASSUME NEW d \in Dag, DagStep(d) \/ LoseNode(d)
      PROVE  SubmitNode(e, t)
  <2>1. ASSUME NEW u \in Task, NEW v, node' = [node EXCEPT ![d][u] = v]
        PROVE  d = e /\ u = t
    BY <1>0, <2>1
  <2>2. ASSUME NEW u \in Task, \/ SubmitNode(d, u) \/ StartJob(d, u) \/ EndJob(d, u)
                               \/ EvictNode(d, u) \/ LauncherFails(d, u)
        PROVE  SubmitNode(e, t)
    <3>1. PICK v : node' = [node EXCEPT ![d][u] = v]
      BY <1>1, <2>2 DEF SubmitNode, StartJob, EndJob, EvictNode, LauncherFails
    <3>2. d = e /\ u = t
      BY <2>1, <3>1
    <3> QED
      BY <2>2, <3>2 DEF StartJob, EndJob, EvictNode, LauncherFails
  <2>3. ~RemoveDag(d)
    BY <1>0 DEF RemoveDag
  <2>4. ~EndDag(d) /\ \A u \in Task : ~RunWorker(d, u)
    BY <1>1 DEF EndDag, RunWorker
  <2> QED
    BY <1>3, <2>2, <2>3, <2>4 DEF DagStep, LoseNode
<1>4. ASSUME NEW p \in Submitter, StarterStep(p)
      PROVE  FALSE
  BY <1>1, <1>2, <1>4 DEF StarterStep, IssueStart, Prepare, SubmitDag, RecordDag, Begin, KillStart
<1>5. ASSUME NEW p \in Resumer, \/ \E overwrite \in AskOverwrite : IssueCondorResume(p, overwrite)
                                \/ ResumerStep(p) \/ KillCondorResume(p)
      PROVE  FALSE
  BY <1>1, <1>2, <1>5
  DEF IssueCondorResume, ResumerStep, Look, PlanRound, ReconcileStates, SubmitRescue, Acknowledge,
      EndResume, KillCondorResume
<1> QED
  BY <1>1, <1>3, <1>4, <1>5
  DEF CondorNext, StarterStep, OperatorUnlocks, Rest, condorVars

----
(* The specification                                                       *)

(* The inductive invariant of starts, resumes, DAGs and workers, however   *)
(* they interleave.                                                        *)
THEOREM CondorInvariant == CondorSpec => []CondorInv
<1>1. CondorInv /\ [CondorNext]_condorVars => CondorInv'
  BY CondorNextInv
<1> QED
  BY <1>1, CondorInitInv, PTL DEF CondorSpec

(* Everything stays in its type.                                           *)
THEOREM CondorTypeCorrect == CondorSpec => []CondorTypeOK
<1>1. CondorInv => CondorTypeOK
  BY TypesComplete DEF CondorInv, WorkerInv, DagInv, StarterInv, RoundInv
<1> QED
  BY <1>1, CondorInvariant, PTL

(* What a node has left of %retry is what its tries have not used, however *)
(* often its job was evicted or failed before its payload.                 *)
THEOREM RetriesCharged == CondorSpec => []PayloadsCharged
<1>1. CondorInv => PayloadsCharged
  BY DEF CondorInv, DagInv
<1> QED
  BY <1>1, CondorInvariant, PTL

(* The barrier's postflight runs when every task has a completed attempt,  *)
(* in a resumed DAG as well, whatever its rescue file left out.            *)
THEOREM CondorPostflightLast == CondorSpec => []PostflightFollowsAll
<1>1. CondorInv => PostflightFollowsAll
  BY DEF CondorInv, DagInv
<1> QED
  BY <1>1, CondorInvariant, PTL

(* What else is inductive as long as no two starts are under way.          *)
THEOREM SoleInvariant == CondorSpec /\ []OneStart => []SoleInv
<1>1. CondorInv /\ OneStart /\ OneStart' /\ SoleInv /\ [CondorNext]_condorVars => SoleInv'
  BY SoleNextInv
<1> QED
  BY <1>1, SoleInitInv, CondorInvariant, PTL DEF CondorSpec

(* While a DAG runs, the policy that workers read is the one its start     *)
(* asked for, whether or not start.json is written by then.                *)
THEOREM PolicyBeforeStart == CondorSpec /\ []OneStart => []EarlyNodesSeePolicy
<1>1. SoleInv => EarlyNodesSeePolicy
  BY DEF SoleInv, Promised, Launched, EarlyNodesSeePolicy, CampaignOverwrite, Policy
<1> QED
  BY <1>1, SoleInvariant, PTL

(* No task is a live node of two DAGs, whatever submissions nobody heard   *)
(* back from.                                                              *)
THEOREM NodesOfOneDag == CondorSpec /\ []OneStart => []OneLiveNode
<1>1. CondorInv /\ SoleInv => OneLiveNode
  BY DEF CondorInv, DagInv, NodeOK, SoleInv, OneDag, Running, OneLiveNode, Live
<1> QED
  BY <1>1, CondorInvariant, SoleInvariant, PTL

(* A task that is complete when it has no live node gets none.             *)
THEOREM CompletedNotRerun == CondorSpec /\ []OneStart => RescueKeepsCompleted
<1> DEFINE Kept == \A t \in Task :
                     Live(t) = {} /\ Effective(t, "none") = "completed" => Live(t)' = {}
<1>1. ASSUME CondorInv, SoleInv, [CondorNext]_condorVars
      PROVE  Kept
  <2> SUFFICES ASSUME NEW t \in Task, Live(t) = {}, Effective(t, "none") = "completed",
                      NEW d \in Dag, node'[d][t] \in {"idle", "running"}
               PROVE  FALSE
    BY DEF Live
  <2>1. node[d][t] \notin {"idle", "running"}
    BY DEF Live
  <2>2. SubmitNode(d, t)
    BY <1>1, <2>1, NodesBegin DEF CondorInv
  <2>3. d \in Running /\ node[d][t] = "waiting"
    BY <2>2 DEF SubmitNode, Running
  <2>4. Evidence(t) = "completed"
    BY <1>1, PlanComplete DEF CondorInv
  <2> QED
    BY <1>1, <2>3, <2>4 DEF SoleInv, CompletedNotWaiting
<1> QED
  BY <1>1, CondorInvariant, SoleInvariant, PTL DEF CondorSpec, RescueKeepsCompleted

(* What run_task guarantees alone it guarantees in the nodes that DAGMan   *)
(* runs, retries and starts again from a rescue file, and no launcher,     *)
(* eviction or resume rewrites a terminal attempt record.                  *)
THEOREM CondorAttemptsSound ==
  CondorSpec =>
    /\ [](AttemptOwned /\ AttemptsContiguous /\ StateBackedByAttempt /\ CallConsistent)
    /\ TerminalAttemptsKept
<1>1. CondorInv => AttemptOwned /\ AttemptsContiguous /\ StateBackedByAttempt /\ CallConsistent
  BY DEF CondorInv, WorkerInv
<1>2. CondorInv /\ [CondorNext]_condorVars =>
        [\A t \in Task : \A n \in AttemptNo :
           attempt[t][n] \in Terminal => attempt'[t][n] = attempt[t][n]]_workerVars
  BY CondorNextInv DEF KeepsTerminal
<1> QED
  BY <1>1, <1>2, CondorInvariant, PTL DEF CondorSpec, TerminalAttemptsKept
====
