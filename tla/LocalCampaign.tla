---- MODULE LocalCampaign ----
(***************************************************************************)
(* The local backend (campaign.py): `yall-run start` and `yall-run resume` *)
(* run _run_local_graph, a coordinator that submits dependency-ready tasks *)
(* to a thread pool; `yall-run retry` runs one more attempt of a failed    *)
(* task.  Each process p runs one such command at a time; with several     *)
(* processes the commands overlap, which no lock of the local backend      *)
(* prevents.  A process can be killed at any point, or interrupted from    *)
(* the keyboard while it coordinates.                                      *)
(***************************************************************************)
EXTENDS Worker, StartProtocol, Sequences

CONSTANTS
  TaskOrder,     \* task_order of the manifest
  Retries,       \* Retries[t]: %retry of t
  Jobs,          \* execution.local.jobs
  HasPostflight, \* whether the manifest declares postflight commands
  InitialFiles,  \* the sets of products that may exist before the start
  Overwrite,     \* bound: whether commands are given --overwrite, or either
  MaxCommands,   \* bound: commands issued in a behaviour
  MaxKills       \* bound: kills and keyboard interrupts in a behaviour

ASSUME LocalAssumption ==
  /\ TaskOrder \in Seq(Task)
  /\ {TaskOrder[i] : i \in 1 .. Len(TaskOrder)} = Task
  /\ Retries \in [Task -> Nat]
  /\ Jobs \in Nat \ {0}
  /\ HasPostflight \in BOOLEAN
  /\ InitialFiles \subseteq SUBSET File
  /\ Overwrite \subseteq BOOLEAN
  /\ MaxCommands \in Nat
  /\ MaxKills \in Nat

VARIABLES
  ctl,        \* ctl[p]: what process p does next
  job,        \* job[p]: the command p runs
  reconciled, \* local variables of _run_local_graph, one copy per process:
  remaining,  \*   tasks settled, tasks to submit,
  running,    \*   tasks with a future,
  cursor,     \*   the position of the scan in task_order,
  progressed, \*   whether this pass did anything
  doomed,     \* doomed[p]: overwrite_paths of a resume --overwrite
  tries,      \* tries[p][t]: further attempts _run_with_retries may make
  hook,       \* postflight/ and postflight.json
  issued, kills

graphVars == <<reconciled, remaining, running, cursor, progressed, tries,
               doomed>>
boundVars == <<issued, kills>>
vars == <<diskVars, callVars, startProcVars, ctl, job, graphVars, hook, boundVars>>

Control == {"idle", "starting", "delete", "reset", "read", "scan", "wait",
            "drain", "count", "post", "hook", "retry", "ok", "failed"}
Command == {"none", "start", "resume", "retry"}

(* "tried": postflight/001 exists but postflight.json does not.            *)
HookState == {"none", "tried", "done"}

ControlTypeOK ==
  /\ ctl \in [Proc -> Control]
  /\ job \in [Proc -> Command]
  /\ hook \in HookState
  /\ issued \in 0 .. MaxCommands
  /\ kills \in 0 .. MaxKills

GraphTypeOK ==
  /\ reconciled \in [Proc -> SUBSET Task]
  /\ remaining \in [Proc -> SUBSET Task]
  /\ running \in [Proc -> SUBSET Task]
  /\ cursor \in [Proc -> 1 .. Len(TaskOrder) + 1]
  /\ progressed \in [Proc -> BOOLEAN]
  /\ tries \in [Proc -> [Task -> Nat]]
  /\ doomed \in [Proc -> SUBSET File]

LocalTypeOK == WorkerTypeOK /\ StartTypeOK /\ ControlTypeOK /\ GraphTypeOK

Init ==
  /\ DiskInit
  /\ files \in InitialFiles
  /\ WorkerInit
  /\ StartInit
  /\ ctl = [p \in Proc |-> "idle"]
  /\ job = [p \in Proc |-> "none"]
  /\ reconciled = [p \in Proc |-> {}]
  /\ remaining = [p \in Proc |-> {}]
  /\ running = [p \in Proc |-> {}]
  /\ cursor = [p \in Proc |-> 1]
  /\ progressed = [p \in Proc |-> FALSE]
  /\ tries = [p \in Proc |-> [t \in Task |-> 0]]
  /\ doomed = [p \in Proc |-> {}]
  /\ hook = "none"
  /\ issued = 0
  /\ kills = 0

Step(p, from, to) ==
  /\ ctl[p] = from
  /\ ctl' = [ctl EXCEPT ![p] = to]

----
(* Commands                                                                *)

Issue(p, command, to) ==
  /\ Step(p, "idle", to)
  /\ job' = [job EXCEPT ![p] = command]
  /\ issued < MaxCommands
  /\ issued' = issued + 1
  /\ UNCHANGED kills

IssueStart(p, asked) ==
  /\ Issue(p, "start", "starting")
  /\ CheckPrepare(p, asked)
  /\ UNCHANGED <<callVars, graphVars, hook>>

StartRuns(p) ==
  /\ ctl[p] = "starting"
  /\ StartStep(p)
  /\ UNCHANGED <<callVars, ctl, job, graphVars, hook, boundVars>>

StartEnds(p) ==
  /\ starting[p] \in {"started", "out"}
  /\ Step(p, "starting", IF starting[p] = "started" THEN "read" ELSE "failed")
  /\ ForgetStart(p)
  /\ UNCHANGED <<diskVars, callVars, job, graphVars, hook, boundVars>>

(* resume_local refuses while any task is recorded as running; a refusal   *)
(* changes nothing.                                                        *)
ResumeAllowed ==
  /\ start # "none"
  /\ \A t \in Task : status[t] # "running"

(* With --overwrite, the existing outputs of the unfinished tasks (here    *)
(* those not completed) are listed, and deleted once that is confirmed.    *)
IssueResume(p, overwrite) ==
  /\ ResumeAllowed
  /\ Issue(p, "resume", IF overwrite THEN "delete" ELSE "reset")
  /\ doomed' = [doomed EXCEPT ![p] = IF overwrite
       THEN files \cap UNION {Outputs[t] : t \in {u \in Task : status[u] # "completed"}}
       ELSE {}]
  /\ cursor' = [cursor EXCEPT ![p] = 1]
  /\ UNCHANGED <<diskVars, callVars, startProcVars, reconciled, remaining, running,
                 progressed, tries, hook>>

(* Mutant: deletes the outputs of the completed tasks too.                 *)
DeleteOutputs_All(p) ==
  /\ Step(p, "delete", "reset")
  /\ files' = files \ UNION {Outputs[t] : t \in Task}
  /\ start' = "overwrite"
  /\ doomed' = [doomed EXCEPT ![p] = {}]
  /\ UNCHANGED <<stateVars, attempt, stray, startPending, callVars, startProcVars,
                 job, reconciled, remaining, running, cursor, progressed, tries, hook,
                 boundVars>>

(* The deletion; start.json permits overwriting from now on.               *)
DeleteOutputs(p) ==
  /\ Step(p, "delete", "reset")
  /\ files' = files \ doomed[p]
  /\ start' = "overwrite"
  /\ doomed' = [doomed EXCEPT ![p] = {}]
  /\ UNCHANGED <<stateVars, attempt, stray, startPending, callVars, startProcVars,
                 job, reconciled, remaining, running, cursor, progressed, tries, hook,
                 boundVars>>

(* The states resume sets back to pending.                                 *)
Resettable(t) == status[t] \in {"failed", "blocked"}

ResetTask(p) ==
  LET t == TaskOrder[cursor[p]] IN
  /\ cursor[p] \leq Len(TaskOrder)
  /\ Step(p, "reset", IF cursor[p] = Len(TaskOrder) THEN "read" ELSE "reset")
  /\ IF Resettable(t)
       THEN WriteStatusOnly(t, "pending")
       ELSE UNCHANGED stateVars
  /\ cursor' = [cursor EXCEPT ![p] = @ + 1]
  /\ UNCHANGED <<attempt, fileVars, startVars, callVars, startProcVars, job,
                 reconciled, remaining, running, progressed, tries, doomed, hook, boundVars>>

(* retry_task: the state file is read, then run_task starts reading anew.  *)
IssueRetry(p, t) ==
  /\ start # "none"
  /\ status[t] = "failed"
  /\ Issue(p, "retry", "retry")
  /\ Enter(p, t)
  /\ running' = [running EXCEPT ![p] = {t}]
  /\ UNCHANGED <<diskVars, number, verdict, startProcVars, reconciled, remaining,
                 cursor, progressed, tries, doomed, hook>>

----
(* _run_local_graph                                                        *)

(* The tasks already completed are settled; the others are to be run.      *)
ReadStates(p) ==
  LET completed == {t \in Task : status[t] = "completed"} IN
  /\ Step(p, "read", IF completed = Task THEN "count" ELSE "scan")
  /\ reconciled' = [reconciled EXCEPT ![p] = completed]
  /\ remaining' = [remaining EXCEPT ![p] = Task \ completed]
  /\ running' = [running EXCEPT ![p] = {}]
  /\ cursor' = [cursor EXCEPT ![p] = 1]
  /\ progressed' = [progressed EXCEPT ![p] = FALSE]
  /\ UNCHANGED <<diskVars, callVars, startProcVars, job, tries, doomed, hook, boundVars>>

AtCursor(p, t) ==
  /\ ctl[p] = "scan"
  /\ cursor[p] \leq Len(TaskOrder)
  /\ t = TaskOrder[cursor[p]]

Ready(p, t) ==
  /\ t \in remaining[p]
  /\ Cardinality(running[p]) < Jobs
  /\ Parents[t] \subseteq reconciled[p]

(* Mutant: a failed parent does not block.                                 *)
ParentFailed_BlockedOnly(t) == \E u \in Parents[t] : status[u] = "blocked"

ParentFailed(t) == \E u \in Parents[t] : status[u] \in {"failed", "blocked"}
ParentsCompleted(t) == \A u \in Parents[t] : status[u] = "completed"

Advance(p) == cursor' = [cursor EXCEPT ![p] = @ + 1]

SkipTask(p, t) ==
  /\ AtCursor(p, t)
  /\ Ready(p, t) => ~ParentFailed(t) /\ ~ParentsCompleted(t)
  /\ Advance(p)
  /\ UNCHANGED <<diskVars, callVars, startProcVars, ctl, job, reconciled,
                 remaining, running, progressed, tries, doomed, hook, boundVars>>

BlockTask(p, t) ==
  /\ AtCursor(p, t)
  /\ Ready(p, t) /\ ParentFailed(t)
  /\ WriteStatusOnly(t, "blocked")
  /\ remaining' = [remaining EXCEPT ![p] = @ \ {t}]
  /\ reconciled' = [reconciled EXCEPT ![p] = @ \cup {t}]
  /\ progressed' = [progressed EXCEPT ![p] = TRUE]
  /\ Advance(p)
  /\ UNCHANGED <<attempt, fileVars, startVars, callVars, startProcVars, ctl, job,
                 running, tries, doomed, hook, boundVars>>

(* Mutant: settled parents are enough, whatever became of them.            *)
SubmitTask_NoStateCheck(p, t) ==
  /\ AtCursor(p, t)
  /\ Ready(p, t)
  /\ Enter(p, t)
  /\ tries' = [tries EXCEPT ![p][t] = Retries[t]]
  /\ running' = [running EXCEPT ![p] = @ \cup {t}]
  /\ remaining' = [remaining EXCEPT ![p] = @ \ {t}]
  /\ progressed' = [progressed EXCEPT ![p] = TRUE]
  /\ Advance(p)
  /\ UNCHANGED <<diskVars, number, verdict, startProcVars, ctl, job,
                 reconciled, doomed, hook, boundVars>>

(* pool.submit(_run_with_retries): at most Jobs futures exist, so a pool   *)
(* thread is free and the first attempt begins.                            *)
SubmitTask(p, t) ==
  /\ AtCursor(p, t)
  /\ Ready(p, t) /\ ~ParentFailed(t) /\ ParentsCompleted(t)
  /\ Enter(p, t)
  /\ tries' = [tries EXCEPT ![p][t] = Retries[t]]
  /\ running' = [running EXCEPT ![p] = @ \cup {t}]
  /\ remaining' = [remaining EXCEPT ![p] = @ \ {t}]
  /\ progressed' = [progressed EXCEPT ![p] = TRUE]
  /\ Advance(p)
  /\ UNCHANGED <<diskVars, number, verdict, startProcVars, ctl, job,
                 reconciled, doomed, hook, boundVars>>

ScanTask(p) ==
  \E t \in Task : SkipTask(p, t) \/ BlockTask(p, t) \/ SubmitTask(p, t)

(* The end of a pass over task_order: wait for a future if there is one,   *)
(* else go round again, else "dependency graph made no progress".          *)
Stalled(p) == running[p] = {} /\ remaining[p] # {} /\ ~progressed[p]

AfterPass(p) ==
  CASE running[p] # {} -> "wait"
    [] Stalled(p) -> "failed"
    [] running[p] = {} /\ remaining[p] = {} -> "count"
    [] OTHER -> "scan"

EndPass(p) ==
  /\ cursor[p] > Len(TaskOrder)
  /\ Step(p, "scan", AfterPass(p))
  /\ cursor' = [cursor EXCEPT ![p] = 1]
  /\ progressed' = [progressed EXCEPT ![p] = FALSE]
  /\ UNCHANGED <<diskVars, callVars, startProcVars, job, reconciled, remaining,
                 running, tries, doomed, hook, boundVars>>

(* _run_with_retries calls run_task again while it fails and tries remain. *)
PoolRetries(p, t) ==
  /\ t \in running[p] /\ tries[p][t] > 0
  /\ verdict[p][t] = "failed"
  /\ Goto(p, t, "returned", "choose")
  /\ tries' = [tries EXCEPT ![p][t] = @ - 1]
  /\ UNCHANGED <<diskVars, number, verdict, startProcVars, ctl, job, reconciled,
                 remaining, running, cursor, progressed, doomed, hook,
                 boundVars>>

(* Mutants: a future counts as done before run_task recorded the state;    *)
(* a future that raised never counts as done.                              *)
FutureReturned_Early(p, t) == at[p][t] \in {"record", "returned"}
FutureDone_NotRaised(p, t) ==
  at[p][t] = "returned" /\ (verdict[p][t] = "completed" \/ tries[p][t] = 0)

FutureReturned(p, t) ==
  at[p][t] = "returned" /\ (verdict[p][t] = "completed" \/ tries[p][t] = 0)
FutureDone(p, t) == FutureReturned(p, t) \/ at[p][t] = "raised"

(* wait(FIRST_COMPLETED) returns some finished futures, none with an       *)
(* exception: their tasks are settled and the loop goes on.                *)
CollectFutures(p) ==
  \E done \in SUBSET {t \in running[p] : FutureReturned(p, t)} :
    /\ done # {}
    /\ running' = [running EXCEPT ![p] = @ \ done]
    /\ reconciled' = [reconciled EXCEPT ![p] = @ \cup done]
    /\ ForgetCalls(p, done)
    /\ Step(p, "wait", IF remaining[p] \cup (running[p] \ done) = {}
                       THEN "count" ELSE "scan")
    /\ UNCHANGED <<diskVars, startProcVars, job, remaining, cursor, progressed,
                   tries, doomed, hook, boundVars>>

(* future.result() raises what run_task raised: the loop is left, and the  *)
(* pool is shut down, which waits for the other futures.                   *)
FutureRaises(p) ==
  /\ \E t \in running[p] : at[p][t] = "raised"
  /\ Step(p, "wait", "drain")
  /\ UNCHANGED <<diskVars, callVars, startProcVars, job, graphVars, hook, boundVars>>

DrainPool(p) ==
  /\ \A t \in running[p] : FutureDone(p, t)
  /\ Step(p, "drain", "failed")
  /\ ForgetCalls(p, running[p])
  /\ running' = [running EXCEPT ![p] = {}]
  /\ UNCHANGED <<diskVars, startProcVars, job, reconciled, remaining, cursor,
                 progressed, tries, doomed, hook, boundVars>>

(* The final status: any failed or blocked task is an error; otherwise     *)
(* postflight runs if declared (after a resume, unless it already did).    *)
AnyUnsuccessful == \E t \in Task : status[t] \in {"failed", "blocked"}

(* Mutant: only a start runs postflight.                                   *)
WantsPostflight_StartOnly(p) == HasPostflight /\ job[p] = "start"

WantsPostflight(p) == HasPostflight /\ ~(job[p] = "resume" /\ hook = "done")

CountStates(p) ==
  /\ Step(p, "count", IF AnyUnsuccessful THEN "failed"
                      ELSE IF WantsPostflight(p) THEN "post" ELSE "ok")
  /\ UNCHANGED <<diskVars, callVars, startProcVars, job, graphVars, hook, boundVars>>

----
(* run_postflight and _run_hook                                            *)

AllCompleted == \A t \in Task : status[t] = "completed"

(* Mutant: relies on the graph's return instead of reading the states.     *)
EnterPostflight_Unchecked(p) ==
  /\ hook = "none"
  /\ Step(p, "post", "hook")
  /\ hook' = "tried"
  /\ UNCHANGED <<diskVars, callVars, startProcVars, job, graphVars, boundVars>>

(* postflight.json must be absent, every task completed, and the mkdir of  *)
(* postflight/001, which has no exist_ok, must succeed.                    *)
EnterPostflight(p) ==
  /\ hook = "none" /\ AllCompleted
  /\ Step(p, "post", "hook")
  /\ hook' = "tried"
  /\ UNCHANGED <<diskVars, callVars, startProcVars, job, graphVars, boundVars>>

RefusePostflight(p) ==
  /\ ~(hook = "none" /\ AllCompleted)
  /\ Step(p, "post", "failed")
  /\ UNCHANGED <<diskVars, callVars, startProcVars, job, graphVars, hook, boundVars>>

HookCompletes(p) ==
  /\ Step(p, "hook", "ok")
  /\ hook' = "done"
  /\ UNCHANGED <<diskVars, callVars, startProcVars, job, graphVars, boundVars>>

HookFails(p) ==
  /\ Step(p, "hook", "failed")
  /\ UNCHANGED <<diskVars, callVars, startProcVars, job, graphVars, hook, boundVars>>

----
(* The end of a command                                                    *)

RetryReturns(p) ==
  /\ \A t \in running[p] : FutureDone(p, t)
  /\ Step(p, "retry",
          IF \A t \in running[p] : verdict[p][t] = "completed" THEN "ok" ELSE "failed")
  /\ ForgetCalls(p, running[p])
  /\ running' = [running EXCEPT ![p] = {}]
  /\ UNCHANGED <<diskVars, startProcVars, job, reconciled, remaining, cursor,
                 progressed, tries, doomed, hook, boundVars>>

ForgetGraph(p) ==
  /\ job' = [job EXCEPT ![p] = "none"]
  /\ reconciled' = [reconciled EXCEPT ![p] = {}]
  /\ remaining' = [remaining EXCEPT ![p] = {}]
  /\ running' = [running EXCEPT ![p] = {}]
  /\ cursor' = [cursor EXCEPT ![p] = 1]
  /\ progressed' = [progressed EXCEPT ![p] = FALSE]
  /\ tries' = [tries EXCEPT ![p] = [t \in Task |-> 0]]
  /\ doomed' = [doomed EXCEPT ![p] = {}]

Exit(p) ==
  /\ ctl[p] \in {"ok", "failed"}
  /\ ctl' = [ctl EXCEPT ![p] = "idle"]
  /\ ForgetGraph(p)
  /\ UNCHANGED <<diskVars, callVars, startProcVars, hook, boundVars>>

(* SIGKILL or a crash: the process is gone, the files stay as they are and *)
(* its payloads may go on.                                                 *)
KillProcess(p) ==
  /\ kills < MaxKills
  /\ ctl[p] \notin {"idle", "ok", "failed"}
  /\ ctl' = [ctl EXCEPT ![p] = "idle"]
  /\ kills' = kills + 1
  /\ KillCalls(p)
  /\ ForgetStart(p)
  /\ ForgetGraph(p)
  /\ UNCHANGED <<hook, issued>>

(* KeyboardInterrupt in the coordinating thread: the pool is shut down as  *)
(* after an exception, and its threads finish their retries.  (Elsewhere   *)
(* an interrupt ends the process as KillProcess does.)                     *)
Interrupt(p) ==
  /\ kills < MaxKills
  /\ ctl[p] \in {"scan", "wait"}
  /\ ctl' = [ctl EXCEPT ![p] = "drain"]
  /\ kills' = kills + 1
  /\ UNCHANGED <<diskVars, callVars, startProcVars, job, graphVars, hook, issued>>

----
WorkerRuns(p, t) ==
  /\ WorkerStep(p, t)
  /\ UNCHANGED <<startProcVars, ctl, job, graphVars, hook, boundVars>>

StrayRuns ==
  /\ StrayOutput
  /\ UNCHANGED <<startProcVars, ctl, job, graphVars, hook, boundVars>>

Coordinate(p) ==
  \/ StartRuns(p) \/ StartEnds(p) \/ DeleteOutputs(p) \/ ResetTask(p)
  \/ ReadStates(p) \/ ScanTask(p) \/ EndPass(p)
  \/ CollectFutures(p) \/ FutureRaises(p) \/ DrainPool(p) \/ CountStates(p)
  \/ EnterPostflight(p) \/ RefusePostflight(p) \/ HookCompletes(p) \/ HookFails(p)
  \/ RetryReturns(p) \/ Exit(p)

Thread(p, t) == WorkerRuns(p, t) \/ PoolRetries(p, t)

IssueCommand(p) ==
  \/ \E overwrite \in Overwrite :
       IssueStart(p, IF overwrite THEN "overwrite" ELSE "keep") \/ IssueResume(p, overwrite)
  \/ \E t \in Task : IssueRetry(p, t)

Quiet == \A p \in Proc : ctl[p] = "idle"

(* Nobody has to issue another command.                                    *)
Rest == Quiet /\ UNCHANGED vars

Next ==
  \/ \E p \in Proc :
       \/ IssueCommand(p) \/ Coordinate(p) \/ KillProcess(p) \/ Interrupt(p)
       \/ \E t \in Task : Thread(p, t)
  \/ StrayRuns
  \/ Rest

(* A live process goes on and its payloads and hooks end; nothing obliges  *)
(* anyone to issue a command, to kill or to interrupt.                     *)
Fairness ==
  \A p \in Proc :
    /\ WF_vars(Coordinate(p))
    /\ \A t \in Task : WF_vars(Thread(p, t))

Spec == Init /\ [][Next]_vars
FairSpec == Spec /\ Fairness
====
