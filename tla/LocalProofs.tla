---- MODULE LocalProofs ----
(***************************************************************************)
(* What holds of the local backend for any graph, any number of processes  *)
(* whose commands overlap, and any kills: the invariant of the workers,    *)
(* lifted to the composition, and with it the two ordering properties that *)
(* survive overlapping commands.  Then what each process keeps to itself,  *)
(* and last what needs that no two commands overlap: the properties of one *)
(* command and the refinement of CampaignLifecycle.                        *)
(***************************************************************************)
EXTENDS LocalProperties, WorkerProofs

(* Every parent of t has a completed attempt on record.                    *)
Cleared(t) == \A u \in Parents[t] : \E n \in AttemptNo : attempt[u][n] = "completed"

(* A call of run_task in progress is for a cleared task.                   *)
CallsCleared == \A p \in Proc : \A t \in Task : at[p][t] # "idle" => Cleared(t)

(* A hook that runs has made its directory.                                *)
HookBegun == \A p \in Proc : ctl[p] = "hook" => hook # "none"

Shape == LocalTypeOK /\ HookBegun

LocalInv ==
  /\ Shape
  /\ WorkerInv
  /\ CallsCleared
  /\ AttemptedAfterParentAttempts
  /\ PostflightAfterAttempts

(* Proof-only: what makes a task run.  A call begins only for a task with  *)
(* completed parents, or one recorded as failed; an attempt appears only   *)
(* through a call; postflight begins only with every task completed.       *)
BeginsCleared ==
  /\ \A p \in Proc : \A t \in Task :
       at'[p][t] # "idle" =>
         at[p][t] # "idle" \/ ParentsCompleted(t) \/ status[t] = "failed"
  /\ \A t \in Task : \A n \in AttemptNo :
       attempt'[t][n] # "absent" =>
         attempt[t][n] # "absent" \/ \E p \in Proc : at[p][t] # "idle"
  /\ hook' # "none" => hook # "none" \/ AllCompleted

Good == WorkerInv' /\ KeepsTerminal /\ BeginsCleared

(* The cursor of the scan ranges over numbers.                             *)
LEMMA LenTaskOrder == Len(TaskOrder) \in Nat
  BY LocalAssumption

(* A coordinator step that leaves records and calls alone begins nothing.  *)
LEMMA QuietInv ==
  ASSUME WorkerInv, DiskTypeOK', UNCHANGED <<stateVars, attempt, callVars>>,
         hook' # "none" => hook # "none" \/ AllCompleted
  PROVE  Good
<1>1. UNCHANGED <<status, attempts, attempt, at, number, verdict>>
  BY DEF stateVars, callVars
<1>2. WorkerInv' /\ KeepsTerminal
  BY <1>1, StatusInv DEF callVars
<1> QED
  BY <1>1, <1>2 DEF Good, BeginsCleared

(* The start protocol writes only start.json and start-pending.json.       *)
LEMMA StartRunsInv ==
  ASSUME LocalInv, NEW p \in Proc, StartRuns(p)
  PROVE  Shape' /\ Good
<1>1. StartTypeOK /\ DiskTypeOK
  BY DEF LocalInv, Shape, LocalTypeOK, WorkerTypeOK
<1>2. StartTypeOK' /\ DiskTypeOK'
  BY <1>1
  DEF StartRuns, StartStep, WritePending, BeginAccepted, BeginRefused, CommitStart,
      UnlinkPending, CancelPrepared, Move, StartTypeOK, DiskTypeOK, StartPC, Record,
      Policy, diskVars, stateVars, fileVars, startVars
<1>3. UNCHANGED <<stateVars, attempt, callVars, ctl, job, graphVars, hook, boundVars>>
  BY DEF StartRuns, StartStep, WritePending, BeginAccepted, BeginRefused, CommitStart,
      UnlinkPending, CancelPrepared, diskVars
<1>4. Good
  BY <1>2, <1>3, QuietInv DEF LocalInv
<1> QED
  BY <1>2, <1>3, <1>4
  DEF Good, WorkerInv, LocalInv, Shape, HookBegun, LocalTypeOK, ControlTypeOK, GraphTypeOK,
      graphVars, boundVars

(* A command that only reads begins nothing; it changes local variables.   *)
LEMMA IssueStartInv ==
  ASSUME LocalInv, NEW p \in Proc, NEW asked \in Policy, IssueStart(p, asked)
  PROVE  Shape' /\ Good
<1>1. /\ WorkerTypeOK /\ DiskTypeOK /\ StartTypeOK
      /\ ControlTypeOK /\ HookBegun
      /\ GraphTypeOK
  BY DEF LocalInv, Shape, LocalTypeOK, WorkerTypeOK
<1>2. DiskTypeOK'
  BY <1>1 DEF IssueStart, DiskTypeOK, diskVars, stateVars, fileVars, startVars, CheckPrepare
<1>3. Good
  BY <1>1, <1>2, QuietInv
  DEF IssueStart, LocalInv, HookBegun, diskVars, callVars, Step, Issue, CheckPrepare
<1>4. StartTypeOK'
  BY <1>1 DEF IssueStart, StartTypeOK, startProcVars, CheckPrepare, Move, Policy, Record, StartPC
<1>5. ControlTypeOK' /\ HookBegun'
  BY <1>1, LocalAssumption
  DEF IssueStart, ControlTypeOK, HookBegun, Control, Command, Step, boundVars, Issue
<1>6. GraphTypeOK'
  BY <1>1, LenTaskOrder DEF IssueStart, GraphTypeOK, graphVars
<1> QED
  BY <1>3, <1>4, <1>5, <1>6 DEF Good, Shape, LocalTypeOK, WorkerInv

(* The end of a start.                                                     *)
LEMMA StartEndsInv ==
  ASSUME LocalInv, NEW p \in Proc, StartEnds(p)
  PROVE  Shape' /\ Good
<1>1. /\ WorkerTypeOK /\ DiskTypeOK /\ StartTypeOK
      /\ ControlTypeOK /\ HookBegun
      /\ GraphTypeOK
  BY DEF LocalInv, Shape, LocalTypeOK, WorkerTypeOK
<1>2. DiskTypeOK'
  BY <1>1 DEF StartEnds, DiskTypeOK, diskVars, stateVars, fileVars, startVars
<1>3. Good
  BY <1>1, <1>2, QuietInv DEF StartEnds, LocalInv, HookBegun, diskVars, callVars, Step
<1>4. StartTypeOK'
  BY <1>1 DEF StartEnds, StartTypeOK, startProcVars, ForgetStart, StartPC, Record
<1>5. ControlTypeOK' /\ HookBegun'
  BY <1>1, LocalAssumption
  DEF StartEnds, ControlTypeOK, HookBegun, Control, Command, Step, boundVars
<1>6. GraphTypeOK'
  BY <1>1, LenTaskOrder DEF StartEnds, GraphTypeOK, graphVars
<1> QED
  BY <1>3, <1>4, <1>5, <1>6 DEF Good, Shape, LocalTypeOK, WorkerInv

(* The checks of a resume.                                                 *)
LEMMA IssueResumeInv ==
  ASSUME LocalInv, NEW p \in Proc, NEW overwrite \in BOOLEAN, IssueResume(p, overwrite)
  PROVE  Shape' /\ Good
<1>1. /\ WorkerTypeOK /\ DiskTypeOK /\ StartTypeOK
      /\ ControlTypeOK /\ HookBegun
      /\ GraphTypeOK
  BY DEF LocalInv, Shape, LocalTypeOK, WorkerTypeOK
<1>2. DiskTypeOK'
  BY <1>1 DEF IssueResume, DiskTypeOK, diskVars, stateVars, fileVars, startVars
<1>3. Good
  BY <1>1, <1>2, QuietInv DEF IssueResume, LocalInv, HookBegun, diskVars, callVars, Step, Issue
<1>4. StartTypeOK'
  BY <1>1 DEF IssueResume, StartTypeOK, startProcVars
<1>5. ControlTypeOK' /\ HookBegun'
  BY <1>1, LocalAssumption
  DEF IssueResume, ControlTypeOK, HookBegun, Control, Command, Step, boundVars, Issue
<1>6. GraphTypeOK'
  BY <1>1, LenTaskOrder DEF IssueResume, GraphTypeOK, graphVars, DiskTypeOK
<1> QED
  BY <1>3, <1>4, <1>5, <1>6 DEF Good, Shape, LocalTypeOK, WorkerInv

(* Deleting products and rewriting start.json.                             *)
LEMMA DeleteOutputsInv ==
  ASSUME LocalInv, NEW p \in Proc, DeleteOutputs(p)
  PROVE  Shape' /\ Good
<1>1. /\ WorkerTypeOK /\ DiskTypeOK /\ StartTypeOK
      /\ ControlTypeOK /\ HookBegun
      /\ GraphTypeOK
  BY DEF LocalInv, Shape, LocalTypeOK, WorkerTypeOK
<1>2. DiskTypeOK'
  BY <1>1 DEF DeleteOutputs, DiskTypeOK, diskVars, stateVars, fileVars, startVars, Policy, Record
<1>3. Good
  BY <1>1, <1>2, QuietInv
  DEF DeleteOutputs, LocalInv, HookBegun, diskVars, callVars, Step, Policy, Record
<1>4. StartTypeOK'
  BY <1>1 DEF DeleteOutputs, StartTypeOK, startProcVars
<1>5. ControlTypeOK' /\ HookBegun'
  BY <1>1, LocalAssumption
  DEF DeleteOutputs, ControlTypeOK, HookBegun, Control, Command, Step, boundVars
<1>6. GraphTypeOK'
  BY <1>1, LenTaskOrder DEF DeleteOutputs, GraphTypeOK, graphVars
<1> QED
  BY <1>3, <1>4, <1>5, <1>6 DEF Good, Shape, LocalTypeOK, WorkerInv

(* The first reading of the states.                                        *)
LEMMA ReadStatesInv ==
  ASSUME LocalInv, NEW p \in Proc, ReadStates(p)
  PROVE  Shape' /\ Good
<1>1. /\ WorkerTypeOK /\ DiskTypeOK /\ StartTypeOK
      /\ ControlTypeOK /\ HookBegun
      /\ GraphTypeOK
  BY DEF LocalInv, Shape, LocalTypeOK, WorkerTypeOK
<1>2. DiskTypeOK'
  BY <1>1 DEF ReadStates, DiskTypeOK, diskVars, stateVars, fileVars, startVars
<1>3. Good
  BY <1>1, <1>2, QuietInv DEF ReadStates, LocalInv, HookBegun, diskVars, callVars, Step
<1>4. StartTypeOK'
  BY <1>1 DEF ReadStates, StartTypeOK, startProcVars
<1>5. ControlTypeOK' /\ HookBegun'
  BY <1>1, LocalAssumption
  DEF ReadStates, ControlTypeOK, HookBegun, Control, Command, Step, boundVars
<1>6. GraphTypeOK'
  BY <1>1, LenTaskOrder DEF ReadStates, GraphTypeOK, graphVars
<1> QED
  BY <1>3, <1>4, <1>5, <1>6 DEF Good, Shape, LocalTypeOK, WorkerInv

(* A task passed over by the scan.                                         *)
LEMMA SkipTaskInv ==
  ASSUME LocalInv, NEW p \in Proc, NEW t \in Task, SkipTask(p, t)
  PROVE  Shape' /\ Good
<1>1. /\ WorkerTypeOK /\ DiskTypeOK /\ StartTypeOK
      /\ ControlTypeOK /\ HookBegun
      /\ GraphTypeOK
  BY DEF LocalInv, Shape, LocalTypeOK, WorkerTypeOK
<1>2. DiskTypeOK'
  BY <1>1 DEF SkipTask, DiskTypeOK, diskVars, stateVars, fileVars, startVars
<1>3. Good
  BY <1>1, <1>2, QuietInv DEF SkipTask, LocalInv, HookBegun, diskVars, callVars, Step
<1>4. StartTypeOK'
  BY <1>1 DEF SkipTask, StartTypeOK, startProcVars
<1>5. ControlTypeOK' /\ HookBegun'
  BY <1>1, LocalAssumption
  DEF SkipTask, ControlTypeOK, HookBegun, Control, Command, Step, boundVars
<1>6. GraphTypeOK'
  BY <1>1, LenTaskOrder DEF SkipTask, GraphTypeOK, graphVars, AtCursor, Advance
<1> QED
  BY <1>3, <1>4, <1>5, <1>6 DEF Good, Shape, LocalTypeOK, WorkerInv

(* The end of a pass.                                                      *)
LEMMA EndPassInv ==
  ASSUME LocalInv, NEW p \in Proc, EndPass(p)
  PROVE  Shape' /\ Good
<1>1. /\ WorkerTypeOK /\ DiskTypeOK /\ StartTypeOK
      /\ ControlTypeOK /\ HookBegun
      /\ GraphTypeOK
  BY DEF LocalInv, Shape, LocalTypeOK, WorkerTypeOK
<1>2. DiskTypeOK'
  BY <1>1 DEF EndPass, DiskTypeOK, diskVars, stateVars, fileVars, startVars
<1>3. Good
  BY <1>1, <1>2, QuietInv DEF EndPass, LocalInv, HookBegun, diskVars, callVars, Step, AfterPass
<1>4. StartTypeOK'
  BY <1>1 DEF EndPass, StartTypeOK, startProcVars
<1>5. ControlTypeOK' /\ HookBegun'
  BY <1>1, LocalAssumption
  DEF EndPass, ControlTypeOK, HookBegun, Control, Command, Step, boundVars, AfterPass
<1>6. GraphTypeOK'
  BY <1>1, LenTaskOrder DEF EndPass, GraphTypeOK, graphVars
<1> QED
  BY <1>3, <1>4, <1>5, <1>6 DEF Good, Shape, LocalTypeOK, WorkerInv

(* An exception from a future.                                             *)
LEMMA FutureRaisesInv ==
  ASSUME LocalInv, NEW p \in Proc, FutureRaises(p)
  PROVE  Shape' /\ Good
<1>1. /\ WorkerTypeOK /\ DiskTypeOK /\ StartTypeOK
      /\ ControlTypeOK /\ HookBegun
      /\ GraphTypeOK
  BY DEF LocalInv, Shape, LocalTypeOK, WorkerTypeOK
<1>2. DiskTypeOK'
  BY <1>1 DEF FutureRaises, DiskTypeOK, diskVars, stateVars, fileVars, startVars
<1>3. Good
  BY <1>1, <1>2, QuietInv DEF FutureRaises, LocalInv, HookBegun, diskVars, callVars, Step
<1>4. StartTypeOK'
  BY <1>1 DEF FutureRaises, StartTypeOK, startProcVars
<1>5. ControlTypeOK' /\ HookBegun'
  BY <1>1, LocalAssumption
  DEF FutureRaises, ControlTypeOK, HookBegun, Control, Command, Step, boundVars
<1>6. GraphTypeOK'
  BY <1>1, LenTaskOrder DEF FutureRaises, GraphTypeOK, graphVars
<1> QED
  BY <1>3, <1>4, <1>5, <1>6 DEF Good, Shape, LocalTypeOK, WorkerInv

(* The final count.                                                        *)
LEMMA CountStatesInv ==
  ASSUME LocalInv, NEW p \in Proc, CountStates(p)
  PROVE  Shape' /\ Good
<1>1. /\ WorkerTypeOK /\ DiskTypeOK /\ StartTypeOK
      /\ ControlTypeOK /\ HookBegun
      /\ GraphTypeOK
  BY DEF LocalInv, Shape, LocalTypeOK, WorkerTypeOK
<1>2. DiskTypeOK'
  BY <1>1 DEF CountStates, DiskTypeOK, diskVars, stateVars, fileVars, startVars
<1>3. Good
  BY <1>1, <1>2, QuietInv DEF CountStates, LocalInv, HookBegun, diskVars, callVars, Step
<1>4. StartTypeOK'
  BY <1>1 DEF CountStates, StartTypeOK, startProcVars
<1>5. ControlTypeOK' /\ HookBegun'
  BY <1>1, LocalAssumption
  DEF CountStates, ControlTypeOK, HookBegun, Control, Command, Step, boundVars
<1>6. GraphTypeOK'
  BY <1>1, LenTaskOrder DEF CountStates, GraphTypeOK, graphVars
<1> QED
  BY <1>3, <1>4, <1>5, <1>6 DEF Good, Shape, LocalTypeOK, WorkerInv

(* Postflight begins only with every task completed.                       *)
LEMMA EnterPostflightInv ==
  ASSUME LocalInv, NEW p \in Proc, EnterPostflight(p)
  PROVE  Shape' /\ Good
<1>1. /\ WorkerTypeOK /\ DiskTypeOK /\ StartTypeOK
      /\ ControlTypeOK /\ HookBegun
      /\ GraphTypeOK
  BY DEF LocalInv, Shape, LocalTypeOK, WorkerTypeOK
<1>2. DiskTypeOK'
  BY <1>1 DEF EnterPostflight, DiskTypeOK, diskVars, stateVars, fileVars, startVars
<1>3. Good
  BY <1>1, <1>2, QuietInv
  DEF EnterPostflight, LocalInv, HookBegun, diskVars, callVars, Step, HookState
<1>4. StartTypeOK'
  BY <1>1 DEF EnterPostflight, StartTypeOK, startProcVars
<1>5. ControlTypeOK' /\ HookBegun'
  BY <1>1, LocalAssumption
  DEF EnterPostflight, ControlTypeOK, HookBegun, Control, Command, Step, boundVars, HookState
<1>6. GraphTypeOK'
  BY <1>1, LenTaskOrder DEF EnterPostflight, GraphTypeOK, graphVars
<1> QED
  BY <1>3, <1>4, <1>5, <1>6 DEF Good, Shape, LocalTypeOK, WorkerInv

(* Postflight refused.                                                     *)
LEMMA RefusePostflightInv ==
  ASSUME LocalInv, NEW p \in Proc, RefusePostflight(p)
  PROVE  Shape' /\ Good
<1>1. /\ WorkerTypeOK /\ DiskTypeOK /\ StartTypeOK
      /\ ControlTypeOK /\ HookBegun
      /\ GraphTypeOK
  BY DEF LocalInv, Shape, LocalTypeOK, WorkerTypeOK
<1>2. DiskTypeOK'
  BY <1>1 DEF RefusePostflight, DiskTypeOK, diskVars, stateVars, fileVars, startVars
<1>3. Good
  BY <1>1, <1>2, QuietInv DEF RefusePostflight, LocalInv, HookBegun, diskVars, callVars, Step
<1>4. StartTypeOK'
  BY <1>1 DEF RefusePostflight, StartTypeOK, startProcVars
<1>5. ControlTypeOK' /\ HookBegun'
  BY <1>1, LocalAssumption
  DEF RefusePostflight, ControlTypeOK, HookBegun, Control, Command, Step, boundVars
<1>6. GraphTypeOK'
  BY <1>1, LenTaskOrder DEF RefusePostflight, GraphTypeOK, graphVars
<1> QED
  BY <1>3, <1>4, <1>5, <1>6 DEF Good, Shape, LocalTypeOK, WorkerInv

(* A hook that was begun ends.                                             *)
LEMMA HookCompletesInv ==
  ASSUME LocalInv, NEW p \in Proc, HookCompletes(p)
  PROVE  Shape' /\ Good
<1>1. /\ WorkerTypeOK /\ DiskTypeOK /\ StartTypeOK
      /\ ControlTypeOK /\ HookBegun
      /\ GraphTypeOK
  BY DEF LocalInv, Shape, LocalTypeOK, WorkerTypeOK
<1>2. DiskTypeOK'
  BY <1>1 DEF HookCompletes, DiskTypeOK, diskVars, stateVars, fileVars, startVars
<1>3. Good
  BY <1>1, <1>2, QuietInv
  DEF HookCompletes, LocalInv, HookBegun, diskVars, callVars, Step, HookState
<1>4. StartTypeOK'
  BY <1>1 DEF HookCompletes, StartTypeOK, startProcVars
<1>5. ControlTypeOK' /\ HookBegun'
  BY <1>1, LocalAssumption
  DEF HookCompletes, ControlTypeOK, HookBegun, Control, Command, Step, boundVars, HookState
<1>6. GraphTypeOK'
  BY <1>1, LenTaskOrder DEF HookCompletes, GraphTypeOK, graphVars
<1> QED
  BY <1>3, <1>4, <1>5, <1>6 DEF Good, Shape, LocalTypeOK, WorkerInv

(* A hook that was begun fails.                                            *)
LEMMA HookFailsInv ==
  ASSUME LocalInv, NEW p \in Proc, HookFails(p)
  PROVE  Shape' /\ Good
<1>1. /\ WorkerTypeOK /\ DiskTypeOK /\ StartTypeOK
      /\ ControlTypeOK /\ HookBegun
      /\ GraphTypeOK
  BY DEF LocalInv, Shape, LocalTypeOK, WorkerTypeOK
<1>2. DiskTypeOK'
  BY <1>1 DEF HookFails, DiskTypeOK, diskVars, stateVars, fileVars, startVars
<1>3. Good
  BY <1>1, <1>2, QuietInv DEF HookFails, LocalInv, HookBegun, diskVars, callVars, Step
<1>4. StartTypeOK'
  BY <1>1 DEF HookFails, StartTypeOK, startProcVars
<1>5. ControlTypeOK' /\ HookBegun'
  BY <1>1, LocalAssumption
  DEF HookFails, ControlTypeOK, HookBegun, Control, Command, Step, boundVars
<1>6. GraphTypeOK'
  BY <1>1, LenTaskOrder DEF HookFails, GraphTypeOK, graphVars
<1> QED
  BY <1>3, <1>4, <1>5, <1>6 DEF Good, Shape, LocalTypeOK, WorkerInv

(* The end of a command.                                                   *)
LEMMA ExitInv ==
  ASSUME LocalInv, NEW p \in Proc, Exit(p)
  PROVE  Shape' /\ Good
<1>1. /\ WorkerTypeOK /\ DiskTypeOK /\ StartTypeOK
      /\ ControlTypeOK /\ HookBegun
      /\ GraphTypeOK
  BY DEF LocalInv, Shape, LocalTypeOK, WorkerTypeOK
<1>2. DiskTypeOK'
  BY <1>1 DEF Exit, DiskTypeOK, diskVars, stateVars, fileVars, startVars
<1>3. Good
  BY <1>1, <1>2, QuietInv DEF Exit, LocalInv, HookBegun, diskVars, callVars, Step, ForgetGraph
<1>4. StartTypeOK'
  BY <1>1 DEF Exit, StartTypeOK, startProcVars
<1>5. ControlTypeOK' /\ HookBegun'
  BY <1>1, LocalAssumption
  DEF Exit, ControlTypeOK, HookBegun, Control, Command, Step, boundVars, ForgetGraph
<1>6. GraphTypeOK'
  BY <1>1, LenTaskOrder DEF Exit, GraphTypeOK, graphVars, ForgetGraph
<1> QED
  BY <1>3, <1>4, <1>5, <1>6 DEF Good, Shape, LocalTypeOK, WorkerInv

(* An interrupt leaves the loop.                                           *)
LEMMA InterruptInv ==
  ASSUME LocalInv, NEW p \in Proc, Interrupt(p)
  PROVE  Shape' /\ Good
<1>1. /\ WorkerTypeOK /\ DiskTypeOK /\ StartTypeOK
      /\ ControlTypeOK /\ HookBegun
      /\ GraphTypeOK
  BY DEF LocalInv, Shape, LocalTypeOK, WorkerTypeOK
<1>2. DiskTypeOK'
  BY <1>1 DEF Interrupt, DiskTypeOK, diskVars, stateVars, fileVars, startVars
<1>3. Good
  BY <1>1, <1>2, QuietInv DEF Interrupt, LocalInv, HookBegun, diskVars, callVars, Step
<1>4. StartTypeOK'
  BY <1>1 DEF Interrupt, StartTypeOK, startProcVars
<1>5. ControlTypeOK' /\ HookBegun'
  BY <1>1, LocalAssumption
  DEF Interrupt, ControlTypeOK, HookBegun, Control, Command, Step, boundVars
<1>6. GraphTypeOK'
  BY <1>1, LenTaskOrder DEF Interrupt, GraphTypeOK, graphVars
<1> QED
  BY <1>3, <1>4, <1>5, <1>6 DEF Good, Shape, LocalTypeOK, WorkerInv

(* Resume's reset of one task keeps its attempts.                          *)
LEMMA ResetTaskInv ==
  ASSUME LocalInv, NEW p \in Proc, ResetTask(p)
  PROVE  Shape' /\ Good
<1>1. /\ WorkerTypeOK /\ DiskTypeOK /\ StartTypeOK
      /\ ControlTypeOK /\ HookBegun
      /\ GraphTypeOK /\ WorkerInv
  BY DEF LocalInv, Shape, LocalTypeOK, WorkerTypeOK
<1>2. DiskTypeOK'
  BY <1>1, LocalAssumption, LenTaskOrder
  DEF ResetTask, DiskTypeOK, diskVars, stateVars, fileVars, startVars, WriteStatusOnly, TaskStatus
<1>3. Good
  <2>1. \A u \in Task : status'[u] \in {"pending", "blocked", status[u]}
    BY <1>1 DEF ResetTask, WriteStatusOnly, DiskTypeOK, stateVars
  <2>2. /\ UNCHANGED <<callVars, attempts, attempt, hook>>
        /\ UNCHANGED <<at, attempt>>
    BY DEF ResetTask, WriteStatusOnly, stateVars, callVars
  <2>3. WorkerInv' /\ KeepsTerminal
    BY <1>1, <1>2, <2>1, <2>2, StatusInv
  <2> QED
    BY <2>2, <2>3 DEF Good, BeginsCleared
<1>4. StartTypeOK'
  BY <1>1 DEF ResetTask, StartTypeOK, startProcVars
<1>5. ControlTypeOK' /\ HookBegun'
  BY <1>1, LocalAssumption
  DEF ResetTask, ControlTypeOK, HookBegun, Control, Command, Step, boundVars
<1>6. GraphTypeOK'
  BY <1>1, LenTaskOrder DEF ResetTask, GraphTypeOK, graphVars
<1> QED
  BY <1>3, <1>4, <1>5, <1>6 DEF Good, Shape, LocalTypeOK, WorkerInv

(* Blocking a task keeps its attempts.                                     *)
LEMMA BlockTaskInv ==
  ASSUME LocalInv, NEW p \in Proc, NEW t \in Task, BlockTask(p, t)
  PROVE  Shape' /\ Good
<1>1. /\ WorkerTypeOK /\ DiskTypeOK /\ StartTypeOK
      /\ ControlTypeOK /\ HookBegun
      /\ GraphTypeOK /\ WorkerInv
  BY DEF LocalInv, Shape, LocalTypeOK, WorkerTypeOK
<1>2. DiskTypeOK'
  BY <1>1
  DEF BlockTask, DiskTypeOK, diskVars, stateVars, fileVars, startVars, WriteStatusOnly, TaskStatus
<1>3. Good
  <2>1. \A u \in Task : status'[u] \in {"pending", "blocked", status[u]}
    BY <1>1 DEF BlockTask, WriteStatusOnly, DiskTypeOK, stateVars
  <2>2. /\ UNCHANGED <<callVars, attempts, attempt, hook>>
        /\ UNCHANGED <<at, attempt>>
    BY DEF BlockTask, WriteStatusOnly, stateVars, callVars
  <2>3. WorkerInv' /\ KeepsTerminal
    BY <1>1, <1>2, <2>1, <2>2, StatusInv
  <2> QED
    BY <2>2, <2>3 DEF Good, BeginsCleared
<1>4. StartTypeOK'
  BY <1>1 DEF BlockTask, StartTypeOK, startProcVars
<1>5. ControlTypeOK' /\ HookBegun'
  BY <1>1, LocalAssumption
  DEF BlockTask, ControlTypeOK, HookBegun, Control, Command, Step, boundVars
<1>6. GraphTypeOK'
  BY <1>1, LenTaskOrder DEF BlockTask, GraphTypeOK, graphVars, AtCursor, Advance
<1> QED
  BY <1>3, <1>4, <1>5, <1>6 DEF Good, Shape, LocalTypeOK, WorkerInv

(* A retry begins an attempt of a failed task.                             *)
LEMMA IssueRetryInv ==
  ASSUME LocalInv, NEW p \in Proc, NEW t \in Task, IssueRetry(p, t)
  PROVE  Shape' /\ Good
<1>1. /\ WorkerTypeOK /\ DiskTypeOK /\ StartTypeOK
      /\ ControlTypeOK /\ HookBegun
      /\ GraphTypeOK /\ WorkerInv
  BY DEF LocalInv, Shape, LocalTypeOK, WorkerTypeOK
<1>2. DiskTypeOK'
  BY <1>1 DEF IssueRetry, DiskTypeOK, diskVars, stateVars, fileVars, startVars
<1>3. Good
  <2>1. /\ Goto(p, t, "idle", "choose")
        /\ UNCHANGED <<stateVars, attempt, number, verdict, hook>>
    BY DEF IssueRetry, Enter, diskVars
  <2>2. WorkerInv' /\ KeepsTerminal
    BY <1>1, <1>2, <2>1, BeginInv
  <2>3. /\ at[p][t] = "idle"
        /\ \A q \in Proc : \A u \in Task :
             at'[q][u] = IF q = p /\ u = t THEN "choose" ELSE at[q][u]
    BY <1>1, <2>1, GotoAt DEF WorkerPC
  <2>4. status[t] = "failed"
    BY DEF IssueRetry
  <2> QED
    BY <2>1, <2>2, <2>3, <2>4 DEF Good, BeginsCleared
<1>4. StartTypeOK'
  BY <1>1 DEF IssueRetry, StartTypeOK, startProcVars
<1>5. ControlTypeOK' /\ HookBegun'
  <2>1. Issue(p, "retry", "retry") /\ UNCHANGED hook
    BY DEF IssueRetry
  <2>2. HookBegun'
    BY <1>1, <2>1 DEF Issue, ControlTypeOK, HookBegun, Step
  <2>3. issued' \in 0 .. MaxCommands
    BY <1>1, <2>1, LocalAssumption DEF Issue, ControlTypeOK
  <2> QED
    BY <1>1, <2>1, <2>2, <2>3 DEF Issue, ControlTypeOK, Control, Command, Step
<1>6. GraphTypeOK'
  BY <1>1, LenTaskOrder DEF IssueRetry, GraphTypeOK, graphVars
<1> QED
  BY <1>3, <1>4, <1>5, <1>6 DEF Good, Shape, LocalTypeOK, WorkerInv

(* A submission begins an attempt of a task whose parents completed.       *)
LEMMA SubmitTaskInv ==
  ASSUME LocalInv, NEW p \in Proc, NEW t \in Task, SubmitTask(p, t)
  PROVE  Shape' /\ Good
<1>1. /\ WorkerTypeOK /\ DiskTypeOK /\ StartTypeOK
      /\ ControlTypeOK /\ HookBegun
      /\ GraphTypeOK /\ WorkerInv
  BY DEF LocalInv, Shape, LocalTypeOK, WorkerTypeOK
<1>2. DiskTypeOK'
  BY <1>1 DEF SubmitTask, DiskTypeOK, diskVars, stateVars, fileVars, startVars
<1>3. Good
  <2>1. /\ Goto(p, t, "idle", "choose")
        /\ UNCHANGED <<stateVars, attempt, number, verdict, hook>>
    BY DEF SubmitTask, Enter, diskVars
  <2>2. WorkerInv' /\ KeepsTerminal
    BY <1>1, <1>2, <2>1, BeginInv
  <2>3. /\ at[p][t] = "idle"
        /\ \A q \in Proc : \A u \in Task :
             at'[q][u] = IF q = p /\ u = t THEN "choose" ELSE at[q][u]
    BY <1>1, <2>1, GotoAt DEF WorkerPC
  <2>4. ParentsCompleted(t)
    BY DEF SubmitTask
  <2> QED
    BY <2>1, <2>2, <2>3, <2>4 DEF Good, BeginsCleared
<1>4. StartTypeOK'
  BY <1>1 DEF SubmitTask, StartTypeOK, startProcVars
<1>5. ControlTypeOK' /\ HookBegun'
  BY <1>1, LocalAssumption
  DEF SubmitTask, ControlTypeOK, HookBegun, Control, Command, Step, boundVars
<1>6. GraphTypeOK'
  <2>1. tries' \in [Proc -> [Task -> Nat]]
    BY <1>1, LocalAssumption DEF SubmitTask, GraphTypeOK
  <2>2. cursor' \in [Proc -> 1 .. Len(TaskOrder) + 1]
    BY <1>1, LenTaskOrder DEF SubmitTask, GraphTypeOK, AtCursor, Advance
  <2>3. /\ remaining' \in [Proc -> SUBSET Task]
        /\ running' \in [Proc -> SUBSET Task]
        /\ progressed' \in [Proc -> BOOLEAN]
        /\ UNCHANGED <<reconciled, doomed>>
    BY <1>1 DEF SubmitTask, GraphTypeOK
  <2> QED
    BY <1>1, <2>1, <2>2, <2>3 DEF GraphTypeOK
<1> QED
  BY <1>3, <1>4, <1>5, <1>6 DEF Good, Shape, LocalTypeOK, WorkerInv

(* The retry loop begins another attempt where one has returned.           *)
LEMMA PoolRetriesInv ==
  ASSUME LocalInv, NEW p \in Proc, NEW t \in Task, PoolRetries(p, t)
  PROVE  Shape' /\ Good
<1>1. /\ WorkerTypeOK /\ DiskTypeOK /\ StartTypeOK
      /\ ControlTypeOK /\ HookBegun
      /\ GraphTypeOK /\ WorkerInv
  BY DEF LocalInv, Shape, LocalTypeOK, WorkerTypeOK
<1>2. DiskTypeOK'
  BY <1>1 DEF PoolRetries, DiskTypeOK, diskVars, stateVars, fileVars, startVars
<1>3. Good
  <2>1. /\ Goto(p, t, "returned", "choose")
        /\ UNCHANGED <<stateVars, attempt, number, verdict, hook>>
    BY DEF PoolRetries, Enter, diskVars
  <2>2. WorkerInv' /\ KeepsTerminal
    BY <1>1, <1>2, <2>1, BeginInv
  <2>3. /\ at[p][t] = "returned"
        /\ \A q \in Proc : \A u \in Task :
             at'[q][u] = IF q = p /\ u = t THEN "choose" ELSE at[q][u]
    BY <1>1, <2>1, GotoAt DEF WorkerPC
  <2>4. at[p][t] # "idle"
    BY <2>3
  <2> QED
    BY <2>1, <2>2, <2>3, <2>4 DEF Good, BeginsCleared
<1>4. StartTypeOK'
  BY <1>1 DEF PoolRetries, StartTypeOK, startProcVars
<1>5. ControlTypeOK' /\ HookBegun'
  BY <1>1, LocalAssumption
  DEF PoolRetries, ControlTypeOK, HookBegun, Control, Command, Step, boundVars
<1>6. GraphTypeOK'
  BY <1>1, LenTaskOrder DEF PoolRetries, GraphTypeOK, graphVars
<1> QED
  BY <1>3, <1>4, <1>5, <1>6 DEF Good, Shape, LocalTypeOK, WorkerInv

(* The pool is shut down and its calls are dropped.                        *)
LEMMA DrainPoolInv ==
  ASSUME LocalInv, NEW p \in Proc, DrainPool(p)
  PROVE  Shape' /\ Good
<1>1. /\ WorkerTypeOK /\ DiskTypeOK /\ StartTypeOK
      /\ ControlTypeOK /\ HookBegun
      /\ GraphTypeOK /\ WorkerInv
  BY DEF LocalInv, Shape, LocalTypeOK, WorkerTypeOK
<1>2. DiskTypeOK'
  BY <1>1 DEF DrainPool, DiskTypeOK, diskVars, stateVars, fileVars, startVars
<1>3. Good
  <2>1. /\ ForgetCalls(p, running[p])
        /\ running[p] \in SUBSET Task
        /\ UNCHANGED <<stateVars, attempt, hook>>
    BY <1>1 DEF DrainPool, diskVars, GraphTypeOK
  <2>2. WorkerInv' /\ KeepsTerminal
    BY <1>1, <1>2, <2>1, ForgetCallsInv
  <2>3. \A q \in Proc : \A u \in Task : at'[q][u] # "idle" => at[q][u] # "idle"
    BY <1>1, <2>1 DEF ForgetCalls, WorkerTypeOK
  <2> QED
    BY <2>1, <2>2, <2>3 DEF Good, BeginsCleared
<1>4. StartTypeOK'
  BY <1>1 DEF DrainPool, StartTypeOK, startProcVars
<1>5. ControlTypeOK' /\ HookBegun'
  BY <1>1, LocalAssumption
  DEF DrainPool, ControlTypeOK, HookBegun, Control, Command, Step, boundVars
<1>6. GraphTypeOK'
  BY <1>1, LenTaskOrder DEF DrainPool, GraphTypeOK, graphVars
<1> QED
  BY <1>3, <1>4, <1>5, <1>6 DEF Good, Shape, LocalTypeOK, WorkerInv

(* A retry command ends and drops its call.                                *)
LEMMA RetryReturnsInv ==
  ASSUME LocalInv, NEW p \in Proc, RetryReturns(p)
  PROVE  Shape' /\ Good
<1>1. /\ WorkerTypeOK /\ DiskTypeOK /\ StartTypeOK
      /\ ControlTypeOK /\ HookBegun
      /\ GraphTypeOK /\ WorkerInv
  BY DEF LocalInv, Shape, LocalTypeOK, WorkerTypeOK
<1>2. DiskTypeOK'
  BY <1>1 DEF RetryReturns, DiskTypeOK, diskVars, stateVars, fileVars, startVars
<1>3. Good
  <2>1. /\ ForgetCalls(p, running[p])
        /\ running[p] \in SUBSET Task
        /\ UNCHANGED <<stateVars, attempt, hook>>
    BY <1>1 DEF RetryReturns, diskVars, GraphTypeOK
  <2>2. WorkerInv' /\ KeepsTerminal
    BY <1>1, <1>2, <2>1, ForgetCallsInv
  <2>3. \A q \in Proc : \A u \in Task : at'[q][u] # "idle" => at[q][u] # "idle"
    BY <1>1, <2>1 DEF ForgetCalls, WorkerTypeOK
  <2> QED
    BY <2>1, <2>2, <2>3 DEF Good, BeginsCleared
<1>4. StartTypeOK'
  BY <1>1 DEF RetryReturns, StartTypeOK, startProcVars
<1>5. ControlTypeOK' /\ HookBegun'
  BY <1>1, LocalAssumption
  DEF RetryReturns, ControlTypeOK, HookBegun, Control, Command, Step, boundVars
<1>6. GraphTypeOK'
  BY <1>1, LenTaskOrder DEF RetryReturns, GraphTypeOK, graphVars
<1> QED
  BY <1>3, <1>4, <1>5, <1>6 DEF Good, Shape, LocalTypeOK, WorkerInv

(* The finished futures are dropped.                                       *)
LEMMA CollectFuturesInv ==
  ASSUME LocalInv, NEW p \in Proc, CollectFutures(p)
  PROVE  Shape' /\ Good
<1>1. /\ WorkerTypeOK /\ DiskTypeOK /\ StartTypeOK
      /\ ControlTypeOK /\ HookBegun
      /\ GraphTypeOK /\ WorkerInv
  BY DEF LocalInv, Shape, LocalTypeOK, WorkerTypeOK
<1> PICK done \in SUBSET {t \in running[p] : FutureReturned(p, t)} :
      /\ running' = [running EXCEPT ![p] = @ \ done]
      /\ reconciled' = [reconciled EXCEPT ![p] = @ \cup done]
      /\ ForgetCalls(p, done)
      /\ Step(p, "wait", IF remaining[p] \cup (running[p] \ done) = {}
                         THEN "count" ELSE "scan")
      /\ UNCHANGED <<diskVars, startProcVars, job, remaining, cursor, progressed,
                     tries, doomed, hook, boundVars>>
  BY DEF CollectFutures
<1>2. DiskTypeOK'
  BY <1>1 DEF DiskTypeOK, diskVars, stateVars, fileVars, startVars
<1>3. Good
  <2>1. /\ ForgetCalls(p, done)
        /\ done \in SUBSET Task
        /\ UNCHANGED <<stateVars, attempt, hook>>
    BY <1>1 DEF diskVars, GraphTypeOK
  <2>2. WorkerInv' /\ KeepsTerminal
    BY <1>1, <1>2, <2>1, ForgetCallsInv
  <2>3. \A q \in Proc : \A u \in Task : at'[q][u] # "idle" => at[q][u] # "idle"
    BY <1>1, <2>1 DEF ForgetCalls, WorkerTypeOK
  <2> QED
    BY <2>1, <2>2, <2>3 DEF Good, BeginsCleared
<1>4. StartTypeOK'
  BY <1>1 DEF StartTypeOK, startProcVars
<1>5. ControlTypeOK' /\ HookBegun'
  BY <1>1, LocalAssumption
  DEF ControlTypeOK, HookBegun, Control, Command, Step, boundVars
<1>6. GraphTypeOK'
  BY <1>1, LenTaskOrder DEF GraphTypeOK, graphVars
<1> QED
  BY <1>3, <1>4, <1>5, <1>6 DEF Good, Shape, LocalTypeOK, WorkerInv

(* A killed process drops its calls and leaves the files.                  *)
LEMMA KillProcessInv ==
  ASSUME LocalInv, NEW p \in Proc, KillProcess(p)
  PROVE  Shape' /\ Good
<1>1. /\ WorkerTypeOK /\ DiskTypeOK /\ StartTypeOK
      /\ ControlTypeOK /\ HookBegun
      /\ GraphTypeOK /\ WorkerInv
  BY DEF LocalInv, Shape, LocalTypeOK, WorkerTypeOK
<1>2. DiskTypeOK'
  BY <1>1, GraphAssumption
  DEF KillProcess, DiskTypeOK, diskVars, stateVars, fileVars, startVars, KillCalls
<1>3. Good
  <2>1. /\ ForgetCalls(p, Task)
        /\ Task \in SUBSET Task
        /\ UNCHANGED <<stateVars, attempt, hook>>
    BY <1>1 DEF KillProcess, diskVars, GraphTypeOK, KillCalls
  <2>2. WorkerInv' /\ KeepsTerminal
    BY <1>1, <1>2, <2>1, ForgetCallsInv
  <2>3. \A q \in Proc : \A u \in Task : at'[q][u] # "idle" => at[q][u] # "idle"
    BY <1>1, <2>1 DEF ForgetCalls, WorkerTypeOK
  <2> QED
    BY <2>1, <2>2, <2>3 DEF Good, BeginsCleared
<1>4. StartTypeOK'
  BY <1>1 DEF KillProcess, StartTypeOK, startProcVars, ForgetStart, StartPC, Record
<1>5. ControlTypeOK' /\ HookBegun'
  BY <1>1, LocalAssumption
  DEF KillProcess, ControlTypeOK, HookBegun, Control, Command, Step, boundVars, ForgetGraph
<1>6. GraphTypeOK'
  BY <1>1, LenTaskOrder DEF KillProcess, GraphTypeOK, graphVars, ForgetGraph
<1> QED
  BY <1>3, <1>4, <1>5, <1>6 DEF Good, Shape, LocalTypeOK, WorkerInv

(* A step of run_task.                                                     *)
LEMMA WorkerRunsInv ==
  ASSUME LocalInv, NEW p \in Proc, NEW t \in Task, WorkerRuns(p, t)
  PROVE  Shape' /\ Good
<1>1. WorkerInv /\ WorkerTypeOK /\ Shape
  BY DEF LocalInv, WorkerInv
<1>2. WorkerInv' /\ KeepsTerminal
  BY <1>1, WorkerStepInv DEF WorkerRuns
<1>3. /\ at[p][t] # "idle"
      /\ \A q \in Proc : \A u \in Task :
           at'[q][u] # "idle" => at[q][u] # "idle"
  <2>1. PICK from \in WorkerPC \ {"idle"}, to \in WorkerPC : Goto(p, t, from, to)
    BY DEF WorkerRuns, WorkerStep, ChooseNumber, MakeAttemptDir, AttemptDirExists,
        AcceptLaunch, RejectLaunch, AnnounceAttempt, AnnounceState, Launch, LaunchFails,
        PayloadExits, PublishAttempt, RecordState, WorkerPC
  <2> QED
    BY <1>1, <2>1, GotoAt
<1>4. \A u \in Task : u # t => attempt'[u] = attempt[u]
  BY <1>1
  DEF WorkerRuns, WorkerStep, ChooseNumber, MakeAttemptDir, AttemptDirExists,
      AcceptLaunch, RejectLaunch, AnnounceAttempt, AnnounceState, Launch, LaunchFails,
      PayloadExits, PublishAttempt, RecordState, WorkerTypeOK, DiskTypeOK, diskVars
<1>5. Good
  BY <1>2, <1>3, <1>4 DEF Good, BeginsCleared, WorkerRuns
<1> QED
  BY <1>1, <1>2, <1>5
  DEF WorkerRuns, WorkerInv, Shape, HookBegun, LocalTypeOK, StartTypeOK, ControlTypeOK,
      GraphTypeOK, startProcVars, graphVars, boundVars

(* An output of a payload that outlived its worker.                        *)
LEMMA StrayRunsInv ==
  ASSUME LocalInv, StrayRuns
  PROVE  Shape' /\ Good
<1>1. WorkerInv /\ Shape
  BY DEF LocalInv
<1>2. WorkerInv' /\ KeepsTerminal
  BY <1>1, StrayOutputInv DEF StrayRuns
<1>3. Good
  BY <1>2 DEF Good, BeginsCleared, StrayRuns, StrayOutput, callVars
<1> QED
  BY <1>1, <1>2, <1>3
  DEF StrayRuns, WorkerInv, Shape, HookBegun, LocalTypeOK, StartTypeOK, ControlTypeOK,
      GraphTypeOK, startProcVars, graphVars, boundVars

(* Every step of the local backend keeps the shape and is good.            *)
LEMMA EveryStepInv ==
  ASSUME LocalInv, [Next]_vars
  PROVE  Shape' /\ Good
<1>1. ASSUME NEW p \in Proc, IssueCommand(p)
      PROVE  Shape' /\ Good
  <2>1. ASSUME NEW overwrite \in Overwrite,
               IssueStart(p, IF overwrite THEN "overwrite" ELSE "keep")
        PROVE  Shape' /\ Good
    <3>1. (IF overwrite THEN "overwrite" ELSE "keep") \in Policy
      BY DEF Policy
    <3> QED
      BY <2>1, <3>1, IssueStartInv
  <2>2. ASSUME NEW overwrite \in Overwrite, IssueResume(p, overwrite)
        PROVE  Shape' /\ Good
    <3>1. overwrite \in BOOLEAN
      BY LocalAssumption
    <3> QED
      BY <2>2, <3>1, IssueResumeInv
  <2> QED
    BY <1>1, <2>1, <2>2, IssueRetryInv DEF IssueCommand
<1>2. ASSUME NEW p \in Proc, Coordinate(p)
      PROVE  Shape' /\ Good
  <2>1. CASE ScanTask(p)
    BY <2>1, SkipTaskInv, BlockTaskInv, SubmitTaskInv DEF ScanTask
  <2> QED
    BY <1>2, <2>1, StartRunsInv, StartEndsInv, DeleteOutputsInv, ResetTaskInv,
       ReadStatesInv, EndPassInv, CollectFuturesInv, FutureRaisesInv, DrainPoolInv,
       CountStatesInv, EnterPostflightInv, RefusePostflightInv, HookCompletesInv,
       HookFailsInv, RetryReturnsInv, ExitInv
    DEF Coordinate
<1>3. ASSUME NEW p \in Proc, NEW t \in Task, Thread(p, t)
      PROVE  Shape' /\ Good
  BY <1>3, WorkerRunsInv, PoolRetriesInv DEF Thread
<1>4. CASE UNCHANGED vars
  <2>1. /\ UNCHANGED <<stateVars, attempt, callVars, hook>>
        /\ UNCHANGED <<diskVars, startProcVars, ctl, job, graphVars, boundVars>>
    BY <1>4 DEF vars, diskVars
  <2>2. Shape /\ DiskTypeOK /\ WorkerInv
    BY DEF LocalInv, Shape, LocalTypeOK, WorkerTypeOK
  <2>3. DiskTypeOK'
    BY <2>1, <2>2 DEF DiskTypeOK, diskVars, stateVars, fileVars, startVars
  <2>4. Good
    BY <2>1, <2>2, <2>3, QuietInv
  <2> QED
    BY <2>1, <2>2, <2>4
    DEF Good, WorkerInv, Shape, HookBegun, LocalTypeOK, StartTypeOK, ControlTypeOK,
        GraphTypeOK, startProcVars, graphVars, boundVars
<1> QED
  BY <1>1, <1>2, <1>3, <1>4, KillProcessInv, InterruptInv, StrayRunsInv DEF Next, Rest

(* A completed attempt stays on record, so a cleared task stays cleared.   *)
LEMMA ClearedKept ==
  ASSUME KeepsTerminal, GraphAssumption, NEW t \in Task, Cleared(t)
  PROVE  Cleared(t)'
  BY DEF KeepsTerminal, Terminal, Cleared

(* A task recorded as completed has a completed attempt; one recorded as   *)
(* failed has been attempted.                                              *)
LEMMA StatesBacked ==
  ASSUME WorkerInv, NEW t \in Task
  PROVE  /\ status[t] = "completed" => \E n \in AttemptNo : attempt[t][n] = "completed"
         /\ status[t] = "failed" => Attempted(t)
<1>1. StateOK(t) /\ attempts[t] \in 0 .. MaxAttempt
  BY DEF WorkerInv, StateBackedByAttempt, WorkerTypeOK, DiskTypeOK
<1>2. attempts[t] > 0 => attempts[t] \in AttemptNo
  BY <1>1, MaxAttemptAssumption DEF AttemptNo
<1> QED
  BY <1>1, <1>2 DEF StateOK, Terminal, Attempted

(* LocalInv is inductive: a call begins only for a task whose parents have *)
(* completed attempts, and those stay on record.                           *)
LEMMA LocalStep ==
  ASSUME LocalInv, [Next]_vars
  PROVE  LocalInv'
<1>1. Shape' /\ WorkerInv' /\ KeepsTerminal /\ BeginsCleared
  BY EveryStepInv DEF Good
<1>2. WorkerInv /\ CallsCleared /\ AttemptedAfterParentAttempts /\ PostflightAfterAttempts
  BY DEF LocalInv
<1>3. \A t \in Task : Cleared(t) => Cleared(t)'
  BY <1>1, ClearedKept, GraphAssumption
<1>4. \A t \in Task : Attempted(t) => Cleared(t)
  BY <1>2 DEF AttemptedAfterParentAttempts, Cleared
<1>5. CallsCleared'
  <2> SUFFICES ASSUME NEW p \in Proc, NEW t \in Task, at'[p][t] # "idle"
               PROVE  Cleared(t)
    BY <1>3 DEF CallsCleared
  <2>1. CASE at[p][t] # "idle"
    BY <2>1, <1>2 DEF CallsCleared
  <2>2. CASE ParentsCompleted(t)
    BY <2>2, <1>2, StatesBacked, GraphAssumption DEF ParentsCompleted, Cleared
  <2>3. CASE status[t] = "failed"
    BY <2>3, <1>2, <1>4, StatesBacked
  <2> QED
    BY <2>1, <2>2, <2>3, <1>1 DEF BeginsCleared
<1>6. AttemptedAfterParentAttempts'
  <2> SUFFICES ASSUME NEW t \in Task, Attempted(t)'
               PROVE  Cleared(t)
    BY <1>3 DEF AttemptedAfterParentAttempts, Cleared
  <2>1. CASE Attempted(t)
    BY <2>1, <1>4
  <2>2. CASE \E p \in Proc : at[p][t] # "idle"
    BY <2>2, <1>2 DEF CallsCleared
  <2> QED
    BY <2>1, <2>2, <1>1 DEF BeginsCleared, Attempted
<1>7. PostflightAfterAttempts'
  <2> SUFFICES ASSUME hook' # "none", NEW t \in Task
               PROVE  \E n \in AttemptNo : attempt[t][n] = "completed"
    BY <1>1 DEF PostflightAfterAttempts, KeepsTerminal, Terminal
  <2>1. CASE hook # "none"
    BY <2>1, <1>2 DEF PostflightAfterAttempts
  <2>2. CASE AllCompleted
    BY <2>2, <1>2, StatesBacked DEF AllCompleted
  <2> QED
    BY <2>1, <2>2, <1>1 DEF BeginsCleared
<1> QED
  BY <1>1, <1>5, <1>6, <1>7 DEF LocalInv

(* A campaign on which no command was issued satisfies the invariant.      *)
LEMMA LocalInit == Init => LocalInv
<1> SUFFICES ASSUME Init
             PROVE  LocalInv
  OBVIOUS
<1>1. files \in SUBSET File
  BY LocalAssumption DEF Init
<1>2. WorkerInv
  BY <1>1, InitInv DEF Init
<1>3. StartTypeOK
  BY DEF Init, StartInit, StartTypeOK, StartPC, Record
<1>4. ControlTypeOK /\ HookBegun
  BY LocalAssumption DEF Init, ControlTypeOK, HookBegun, Control, Command, HookState
<1>5. GraphTypeOK
  BY LenTaskOrder DEF Init, GraphTypeOK
<1>6. CallsCleared /\ AttemptedAfterParentAttempts /\ PostflightAfterAttempts
  BY DEF Init, DiskInit, WorkerInit, CallsCleared, AttemptedAfterParentAttempts,
      PostflightAfterAttempts, Attempted
<1> QED
  BY <1>2, <1>3, <1>4, <1>5, <1>6 DEF LocalInv, Shape, LocalTypeOK, WorkerInv

(* The inductive invariant of the local backend.                           *)
THEOREM LocalInvariant == Spec => []LocalInv
<1>1. LocalInv /\ [Next]_vars => LocalInv'
  BY LocalStep
<1> QED
  BY <1>1, LocalInit, PTL DEF Spec

(* Every variable of the local backend keeps its type, whatever the graph. *)
THEOREM LocalTypeCorrect == Spec => []LocalTypeOK
<1>1. LocalInv => LocalTypeOK
  BY DEF LocalInv, Shape
<1> QED
  BY <1>1, LocalInvariant, PTL

(* What run_task guarantees alone it guarantees when coordinators, retries *)
(* and resumes drive it, however commands overlap, and nobody rewrites a   *)
(* terminal attempt record.                                                *)
THEOREM LocalAttemptsSound ==
  Spec =>
    /\ [](AttemptOwned /\ AttemptsContiguous /\ StateBackedByAttempt /\ CallConsistent)
    /\ TerminalAttemptsKept
<1>1. LocalInv => AttemptOwned /\ AttemptsContiguous /\ StateBackedByAttempt /\ CallConsistent
  BY DEF LocalInv, WorkerInv
<1>2. LocalInv /\ [Next]_vars =>
        [\A t \in Task : \A n \in AttemptNo :
           attempt[t][n] \in Terminal => attempt'[t][n] = attempt[t][n]]_workerVars
  BY EveryStepInv DEF Good, KeepsTerminal
<1> QED
  BY <1>1, <1>2, LocalInvariant, PTL DEF Spec, TerminalAttemptsKept

(* Dependency order, for any graph and any overlap of starts, resumes,     *)
(* retries and kills: a task is attempted only with a completed attempt of *)
(* each parent on record.                                                  *)
THEOREM DependencyOrder == Spec => []AttemptedAfterParentAttempts
<1>1. LocalInv => AttemptedAfterParentAttempts
  BY DEF LocalInv
<1> QED
  BY <1>1, LocalInvariant, PTL

(* Postflight never runs before every task has a completed attempt.        *)
THEOREM PostflightLast == Spec => []PostflightAfterAttempts
<1>1. LocalInv => PostflightAfterAttempts
  BY DEF LocalInv
<1> QED
  BY <1>1, LocalInvariant, PTL

----
(* What a process keeps to itself                                          *)

(* A step of p leaves the local variables of the other processes alone.    *)
OthersStay(p) == \A q \in Proc : q # p =>
  /\ ctl'[q] = ctl[q] /\ job'[q] = job[q]
  /\ reconciled'[q] = reconciled[q] /\ remaining'[q] = remaining[q]
  /\ running'[q] = running[q] /\ cursor'[q] = cursor[q]
  /\ \A t \in Task : at'[q][t] = at[q][t]

ProcStep(p) ==
  \/ IssueCommand(p) \/ Coordinate(p) \/ KillProcess(p) \/ Interrupt(p)
  \/ \E t \in Task : Thread(p, t)

(* The calls T of p are forgotten, the others stay.                        *)
LEMMA ForgetAt ==
  ASSUME WorkerTypeOK, NEW p \in Proc, NEW T \in SUBSET Task, ForgetCalls(p, T)
  PROVE  \A q \in Proc : \A t \in Task :
           at'[q][t] = IF q = p /\ t \in T THEN "idle" ELSE at[q][t]
  BY DEF WorkerTypeOK, ForgetCalls

(* A step of run_task moves one call on and leaves its caller waiting.     *)
LEMMA WorkerMoves ==
  ASSUME WorkerTypeOK, NEW p \in Proc, NEW t \in Task, WorkerStep(p, t)
  PROVE  \A q \in Proc : \A u \in Task :
           /\ ~(q = p /\ u = t) => at'[q][u] = at[q][u]
           /\ at'[q][u] = "idle" <=> at[q][u] = "idle"
<1>1. PICK from \in WorkerPC \ {"idle"}, to \in WorkerPC \ {"idle"} : Goto(p, t, from, to)
  BY DEF WorkerStep, ChooseNumber, MakeAttemptDir, AttemptDirExists, AcceptLaunch,
      RejectLaunch, AnnounceAttempt, AnnounceState, Launch, LaunchFails, PayloadExits,
      PublishAttempt, RecordState, WorkerPC
<1> QED
  BY <1>1, GotoAt

(* Every step of p leaves the other processes alone.                       *)
LEMMA OthersUntouched ==
  ASSUME LocalInv, NEW p \in Proc, ProcStep(p)
  PROVE  OthersStay(p)
<1> USE DEF OthersStay
<1>1. WorkerTypeOK /\ ControlTypeOK /\ GraphTypeOK
  BY DEF LocalInv, Shape, LocalTypeOK
<1>2. CASE IssueCommand(p)
  BY <1>1, <1>2
  DEF IssueCommand, IssueStart, IssueResume, IssueRetry, Issue, Step, Enter, Goto, callVars,
      graphVars, WorkerTypeOK, ControlTypeOK, GraphTypeOK
<1>3. CASE KillProcess(p) \/ Interrupt(p) \/ Exit(p)
  BY <1>1, <1>3, ForgetAt
  DEF KillProcess, Interrupt, Exit, ForgetGraph, KillCalls, callVars, graphVars,
      ControlTypeOK, GraphTypeOK
<1>4. CASE ScanTask(p)
  BY <1>1, <1>4
  DEF ScanTask, SkipTask, BlockTask, SubmitTask, Advance, Enter, Goto, callVars, graphVars,
      WorkerTypeOK, GraphTypeOK
<1>5. CASE CollectFutures(p) \/ DrainPool(p) \/ RetryReturns(p)
  <2>1. PICK T \in SUBSET Task : ForgetCalls(p, T)
    BY <1>1, <1>5 DEF CollectFutures, DrainPool, RetryReturns, GraphTypeOK
  <2>2. \A q \in Proc : q # p => \A t \in Task : at'[q][t] = at[q][t]
    BY <1>1, <2>1, ForgetAt
  <2> QED
    BY <1>1, <1>5, <2>2
    DEF CollectFutures, DrainPool, RetryReturns, Step, ControlTypeOK, GraphTypeOK
<1>6. CASE \/ StartRuns(p) \/ StartEnds(p) \/ DeleteOutputs(p) \/ ResetTask(p) \/ ReadStates(p)
           \/ EndPass(p) \/ FutureRaises(p) \/ CountStates(p)
           \/ EnterPostflight(p) \/ RefusePostflight(p) \/ HookCompletes(p) \/ HookFails(p)
  BY <1>1, <1>6
  DEF StartRuns, StartEnds, DeleteOutputs, ResetTask, ReadStates, EndPass, FutureRaises,
      CountStates, EnterPostflight, RefusePostflight, HookCompletes, HookFails, Step,
      callVars, graphVars, ControlTypeOK, GraphTypeOK
<1>7. ASSUME NEW t \in Task, Thread(p, t)
      PROVE  OthersStay(p)
  BY <1>1, <1>7, WorkerMoves
  DEF Thread, WorkerRuns, PoolRetries, Goto, graphVars, WorkerTypeOK
<1> QED
  BY <1>2, <1>3, <1>4, <1>5, <1>6, <1>7 DEF ProcStep, Coordinate

(* The books of one process: it has a future for each call and only while  *)
(* it runs a pool, and every task is settled, running or still to run.     *)
BooksOf(p) ==
  /\ \A t \in Task : at[p][t] # "idle" <=> t \in running[p]
  /\ running[p] # {} => ctl[p] \in {"scan", "wait", "drain", "retry"}
  /\ ctl[p] = "retry" => job[p] = "retry"
  /\ ctl[p] \in {"scan", "wait", "count"} =>
       /\ reconciled[p] \cup remaining[p] \cup running[p] = Task
       /\ reconciled[p] \cap remaining[p] = {}
       /\ (reconciled[p] \cup remaining[p]) \cap running[p] = {}
  /\ ctl[p] = "count" => remaining[p] = {} /\ running[p] = {}
  /\ ctl[p] \in {"delete", "wait"} => cursor[p] = 1

Books == \A p \in Proc : BooksOf(p)

(* A process that steps keeps its books.                                   *)
LEMMA BooksStep ==
  ASSUME LocalInv, Books, NEW p \in Proc, ProcStep(p)
  PROVE  BooksOf(p)'
<1>1. WorkerTypeOK /\ ControlTypeOK /\ GraphTypeOK /\ BooksOf(p)
  BY DEF LocalInv, Shape, LocalTypeOK, Books
<1>2. CASE \E overwrite \in Overwrite : 
             \/ IssueStart(p, IF overwrite THEN "overwrite" ELSE "keep")
             \/ IssueResume(p, overwrite)
  BY <1>1, <1>2
  DEF IssueStart, IssueResume, Issue, Step, callVars, graphVars, ControlTypeOK, GraphTypeOK,
      BooksOf
<1>3. CASE \E t \in Task : IssueRetry(p, t)
  BY <1>1, <1>3
  DEF IssueRetry, Issue, Step, Enter, Goto, WorkerTypeOK, ControlTypeOK, GraphTypeOK, BooksOf
<1>4. CASE KillProcess(p)
  BY <1>1, <1>4, ForgetAt
  DEF KillProcess, ForgetGraph, KillCalls, ControlTypeOK, GraphTypeOK, BooksOf
<1>5. CASE Interrupt(p) \/ Exit(p)
  BY <1>1, <1>5
  DEF Interrupt, Exit, ForgetGraph, callVars, graphVars, ControlTypeOK, GraphTypeOK, BooksOf
<1>6. ASSUME NEW t \in Task, SkipTask(p, t) \/ BlockTask(p, t)
      PROVE  BooksOf(p)'
  BY <1>1, <1>6
  DEF SkipTask, BlockTask, AtCursor, Ready, Advance, callVars, graphVars, GraphTypeOK, BooksOf
<1>7. ASSUME NEW t \in Task, SubmitTask(p, t)
      PROVE  BooksOf(p)'
  BY <1>1, <1>7
  DEF SubmitTask, AtCursor, Ready, Advance, Enter, Goto, WorkerTypeOK, GraphTypeOK, BooksOf
<1>8. CASE CollectFutures(p)
  <2> PICK done \in SUBSET {t \in running[p] : FutureReturned(p, t)} :
      /\ running' = [running EXCEPT ![p] = @ \ done]
      /\ reconciled' = [reconciled EXCEPT ![p] = @ \cup done]
      /\ ForgetCalls(p, done)
      /\ Step(p, "wait", IF remaining[p] \cup (running[p] \ done) = {}
                         THEN "count" ELSE "scan")
      /\ UNCHANGED <<remaining, cursor, job>>
    BY <1>8 DEF CollectFutures
  <2>1. done \in SUBSET Task /\ done \subseteq running[p]
    BY <1>1 DEF GraphTypeOK
  <2>2. \A t \in Task : at'[p][t] # "idle" <=> t \in running'[p]
    <3>1. ForgetCalls(p, done)
      OBVIOUS
    <3>2. \A t \in Task : at'[p][t] = IF t \in done THEN "idle" ELSE at[p][t]
      BY <1>1, <2>1, <3>1, ForgetAt
    <3>3. running'[p] = running[p] \ done
      BY <1>1 DEF GraphTypeOK
    <3> QED
      BY <1>1, <3>2, <3>3 DEF BooksOf
  <2>3. /\ ctl[p] = "wait"
        /\ ctl'[p] = IF remaining[p] \cup (running[p] \ done) = {} THEN "count" ELSE "scan"
    BY <1>1 DEF Step, ControlTypeOK
  <2>4. /\ running'[p] = running[p] \ done
        /\ reconciled'[p] = reconciled[p] \cup done
        /\ remaining'[p] = remaining[p]
    BY <1>1 DEF GraphTypeOK
  <2>5. /\ reconciled'[p] \cup remaining'[p] \cup running'[p] = Task
        /\ reconciled'[p] \cap remaining'[p] = {}
        /\ (reconciled'[p] \cup remaining'[p]) \cap running'[p] = {}
    BY <1>1, <2>1, <2>3, <2>4 DEF BooksOf
  <2> QED
    BY <1>1, <2>2, <2>3, <2>4, <2>5 DEF BooksOf
<1>9. CASE DrainPool(p) \/ RetryReturns(p)
  <2>1. running[p] \in SUBSET Task /\ ForgetCalls(p, running[p])
    BY <1>1, <1>9 DEF GraphTypeOK, DrainPool, RetryReturns
  <2>2. \A t \in Task : at'[p][t] = "idle"
    BY <1>1, <2>1, ForgetAt DEF BooksOf
  <2> QED
    BY <1>1, <1>9, <2>2
    DEF DrainPool, RetryReturns, Step, ControlTypeOK, GraphTypeOK, BooksOf
<1>10. CASE ReadStates(p) \/ EndPass(p)
  BY <1>1, <1>10
  DEF ReadStates, EndPass, AfterPass, Stalled, Step, callVars, graphVars, ControlTypeOK,
      GraphTypeOK, BooksOf
<1>11. CASE \/ StartRuns(p) \/ StartEnds(p) \/ DeleteOutputs(p) \/ ResetTask(p)
            \/ FutureRaises(p) \/ CountStates(p)
            \/ EnterPostflight(p) \/ RefusePostflight(p) \/ HookCompletes(p) \/ HookFails(p)
  BY <1>1, <1>11
  DEF StartRuns, StartEnds, DeleteOutputs, ResetTask, FutureRaises,
      CountStates, EnterPostflight, RefusePostflight, HookCompletes, HookFails, Step,
      callVars, graphVars, ControlTypeOK, GraphTypeOK, BooksOf
<1>12. ASSUME NEW t \in Task, Thread(p, t)
       PROVE  BooksOf(p)'
  BY <1>1, <1>12, WorkerMoves
  DEF Thread, WorkerRuns, PoolRetries, Goto, graphVars, WorkerTypeOK, BooksOf
<1> QED
  BY <1>2, <1>3, <1>4, <1>5, <1>6, <1>7, <1>8, <1>9, <1>10, <1>11, <1>12
  DEF ProcStep, IssueCommand, Coordinate, ScanTask

(* The books are kept by every step.                                       *)
LEMMA BooksKept ==
  ASSUME LocalInv, Books, [Next]_vars
  PROVE  Books'
<1>1. ASSUME NEW p \in Proc, ProcStep(p)
      PROVE  Books'
  BY <1>1, BooksStep, OthersUntouched DEF Books, BooksOf, OthersStay
<1>2. CASE StrayRuns \/ UNCHANGED vars
  BY <1>2 DEF StrayRuns, StrayOutput, vars, callVars, graphVars, Books, BooksOf
<1> QED
  BY <1>1, <1>2 DEF Next, Rest, ProcStep

(* Steps at which the state file says running, or is about to change.      *)
Working == {"launch", "payload", "publish", "record"}

(* A step that makes nothing running and leaves the working calls alone.   *)
LEMMA StillHasWorker ==
  ASSUME RunningHasWorker, kills' = 0 => kills = 0,
         \A t \in Task : status'[t] = "running" => status[t] = "running",
         \A p \in Proc : \A t \in Task : at[p][t] \in Working => at'[p][t] = at[p][t]
  PROVE  RunningHasWorker'
  BY DEF RunningHasWorker, Working

(* A state file says running only while the call that wrote it has not     *)
(* recorded its verdict.                                                   *)
LEMMA WorkerKeepsWorker ==
  ASSUME LocalInv, RunningHasWorker, NEW p \in Proc, NEW t \in Task, WorkerRuns(p, t)
  PROVE  RunningHasWorker'
<1>1. WorkerTypeOK /\ CallOK(p, t) /\ UNCHANGED kills
  BY DEF LocalInv, WorkerInv, CallConsistent, WorkerRuns, boundVars
<1>2. \A q \in Proc : \A u \in Task : ~(q = p /\ u = t) => at'[q][u] = at[q][u]
  BY <1>1, WorkerMoves DEF WorkerRuns
<1>3. \A u \in Task : u # t => status'[u] = status[u]
  BY <1>1
  DEF WorkerRuns, WorkerStep, ChooseNumber, MakeAttemptDir, AttemptDirExists, AcceptLaunch,
      RejectLaunch, AnnounceAttempt, AnnounceState, Launch, LaunchFails, PayloadExits,
      PublishAttempt, RecordState, WriteTaskState, WorkerTypeOK, DiskTypeOK, diskVars, stateVars
<1>4. \/ at'[p][t] \in Working
      \/ at[p][t] \notin Working /\ status'[t] = status[t]
      \/ status'[t] # "running"
  BY <1>1
  DEF WorkerRuns, WorkerStep, ChooseNumber, MakeAttemptDir, AttemptDirExists, AcceptLaunch,
      RejectLaunch, AnnounceAttempt, AnnounceState, Launch, LaunchFails, PayloadExits,
      PublishAttempt, RecordState, WriteTaskState, WorkerTypeOK, DiskTypeOK, diskVars, stateVars,
      Goto, CallOK, Terminal, Working
<1> QED
  BY <1>1, <1>2, <1>3, <1>4 DEF RunningHasWorker, Working

(* Coordinators make no task running and forget only calls that returned   *)
(* or raised; a kill is counted.                                           *)
LEMMA RunningHasWorkerKept ==
  ASSUME LocalInv, Books, RunningHasWorker, [Next]_vars
  PROVE  RunningHasWorker'
<1>1. WorkerTypeOK /\ DiskTypeOK /\ ControlTypeOK /\ GraphTypeOK
  BY DEF LocalInv, Shape, LocalTypeOK, WorkerTypeOK
<1> USE DEF Working
<1>2. ASSUME NEW p \in Proc, IssueCommand(p)
      PROVE  RunningHasWorker'
  BY <1>1, <1>2, StillHasWorker
  DEF IssueCommand, IssueStart, CheckPrepare, IssueResume, IssueRetry, Issue, Enter, Goto,
      callVars, diskVars, stateVars, WorkerTypeOK
<1>3. ASSUME NEW p \in Proc, KillProcess(p) \/ Interrupt(p)
      PROVE  RunningHasWorker'
  BY <1>1, <1>3 DEF KillProcess, Interrupt, ControlTypeOK, RunningHasWorker
<1>4. ASSUME NEW p \in Proc, ScanTask(p)
      PROVE  RunningHasWorker'
  <2>1. /\ kills' = kills
        /\ \A t \in Task : status'[t] = "running" => status[t] = "running"
    BY <1>1, <1>4
    DEF ScanTask, SkipTask, BlockTask, SubmitTask, WriteStatusOnly, diskVars, stateVars, boundVars,
        DiskTypeOK
  <2>2. \A q \in Proc : \A t \in Task : at[q][t] \in Working => at'[q][t] = at[q][t]
    <3>1. PICK t \in Task : SkipTask(p, t) \/ BlockTask(p, t) \/ SubmitTask(p, t)
      BY <1>4 DEF ScanTask
    <3>2. CASE SubmitTask(p, t)
      <4>1. Goto(p, t, "idle", "choose")
        BY <3>2 DEF SubmitTask, Enter
      <4> QED
        BY <1>1, <4>1, GotoAt DEF WorkerPC
    <3> QED
      BY <3>1, <3>2 DEF SkipTask, BlockTask, callVars
  <2> QED
    BY <2>1, <2>2, StillHasWorker
<1>5. ASSUME NEW p \in Proc, CollectFutures(p) \/ DrainPool(p) \/ RetryReturns(p)
      PROVE  RunningHasWorker'
  <2>1. PICK T \in SUBSET Task : 
          /\ ForgetCalls(p, T)
          /\ \A t \in T : FutureDone(p, t)
    BY <1>1, <1>5 DEF CollectFutures, DrainPool, RetryReturns, GraphTypeOK, FutureDone
  <2>2. \A q \in Proc : \A t \in Task : at[q][t] \in Working => at'[q][t] = at[q][t]
    <3>1. \A q \in Proc : \A t \in Task : 
            at'[q][t] = IF q = p /\ t \in T THEN "idle" ELSE at[q][t]
      BY <1>1, <2>1, ForgetAt
    <3> QED
      BY <2>1, <3>1 DEF FutureDone, FutureReturned
  <2>3. UNCHANGED <<status, kills>>
    BY <1>5 DEF CollectFutures, DrainPool, RetryReturns, diskVars, stateVars, boundVars
  <2> QED
    BY <2>2, <2>3, StillHasWorker
<1>6. ASSUME NEW p \in Proc,
             \/ StartRuns(p) \/ StartEnds(p) \/ DeleteOutputs(p) \/ ResetTask(p)
             \/ ReadStates(p) \/ EndPass(p) \/ FutureRaises(p) \/ CountStates(p)
             \/ EnterPostflight(p) \/ RefusePostflight(p) \/ HookCompletes(p)
             \/ HookFails(p) \/ Exit(p)
      PROVE  RunningHasWorker'
  BY <1>1, <1>6, StillHasWorker
  DEF StartRuns, StartStep, WritePending, BeginAccepted, BeginRefused, CommitStart,
      UnlinkPending, CancelPrepared, StartEnds, DeleteOutputs, ResetTask, WriteStatusOnly,
      ReadStates, EndPass, FutureRaises, CountStates, EnterPostflight, RefusePostflight,
      HookCompletes, HookFails, Exit, callVars, diskVars, stateVars, boundVars, DiskTypeOK
<1>7. ASSUME NEW p \in Proc, NEW t \in Task, PoolRetries(p, t)
      PROVE  RunningHasWorker'
  BY <1>1, <1>7, StillHasWorker
  DEF PoolRetries, Goto, diskVars, stateVars, boundVars, WorkerTypeOK
<1>8. CASE StrayRuns \/ UNCHANGED vars
  BY <1>8, StillHasWorker
  DEF StrayRuns, StrayOutput, vars, callVars, diskVars, stateVars, boundVars
<1> QED
  BY <1>2, <1>3, <1>4, <1>5, <1>6, <1>7, <1>8, WorkerKeepsWorker
  DEF Next, Rest, Coordinate, Thread

----
(* One command at a time                                                   *)

(* The processes that run a command: at most one.                          *)
Alone == \A p, q \in Proc : ctl[p] # "idle" /\ ctl[q] # "idle" => p = q

(* Only the recovery of a queued backend writes interrupted.               *)
NoInterrupted == \A t \in Task : status[t] # "interrupted"

(* The state file of t while p has a call for it: pending or failed until  *)
(* the call announces running, its verdict once it returned.               *)
CallStage(p, t) ==
  /\ at[p][t] # "idle" => ParentsCompleted(t)
  /\ at[p][t] \in {"choose", "mkdir", "inspect", "announce", "running", "raised"} =>
       status[t] \in {"pending", "failed"}
  /\ at[p][t] \in {"launch", "payload"} => status[t] = "running"
  /\ at[p][t] \in {"publish", "record"} =>
       \/ status[t] = "running"
       \/ status[t] \in {"pending", "failed"} /\ verdict[p][t] = "failed"
  /\ at[p][t] \in {"publish", "record"} /\ verdict[p][t] = "completed" =>
       Outputs[t] \subseteq files
  /\ at[p][t] = "returned" => status[t] = verdict[p][t]

(* What a start or a resume has established before it reads the states.    *)
Prepared(p) ==
  /\ ctl[p] = "starting" => \A t \in Task : status[t] = "pending"
  /\ ctl[p] \in {"delete", "reset"} => \A t \in Task : status[t] # "running"
  /\ ctl[p] = "delete" =>
       \A t \in Task : status[t] = "completed" => doomed[p] \cap Outputs[t] = {}
  /\ ctl[p] = "reset" =>
       \A i \in 1 .. Len(TaskOrder) : i < cursor[p] => ~Resettable(TaskOrder[i])
  /\ ctl[p] = "read" => \A t \in Task : status[t] \in {"completed", "pending"}

(* The coordinator's view agrees with the state files.  A pass that has    *)
(* done nothing found a parent still to be settled for each task it met.   *)
ViewTrue(p) ==
  /\ ctl[p] \in {"scan", "wait"} => \A t \in remaining[p] : status[t] = "pending"
  /\ ctl[p] \in {"scan", "wait", "count"} =>
       \A t \in reconciled[p] : status[t] \in {"completed", "failed", "blocked"}
  /\ ctl[p] = "scan" /\ ~progressed[p] /\ running[p] = {} =>
       \A i \in 1 .. Len(TaskOrder) : i < cursor[p] /\ TaskOrder[i] \in remaining[p] =>
         ~(Parents[TaskOrder[i]] \subseteq reconciled[p])

(* Success is reported, and postflight run, only with every task completed.*)
SuccessTrue(p) ==
  /\ ctl[p] \in {"post", "hook"} => AllCompleted
  /\ ctl[p] = "ok" /\ job[p] \in {"start", "resume"} =>
       AllCompleted /\ (HasPostflight => hook = "done")

CtlOf(p) == Prepared(p) /\ ViewTrue(p) /\ SuccessTrue(p)

(* A task runs, or has run, only with its parents completed.               *)
RunInOrder ==
  \A t \in Task : status[t] \in {"running", "failed", "completed"} => ParentsCompleted(t)

SoloInv ==
  /\ NoInterrupted
  /\ RunInOrder
  /\ CompletedHasOutputs
  /\ \A p \in Proc : CtlOf(p) /\ \A t \in Task : CallStage(p, t)

(* A step of the lifecycle, which never takes a completed state back.      *)
LifecycleStep == [Abstract!LifecycleNext]_status

GoodSolo(p) ==
  /\ NoInterrupted' /\ RunInOrder' /\ CompletedHasOutputs'
  /\ CtlOf(p)'
  /\ \A t \in Task : CallStage(p, t)'
  /\ LifecycleStep

(* A step that changes no state file, no product and no call.              *)
LEMMA QuietSolo ==
  ASSUME SoloInv, NEW p \in Proc, UNCHANGED <<status, files, at, verdict>>, CtlOf(p)'
  PROVE  GoodSolo(p)
  BY DEF SoloInv, GoodSolo, NoInterrupted, RunInOrder, CompletedHasOutputs, CallStage,
      ParentsCompleted, LifecycleStep

(* The start protocol and the checks of start and resume.                  *)
LEMMA StartSolo ==
  ASSUME LocalInv, Books, SoloInv, NEW p \in Proc,
         \/ StartRuns(p) \/ StartEnds(p)
         \/ \E asked \in Policy : IssueStart(p, asked)
         \/ \E overwrite \in BOOLEAN : IssueResume(p, overwrite)
  PROVE  GoodSolo(p)
<1>1. ControlTypeOK /\ GraphTypeOK /\ DiskTypeOK /\ CtlOf(p)
  BY DEF LocalInv, Shape, LocalTypeOK, WorkerTypeOK, SoloInv
<1>2. UNCHANGED <<status, files, at, verdict>>
  BY DEF StartRuns, StartStep, WritePending, BeginAccepted, BeginRefused, CommitStart,
      UnlinkPending, CancelPrepared, StartEnds, IssueStart, IssueResume, CheckPrepare,
      callVars, diskVars, stateVars, fileVars
<1>3. ASSUME StartRuns(p)
      PROVE  CtlOf(p)'
  <2>1. ctl[p] = "starting" /\ ctl' = ctl
    BY <1>3 DEF StartRuns
  <2> QED
    BY <1>1, <1>2, <2>1 DEF CtlOf, Prepared, ViewTrue, SuccessTrue
<1>4. ASSUME StartEnds(p)
      PROVE  CtlOf(p)'
  <2>1. ctl[p] = "starting" /\ ctl'[p] \in {"read", "failed"}
    BY <1>1, <1>4 DEF StartEnds, Step, ControlTypeOK
  <2> QED
    BY <1>1, <1>2, <2>1 DEF CtlOf, Prepared, ViewTrue, SuccessTrue
<1>5. ASSUME \E asked \in Policy : IssueStart(p, asked)
      PROVE  CtlOf(p)'
  <2>1. ctl'[p] = "starting" /\ \A t \in Task : status[t] = "pending"
    BY <1>1, <1>5 DEF IssueStart, Issue, CheckPrepare, Unstarted, Step, ControlTypeOK
  <2> QED
    BY <1>1, <1>2, <2>1 DEF CtlOf, Prepared, ViewTrue, SuccessTrue
<1>6. ASSUME NEW overwrite \in BOOLEAN, IssueResume(p, overwrite)
      PROVE  CtlOf(p)'
  <2>1. ctl'[p] = (IF overwrite THEN "delete" ELSE "reset") /\ cursor'[p] = 1
    BY <1>1, <1>6 DEF IssueResume, Issue, Step, ControlTypeOK, GraphTypeOK
  <2>2. \A t \in Task : status[t] # "running"
    BY <1>6 DEF IssueResume, ResumeAllowed
  <2>3. \A t \in Task : overwrite /\ status[t] = "completed" => doomed'[p] \cap Outputs[t] = {}
    <3> SUFFICES ASSUME NEW t \in Task, overwrite, status[t] = "completed"
                 PROVE  doomed'[p] \cap Outputs[t] = {}
      OBVIOUS
    <3>1. doomed'[p] =
            files \cap UNION {Outputs[v] : v \in {u \in Task : status[u] # "completed"}}
      BY <1>1, <1>6 DEF IssueResume, GraphTypeOK
    <3> QED
      BY <3>1, GraphAssumption
  <2> QED
    BY <1>2, <2>1, <2>2, <2>3, LenTaskOrder DEF CtlOf, Prepared, ViewTrue, SuccessTrue
<1> QED
  BY <1>2, <1>3, <1>4, <1>5, <1>6, QuietSolo

(* A task is passed over by a pass that has done nothing only if a parent  *)
(* is not settled: with all of them settled, and a thread free, it would   *)
(* be blocked or submitted.                                                *)
LEMMA SkipSolo ==
  ASSUME LocalInv, Books, SoloInv, NEW p \in Proc, NEW t \in Task, SkipTask(p, t)
  PROVE  GoodSolo(p)
<1>1. GraphTypeOK /\ CtlOf(p)
  BY DEF LocalInv, Shape, LocalTypeOK, SoloInv
<1>2. /\ ctl[p] = "scan" /\ t = TaskOrder[cursor[p]]
      /\ cursor'[p] = cursor[p] + 1
      /\ UNCHANGED <<status, files, at, verdict, ctl, job, reconciled, remaining, running,
                     progressed, hook>>
  BY <1>1
  DEF SkipTask, AtCursor, Advance, callVars, diskVars, stateVars, fileVars, GraphTypeOK
<1>3. ASSUME running[p] = {}, t \in remaining[p]
      PROVE  ~(Parents[t] \subseteq reconciled[p])
  <2>1. Cardinality(running[p]) < Jobs
    BY <1>3, LocalAssumption, FS_EmptySet
  <2>2. Parents[t] \subseteq reconciled[p] => ParentFailed(t) \/ ParentsCompleted(t)
    BY <1>1, <1>2 DEF CtlOf, ViewTrue, ParentFailed, ParentsCompleted
  <2> QED
    BY <1>3, <2>1, <2>2 DEF SkipTask, Ready
<1>4. CtlOf(p)'
  <2> SUFFICES ASSUME ~progressed[p], running[p] = {}, NEW i \in 1 .. Len(TaskOrder),
                      i < cursor[p] + 1, TaskOrder[i] \in remaining[p]
               PROVE  ~(Parents[TaskOrder[i]] \subseteq reconciled[p])
    BY <1>1, <1>2 DEF CtlOf, Prepared, ViewTrue, SuccessTrue
  <2>1. i = cursor[p] \/ i < cursor[p]
    BY <1>1, LenTaskOrder DEF GraphTypeOK
  <2> QED
    BY <2>1, <1>1, <1>2, <1>3 DEF CtlOf, ViewTrue
<1> QED
  BY <1>2, <1>4, QuietSolo

(* What the coordinator reads is what it then believes.                    *)
LEMMA ReadStatesSolo ==
  ASSUME LocalInv, Books, SoloInv, NEW p \in Proc, ReadStates(p)
  PROVE  GoodSolo(p)
<1>1. ControlTypeOK /\ GraphTypeOK /\ CtlOf(p)
  BY DEF LocalInv, Shape, LocalTypeOK, SoloInv
<1>2. /\ ctl[p] = "read" /\ ctl'[p] \in {"count", "scan"}
      /\ reconciled'[p] = {t \in Task : status[t] = "completed"}
      /\ remaining'[p] = Task \ reconciled'[p]
      /\ cursor'[p] = 1
      /\ UNCHANGED <<status, files, at, verdict>>
  BY <1>1
  DEF ReadStates, Step, ControlTypeOK, GraphTypeOK, callVars, diskVars, stateVars, fileVars
<1>3. CtlOf(p)'
  BY <1>1, <1>2, LenTaskOrder DEF CtlOf, Prepared, ViewTrue, SuccessTrue
<1> QED
  BY <1>2, <1>3, QuietSolo

(* The other steps of a coordinator that only move it on.                  *)
LEMMA MoveSolo ==
  ASSUME LocalInv, Books, SoloInv, NEW p \in Proc,
         \/ EndPass(p) \/ FutureRaises(p) \/ RefusePostflight(p) \/ HookFails(p)
         \/ Exit(p) \/ Interrupt(p) \/ EnterPostflight(p) \/ HookCompletes(p)
  PROVE  GoodSolo(p)
<1>1. ControlTypeOK /\ GraphTypeOK /\ CtlOf(p)
  BY DEF LocalInv, Shape, LocalTypeOK, SoloInv
<1>2. UNCHANGED <<status, files, at, verdict>>
  BY DEF EndPass, FutureRaises, RefusePostflight, HookFails, Exit, Interrupt, EnterPostflight,
      HookCompletes, callVars, diskVars, stateVars, fileVars
<1>3. ASSUME EndPass(p)
      PROVE  CtlOf(p)'
  <2>1. /\ ctl[p] = "scan" /\ ctl'[p] \in {"wait", "failed", "count", "scan"}
        /\ cursor'[p] = 1
        /\ UNCHANGED <<reconciled, remaining, running>>
    BY <1>1, <1>3 DEF EndPass, Step, AfterPass, ControlTypeOK, GraphTypeOK
  <2> QED
    BY <1>1, <1>2, <2>1, LenTaskOrder DEF CtlOf, Prepared, ViewTrue, SuccessTrue
<1>4. ASSUME FutureRaises(p) \/ RefusePostflight(p) \/ HookFails(p) \/ Exit(p) \/ Interrupt(p)
      PROVE  CtlOf(p)'
  <2>1. ctl'[p] \in {"drain", "failed", "idle"}
    BY <1>1, <1>4
    DEF FutureRaises, RefusePostflight, HookFails, Exit, Interrupt, Step, ControlTypeOK
  <2> QED
    BY <2>1 DEF CtlOf, Prepared, ViewTrue, SuccessTrue
<1>5. ASSUME EnterPostflight(p) \/ HookCompletes(p)
      PROVE  CtlOf(p)'
  <2>1. \/ ctl'[p] = "hook"
        \/ ctl'[p] = "ok" /\ hook' = "done"
    BY <1>1, <1>5 DEF EnterPostflight, HookCompletes, Step, ControlTypeOK
  <2>2. AllCompleted
    BY <1>1, <1>5 DEF EnterPostflight, HookCompletes, Step, CtlOf, SuccessTrue
  <2> QED
    BY <1>2, <2>1, <2>2 DEF CtlOf, Prepared, ViewTrue, SuccessTrue, AllCompleted
<1> QED
  BY <1>2, <1>3, <1>4, <1>5, QuietSolo

(* With every task settled, none failed and none blocked, all completed.   *)
LEMMA CountStatesSolo ==
  ASSUME LocalInv, Books, SoloInv, NEW p \in Proc, CountStates(p)
  PROVE  GoodSolo(p)
<1>1. ControlTypeOK /\ BooksOf(p) /\ CtlOf(p)
  BY DEF LocalInv, Shape, LocalTypeOK, Books, SoloInv
<1>2. /\ ctl[p] = "count"
      /\ ctl'[p] = IF AnyUnsuccessful THEN "failed"
                    ELSE IF WantsPostflight(p) THEN "post" ELSE "ok"
      /\ UNCHANGED <<status, files, at, verdict, job, hook>>
  BY <1>1 DEF CountStates, Step, ControlTypeOK, callVars, diskVars, stateVars, fileVars
<1>3. ~AnyUnsuccessful => AllCompleted
  BY <1>1, <1>2 DEF BooksOf, CtlOf, ViewTrue, AnyUnsuccessful, AllCompleted
<1>4. CtlOf(p)'
  BY <1>2, <1>3 DEF CtlOf, Prepared, ViewTrue, SuccessTrue, AllCompleted, WantsPostflight
<1> QED
  BY <1>2, <1>4, QuietSolo

(* A killed process leaves only files behind.                              *)
LEMMA KillSolo ==
  ASSUME LocalInv, SoloInv, NEW p \in Proc, KillProcess(p)
  PROVE  GoodSolo(p)
<1>1. ControlTypeOK /\ WorkerTypeOK
  BY DEF LocalInv, Shape, LocalTypeOK
<1>2. /\ ctl'[p] = "idle"
      /\ \A t \in Task : at'[p][t] = "idle"
      /\ UNCHANGED <<status, files>>
  BY <1>1 DEF KillProcess, KillCalls, ForgetCalls, ControlTypeOK, WorkerTypeOK, stateVars
<1> QED
  BY <1>2
  DEF SoloInv, GoodSolo, CtlOf, Prepared, ViewTrue, SuccessTrue, CallStage, NoInterrupted,
      RunInOrder, CompletedHasOutputs, ParentsCompleted, LifecycleStep

(* The outputs that are deleted belong to tasks not completed.             *)
LEMMA DeleteSolo ==
  ASSUME LocalInv, Books, SoloInv, NEW p \in Proc, DeleteOutputs(p)
  PROVE  GoodSolo(p)
<1>1. ControlTypeOK /\ BooksOf(p) /\ CtlOf(p)
  BY DEF LocalInv, Shape, LocalTypeOK, Books, SoloInv
<1>2. /\ ctl[p] = "delete" /\ ctl'[p] = "reset"
      /\ files' = files \ doomed[p]
      /\ UNCHANGED <<status, at, verdict, cursor>>
  BY <1>1 DEF DeleteOutputs, Step, ControlTypeOK, callVars, stateVars
<1>3. cursor[p] = 1 /\ \A t \in Task : at[p][t] = "idle"
  BY <1>1, <1>2 DEF BooksOf
<1>4. CtlOf(p)'
  BY <1>1, <1>2, <1>3, LenTaskOrder DEF CtlOf, Prepared, ViewTrue, SuccessTrue
<1>5. CompletedHasOutputs'
  BY <1>1, <1>2 DEF SoloInv, CompletedHasOutputs, CtlOf, Prepared
<1>6. \A t \in Task : CallStage(p, t)'
  BY <1>2, <1>3 DEF CallStage
<1> QED
  BY <1>2, <1>4, <1>5, <1>6
  DEF SoloInv, GoodSolo, NoInterrupted, RunInOrder, ParentsCompleted, LifecycleStep

(* Only an unsuccessful task is set back; the pass ends with each task     *)
(* completed or pending.                                                   *)
LEMMA ResetSolo ==
  ASSUME LocalInv, Books, SoloInv, NEW p \in Proc, ResetTask(p)
  PROVE  GoodSolo(p)
<1> DEFINE t == TaskOrder[cursor[p]]
<1>1. ControlTypeOK /\ GraphTypeOK /\ DiskTypeOK /\ BooksOf(p) /\ CtlOf(p)
  BY DEF LocalInv, Shape, LocalTypeOK, WorkerTypeOK, Books, SoloInv
<1>2. cursor[p] \in 1 .. Len(TaskOrder) /\ t \in Task
  BY <1>1, LenTaskOrder, LocalAssumption DEF ResetTask, GraphTypeOK
<1>3. /\ ctl[p] = "reset"
      /\ ctl'[p] = IF cursor[p] = Len(TaskOrder) THEN "read" ELSE "reset"
      /\ cursor'[p] = cursor[p] + 1
      /\ UNCHANGED <<files, at, verdict>>
  BY <1>1 DEF ResetTask, Step, ControlTypeOK, GraphTypeOK, callVars, fileVars
<1>4. \A u \in Task : 
        status'[u] = IF u = t /\ Resettable(t) THEN "pending" ELSE status[u]
  BY <1>1, <1>2 DEF ResetTask, WriteStatusOnly, stateVars, DiskTypeOK
<1>5. \A u \in Task : at[p][u] = "idle"
  BY <1>1, <1>3 DEF BooksOf
<1>6. \A i \in 1 .. Len(TaskOrder) : i < cursor[p] + 1 => ~Resettable(TaskOrder[i])'
  <2>1. \A i \in 1 .. Len(TaskOrder) : TaskOrder[i] \in Task
    BY LocalAssumption
  <2>2. \A i \in 1 .. Len(TaskOrder) : i < cursor[p] + 1 => i = cursor[p] \/ i < cursor[p]
    BY <1>2, LenTaskOrder
  <2> QED
    BY <1>1, <1>3, <1>4, <2>1, <2>2 DEF CtlOf, Prepared, Resettable
<1>7. CtlOf(p)'
  <2>1. CASE cursor[p] # Len(TaskOrder)
    BY <2>1, <1>1, <1>3, <1>4, <1>6 DEF CtlOf, Prepared, ViewTrue, SuccessTrue
  <2>2. CASE cursor[p] = Len(TaskOrder)
    <3>1. ASSUME NEW u \in Task
          PROVE  ~Resettable(u)'
      <4>1. PICK i \in 1 .. Len(TaskOrder) : TaskOrder[i] = u
        BY LocalAssumption
      <4>2. i < cursor[p] + 1
        BY <2>2, LenTaskOrder
      <4> QED
        BY <4>1, <4>2, <1>6 DEF Resettable
    <3>2. \A u \in Task : status'[u] \in {"completed", "pending"}
      BY <3>1, <1>1, <1>3, <1>4
      DEF SoloInv, NoInterrupted, DiskTypeOK, TaskStatus, Terminal, Resettable, CtlOf, Prepared
    <3> QED
      BY <2>2, <3>2, <1>3 DEF CtlOf, Prepared, ViewTrue, SuccessTrue
  <2> QED
    BY <2>1, <2>2
<1>8. NoInterrupted' /\ RunInOrder' /\ CompletedHasOutputs'
  BY <1>3, <1>4, GraphAssumption
  DEF SoloInv, NoInterrupted, RunInOrder, CompletedHasOutputs, ParentsCompleted, Resettable
<1>9. LifecycleStep
  <2>1. CASE Resettable(t)
    BY <2>1, <1>2 
    DEF ResetTask, WriteStatusOnly, Resettable, LifecycleStep, Abstract!LifecycleNext,
        Abstract!SetBack, Abstract!Become
  <2>2. CASE ~Resettable(t)
    BY <2>2 DEF ResetTask, stateVars, LifecycleStep
  <2> QED
    BY <2>1, <2>2
<1> QED
  BY <1>3, <1>5, <1>7, <1>8, <1>9 DEF GoodSolo, CallStage

(* A task the coordinator blocks is pending, and no parent of a running    *)
(* task.                                                                   *)
LEMMA BlockSolo ==
  ASSUME LocalInv, Books, SoloInv, NEW p \in Proc, NEW t \in Task, BlockTask(p, t)
  PROVE  GoodSolo(p)
<1>1. GraphTypeOK /\ DiskTypeOK /\ BooksOf(p) /\ CtlOf(p)
  BY DEF LocalInv, Shape, LocalTypeOK, WorkerTypeOK, Books, SoloInv
<1>2. /\ ctl[p] = "scan" /\ t \in remaining[p] /\ progressed'[p] = TRUE
      /\ remaining'[p] = remaining[p] \ {t}
      /\ reconciled'[p] = reconciled[p] \cup {t}
      /\ UNCHANGED <<files, at, verdict, ctl>>
  BY <1>1 DEF BlockTask, AtCursor, Ready, callVars, fileVars, GraphTypeOK
<1>3. \A u \in Task : status'[u] = IF u = t THEN "blocked" ELSE status[u]
  BY <1>1 DEF BlockTask, WriteStatusOnly, DiskTypeOK
<1>4. status[t] = "pending" /\ at[p][t] = "idle"
  BY <1>1, <1>2 DEF BooksOf, CtlOf, ViewTrue
<1>5. CtlOf(p)'
  <2>1. \A u \in remaining'[p] : status'[u] = "pending"
    BY <1>1, <1>2, <1>3 DEF CtlOf, ViewTrue, GraphTypeOK
  <2>2. \A u \in reconciled'[p] : status'[u] \in {"completed", "failed", "blocked"}
    BY <1>1, <1>2, <1>3 DEF CtlOf, ViewTrue, GraphTypeOK
  <2> QED
    BY <1>2, <2>1, <2>2 DEF CtlOf, Prepared, ViewTrue, SuccessTrue
<1>6. \A u \in Task : ParentsCompleted(u) => ParentsCompleted(u)'
  BY <1>3, <1>4, GraphAssumption DEF ParentsCompleted
<1>7. \A u \in Task : CallStage(p, u)'
  BY <1>2, <1>3, <1>4, <1>6 DEF SoloInv, CallStage
<1>8. NoInterrupted' /\ RunInOrder' /\ CompletedHasOutputs'
  BY <1>2, <1>3, <1>6 DEF SoloInv, NoInterrupted, RunInOrder, CompletedHasOutputs
<1>9. LifecycleStep
  BY <1>4
  DEF BlockTask, ParentFailed, WriteStatusOnly, LifecycleStep, Abstract!LifecycleNext,
      Abstract!Block, Abstract!Become
<1> QED
  BY <1>5, <1>7, <1>8, <1>9 DEF GoodSolo

(* A task is submitted while it is pending and its parents are completed.  *)
LEMMA SubmitSolo ==
  ASSUME LocalInv, Books, SoloInv, NEW p \in Proc, NEW t \in Task, SubmitTask(p, t)
  PROVE  GoodSolo(p)
<1>1. GraphTypeOK /\ WorkerTypeOK /\ CtlOf(p)
  BY DEF LocalInv, Shape, LocalTypeOK, SoloInv
<1>2. /\ ctl[p] = "scan" /\ t \in remaining[p] /\ progressed'[p] = TRUE
      /\ remaining'[p] = remaining[p] \ {t}
      /\ UNCHANGED <<status, files, verdict, ctl, reconciled>>
      /\ ParentsCompleted(t)
  BY <1>1 DEF SubmitTask, AtCursor, Ready, diskVars, stateVars, fileVars, GraphTypeOK
<1>3. \A u \in Task : at'[p][u] = IF u = t THEN "choose" ELSE at[p][u]
  BY <1>1, GotoAt DEF SubmitTask, Enter, WorkerPC
<1>4. status[t] = "pending"
  BY <1>1, <1>2 DEF CtlOf, ViewTrue
<1>5. CtlOf(p)'
  BY <1>1, <1>2 DEF CtlOf, Prepared, ViewTrue, SuccessTrue
<1>6. \A u \in Task : CallStage(p, u)'
  BY <1>2, <1>3, <1>4 DEF SoloInv, CallStage, ParentsCompleted
<1> QED
  BY <1>2, <1>5, <1>6
  DEF SoloInv, GoodSolo, NoInterrupted, RunInOrder, CompletedHasOutputs, ParentsCompleted,
      LifecycleStep

(* A failed task is tried again, by retry or by the pool.                  *)
LEMMA AgainSolo ==
  ASSUME LocalInv, Books, SoloInv, NEW p \in Proc, NEW t \in Task,
         IssueRetry(p, t) \/ PoolRetries(p, t)
  PROVE  GoodSolo(p)
<1>1. GraphTypeOK /\ ControlTypeOK /\ WorkerTypeOK /\ CtlOf(p)
  BY DEF LocalInv, Shape, LocalTypeOK, SoloInv
<1>2. UNCHANGED <<status, files, verdict, hook, reconciled, remaining, cursor, progressed>>
  BY DEF IssueRetry, PoolRetries, diskVars, stateVars, fileVars
<1>3. \A u \in Task : at'[p][u] = IF u = t THEN "choose" ELSE at[p][u]
  BY <1>1, GotoAt DEF IssueRetry, PoolRetries, Enter, WorkerPC
<1>4. status[t] = "failed"
  BY DEF IssueRetry, PoolRetries, SoloInv, CallStage, Goto
<1>5. CtlOf(p)'
  <2>1. CASE IssueRetry(p, t)
    <3>1. ctl'[p] = "retry"
      BY <2>1, <1>1 DEF IssueRetry, Issue, Step, ControlTypeOK
    <3> QED
      BY <3>1 DEF CtlOf, Prepared, ViewTrue, SuccessTrue
  <2>2. CASE PoolRetries(p, t)
    <3>1. UNCHANGED <<ctl, job, running, doomed>>
      BY <2>2 DEF PoolRetries
    <3> QED
      BY <1>1, <1>2, <3>1 DEF CtlOf, Prepared, ViewTrue, SuccessTrue, Resettable, AllCompleted
  <2> QED
    BY <2>1, <2>2
<1>6. \A u \in Task : CallStage(p, u)'
  BY <1>2, <1>3, <1>4 DEF SoloInv, RunInOrder, CallStage, ParentsCompleted
<1> QED
  BY <1>2, <1>5, <1>6
  DEF SoloInv, GoodSolo, NoInterrupted, RunInOrder, CompletedHasOutputs, ParentsCompleted,
      LifecycleStep

(* A future that returned has its task settled, as its verdict.            *)
LEMMA CollectSolo ==
  ASSUME LocalInv, Books, SoloInv, NEW p \in Proc,
         CollectFutures(p) \/ DrainPool(p) \/ RetryReturns(p)
  PROVE  GoodSolo(p)
<1>1. GraphTypeOK /\ ControlTypeOK /\ WorkerTypeOK /\ BooksOf(p) /\ CtlOf(p)
  BY DEF LocalInv, Shape, LocalTypeOK, Books, SoloInv
<1>2. UNCHANGED <<status, files>>
  BY DEF CollectFutures, DrainPool, RetryReturns, diskVars, stateVars, fileVars
<1>3. PICK T \in SUBSET Task : ForgetCalls(p, T)
  BY <1>1 DEF CollectFutures, DrainPool, RetryReturns, GraphTypeOK
<1>4. \A t \in Task : \/ at'[p][t] = "idle"
                      \/ at'[p][t] = at[p][t] /\ verdict'[p][t] = verdict[p][t]
  BY <1>1, <1>3 DEF WorkerTypeOK, ForgetCalls
<1>5. \A t \in Task : CallStage(p, t)'
  BY <1>2, <1>4 DEF SoloInv, CallStage, ParentsCompleted
<1>6. ASSUME CollectFutures(p)
      PROVE  CtlOf(p)'
  <2>1. PICK done \in SUBSET {t \in running[p] : FutureReturned(p, t)} :
          /\ reconciled' = [reconciled EXCEPT ![p] = @ \cup done]
          /\ Step(p, "wait", IF remaining[p] \cup (running[p] \ done) = {}
                             THEN "count" ELSE "scan")
          /\ UNCHANGED <<remaining, cursor>>
    BY <1>6 DEF CollectFutures
  <2>2. \A t \in done : status[t] \in {"completed", "failed"}
    <3> SUFFICES ASSUME NEW t \in done
                 PROVE  status[t] \in {"completed", "failed"}
      OBVIOUS
    <3>1. t \in Task /\ at[p][t] = "returned"
      BY <1>1, <2>1 DEF FutureReturned, GraphTypeOK
    <3> QED
      BY <3>1 DEF SoloInv, CallStage, LocalInv, WorkerInv, CallConsistent, CallOK, Terminal
  <2>3. /\ ctl[p] = "wait" /\ ctl'[p] \in {"count", "scan"} /\ cursor'[p] = 1
        /\ reconciled'[p] = reconciled[p] \cup done
        /\ remaining'[p] = remaining[p]
    BY <1>1, <2>1 DEF Step, ControlTypeOK, GraphTypeOK, BooksOf
  <2> QED
    BY <1>1, <1>2, <2>2, <2>3, LenTaskOrder DEF CtlOf, Prepared, ViewTrue, SuccessTrue
<1>7. ASSUME DrainPool(p) \/ RetryReturns(p)
      PROVE  CtlOf(p)'
  <2>1. /\ ctl'[p] \in {"ok", "failed"}
        /\ ctl'[p] = "ok" => job'[p] = "retry"
    BY <1>1, <1>7 DEF DrainPool, RetryReturns, Step, ControlTypeOK, BooksOf
  <2> QED
    BY <2>1 DEF CtlOf, Prepared, ViewTrue, SuccessTrue
<1> QED
  BY <1>2, <1>5, <1>6, <1>7
  DEF SoloInv, GoodSolo, NoInterrupted, RunInOrder, CompletedHasOutputs, ParentsCompleted,
      LifecycleStep

(* run_task goes through the states of the lifecycle, and records success  *)
(* only after it found every output.                                       *)
LEMMA WorkerSolo ==
  ASSUME LocalInv, Books, SoloInv, NEW p \in Proc, NEW t \in Task, WorkerRuns(p, t)
  PROVE  GoodSolo(p)
<1>1. /\ GraphTypeOK /\ WorkerTypeOK /\ DiskTypeOK /\ BooksOf(p) /\ CtlOf(p)
      /\ CallStage(p, t) /\ CallOK(p, t)
  BY DEF LocalInv, Shape, LocalTypeOK, WorkerTypeOK, Books, SoloInv, WorkerInv, CallConsistent
<1>2. /\ UNCHANGED <<ctl, job, reconciled, remaining, running, cursor, progressed, doomed, hook>>
      /\ files \subseteq files'
  BY DEF WorkerRuns, WorkerStep, ChooseNumber, MakeAttemptDir, AttemptDirExists, AcceptLaunch,
      RejectLaunch, AnnounceAttempt, AnnounceState, Launch, LaunchFails, PayloadExits,
      PublishAttempt, RecordState, graphVars, diskVars, fileVars
<1>3. at[p][t] \notin {"idle", "returned", "raised"} /\ at'[p][t] # "idle"
  BY <1>1
  DEF WorkerRuns, WorkerStep, ChooseNumber, MakeAttemptDir, AttemptDirExists, AcceptLaunch,
      RejectLaunch, AnnounceAttempt, AnnounceState, Launch, LaunchFails, PayloadExits,
      PublishAttempt, RecordState, Goto, WorkerTypeOK
<1>4. \A u \in Task : u # t => /\ at'[p][u] = at[p][u]
                               /\ verdict'[p][u] = verdict[p][u]
                               /\ status'[u] = status[u]
  BY <1>1
  DEF WorkerRuns, WorkerStep, ChooseNumber, MakeAttemptDir, AttemptDirExists, AcceptLaunch,
      RejectLaunch, AnnounceAttempt, AnnounceState, Launch, LaunchFails, PayloadExits,
      PublishAttempt, RecordState, WriteTaskState, Goto, WorkerTypeOK, DiskTypeOK, diskVars,
      stateVars
<1>5. /\ t \in running[p] /\ ctl[p] \in {"scan", "wait", "drain", "retry"}
      /\ ctl[p] \in {"scan", "wait"} => t \notin remaining[p] /\ t \notin reconciled[p]
  BY <1>1, <1>3 DEF BooksOf
<1>6. ParentsCompleted(t) /\ status[t] # "completed" /\ t \notin Parents[t]
  <2>1. ParentsCompleted(t) /\ status[t] # "completed"
    BY <1>1, <1>3 DEF CallStage, WorkerTypeOK, WorkerPC
  <2> QED
    BY <2>1 DEF ParentsCompleted
<1>7. \A u \in Task : ParentsCompleted(u) => ParentsCompleted(u)'
  BY <1>4, <1>6, GraphAssumption DEF ParentsCompleted
<1>8. CtlOf(p)'
  BY <1>1, <1>2, <1>4, <1>5, SMT, ZenonT(40) DEF CtlOf, Prepared, ViewTrue, SuccessTrue, GraphTypeOK
<1>9. CallStage(p, t)' /\ (status'[t] = "completed" => Outputs[t] \subseteq files')
      /\ status'[t] # "interrupted"
  BY <1>1, <1>3, <1>6, <1>7
  DEF SoloInv, NoInterrupted, CallStage, CallOK, Terminal,
      WorkerRuns, WorkerStep, ChooseNumber, MakeAttemptDir, AttemptDirExists, AcceptLaunch,
      RejectLaunch, AnnounceAttempt, AnnounceState, Launch, LaunchFails, PayloadExits,
      PublishAttempt, RecordState, WriteTaskState, Goto, WorkerTypeOK, DiskTypeOK, diskVars,
      stateVars, fileVars
<1>10. \A u \in Task : CallStage(p, u)'
  BY <1>2, <1>4, <1>7, <1>9 DEF SoloInv, CallStage
<1>11. NoInterrupted' /\ RunInOrder' /\ CompletedHasOutputs'
  BY <1>2, <1>4, <1>6, <1>7, <1>9 DEF SoloInv, NoInterrupted, RunInOrder, CompletedHasOutputs
<1>12. LifecycleStep
  <2>1. CASE AnnounceState(p, t)
    BY <2>1, <1>1, <1>6
    DEF AnnounceState, WriteTaskState, Goto, CallStage, LifecycleStep, Abstract!LifecycleNext,
        Abstract!Run, Abstract!Become, Abstract!ParentsDone, ParentsCompleted
  <2>2. CASE RecordState(p, t)
    BY <2>2, <1>1, <1>6
    DEF RecordState, WriteTaskState, Goto, CallStage, CallOK, Terminal, LifecycleStep,
        Abstract!LifecycleNext, Abstract!Complete, Abstract!Fail, Abstract!Reject,
        Abstract!Become, Abstract!ParentsDone, ParentsCompleted
  <2>3. CASE UNCHANGED status
    BY <2>3 DEF LifecycleStep
  <2> QED
    BY <2>1, <2>2, <2>3
    DEF WorkerRuns, WorkerStep, ChooseNumber, MakeAttemptDir, AttemptDirExists, AcceptLaunch,
        RejectLaunch, AnnounceAttempt, Launch, LaunchFails, PayloadExits, PublishAttempt,
        diskVars, stateVars
<1> QED
  BY <1>8, <1>10, <1>11, <1>12 DEF GoodSolo

(* A late output only adds a file.                                         *)
LEMMA StraySolo ==
  ASSUME SoloInv, StrayRuns
  PROVE  SoloInv' /\ LifecycleStep
<1>1. /\ UNCHANGED <<status, at, verdict, ctl, job, reconciled, remaining, running, cursor,
                     progressed, doomed, hook>>
      /\ files \subseteq files'
  BY DEF StrayRuns, StrayOutput, stateVars, callVars, graphVars
<1>2. NoInterrupted' /\ RunInOrder' /\ CompletedHasOutputs' /\ LifecycleStep
  BY <1>1
  DEF SoloInv, NoInterrupted, RunInOrder, CompletedHasOutputs, ParentsCompleted, LifecycleStep
<1>3. \A p \in Proc : CtlOf(p)'
  BY <1>1
  DEF SoloInv, CtlOf, Prepared, ViewTrue, SuccessTrue, Resettable, AllCompleted
<1>4. \A p \in Proc : \A t \in Task : CallStage(p, t)'
  BY <1>1 DEF SoloInv, CallStage, ParentsCompleted
<1> QED
  BY <1>2, <1>3, <1>4 DEF SoloInv

(* Every step of a process that is alone keeps the invariant and is a step *)
(* of the lifecycle.                                                       *)
LEMMA ProcSolo ==
  ASSUME LocalInv, Books, SoloInv, NEW p \in Proc, ProcStep(p)
  PROVE  GoodSolo(p)
<1>1. ASSUME IssueCommand(p)
      PROVE  GoodSolo(p)
  <2>1. ASSUME NEW overwrite \in Overwrite,
               IssueStart(p, IF overwrite THEN "overwrite" ELSE "keep")
        PROVE  GoodSolo(p)
    <3>1. (IF overwrite THEN "overwrite" ELSE "keep") \in Policy
      BY DEF Policy
    <3> QED
      BY <2>1, <3>1, StartSolo
  <2>2. ASSUME NEW overwrite \in Overwrite, IssueResume(p, overwrite)
        PROVE  GoodSolo(p)
    <3>1. overwrite \in BOOLEAN
      BY LocalAssumption
    <3> QED
      BY <2>2, <3>1, StartSolo
  <2> QED
    BY <1>1, <2>1, <2>2, AgainSolo DEF IssueCommand
<1>2. ASSUME Coordinate(p)
      PROVE  GoodSolo(p)
  <2>1. CASE ScanTask(p)
    BY <2>1, SkipSolo, BlockSolo, SubmitSolo DEF ScanTask
  <2> QED
    BY <1>2, <2>1, StartSolo, DeleteSolo, ResetSolo, ReadStatesSolo, MoveSolo, CollectSolo,
       CountStatesSolo
    DEF Coordinate
<1>3. ASSUME NEW t \in Task, Thread(p, t)
      PROVE  GoodSolo(p)
  BY <1>3, WorkerSolo, AgainSolo DEF Thread
<1> QED
  BY <1>1, <1>2, <1>3, KillSolo, MoveSolo DEF ProcStep

(* A process that steps runs a command before or after its step.           *)
LEMMA StepperLive ==
  ASSUME LocalInv, Books, NEW p \in Proc, ProcStep(p)
  PROVE  ctl[p] # "idle" \/ ctl'[p] # "idle"
<1>1. ControlTypeOK /\ WorkerTypeOK /\ BooksOf(p)
  BY DEF LocalInv, Shape, LocalTypeOK, Books
<1>2. CASE IssueCommand(p)
  BY <1>1, <1>2
  DEF IssueCommand, IssueStart, IssueResume, IssueRetry, Issue, Step, ControlTypeOK
<1>3. CASE Coordinate(p) \/ KillProcess(p) \/ Interrupt(p)
  <2>1. CASE StartEnds(p)
    BY <2>1 DEF StartEnds, Step
  <2>2. CASE ScanTask(p)
    BY <2>2 DEF ScanTask, SkipTask, BlockTask, SubmitTask, AtCursor
  <2> QED
    BY <1>3, <2>1, <2>2
    DEF Coordinate, StartRuns, DeleteOutputs, ResetTask, ReadStates, EndPass, CollectFutures,
        FutureRaises, DrainPool, CountStates, EnterPostflight, RefusePostflight, HookCompletes,
        HookFails, RetryReturns, Exit, KillProcess, Interrupt, Step
<1>4. ASSUME NEW t \in Task, Thread(p, t)
      PROVE  ctl[p] # "idle"
  <2>1. at[p][t] # "idle"
    <3>1. CASE PoolRetries(p, t)
      BY <3>1 DEF PoolRetries, Goto
    <3>2. CASE WorkerRuns(p, t)
      BY <3>2
      DEF WorkerRuns, WorkerStep, ChooseNumber, MakeAttemptDir, AttemptDirExists, AcceptLaunch,
          RejectLaunch, AnnounceAttempt, AnnounceState, Launch, LaunchFails, PayloadExits,
          PublishAttempt, RecordState, Goto
    <3> QED
      BY <1>4, <3>1, <3>2 DEF Thread
  <2> QED
    BY <1>1, <2>1 DEF BooksOf
<1> QED
  BY <1>2, <1>3, <1>4 DEF ProcStep

(* As long as commands do not overlap, the invariant is inductive: the     *)
(* other processes are idle, before the step and after it.                 *)
LEMMA SoloStep ==
  ASSUME LocalInv, Books, SoloInv, Alone, Alone', [Next]_vars
  PROVE  SoloInv' /\ LifecycleStep
<1>1. ASSUME NEW p \in Proc, ProcStep(p)
      PROVE  SoloInv' /\ LifecycleStep
  <2>1. GoodSolo(p) /\ OthersStay(p)
    BY <1>1, ProcSolo, OthersUntouched
  <2>2. \A q \in Proc : q # p => ctl[q] = "idle"
    BY <1>1, <2>1, StepperLive DEF Alone, OthersStay
  <2>3. ASSUME NEW q \in Proc, q # p
        PROVE  CtlOf(q)' /\ \A t \in Task : CallStage(q, t)'
    <3>1. ctl'[q] = "idle" /\ \A t \in Task : at'[q][t] = "idle"
      BY <2>1, <2>2, <2>3 DEF OthersStay, Books, BooksOf
    <3> QED
      BY <3>1 DEF CtlOf, Prepared, ViewTrue, SuccessTrue, CallStage
  <2> QED
    BY <2>1, <2>3 DEF SoloInv, GoodSolo
<1>2. CASE UNCHANGED vars
  <2>1. /\ UNCHANGED <<status, at, verdict, ctl, job, reconciled, remaining, running, cursor,
                       progressed, doomed, hook, files>>
    BY <1>2 DEF vars, callVars, graphVars, diskVars, stateVars, fileVars
  <2>2. \A p \in Proc : CtlOf(p)'
    BY <2>1
    DEF SoloInv, CtlOf, Prepared, ViewTrue, SuccessTrue, Resettable, AllCompleted
  <2> QED
    BY <2>1, <2>2
    DEF SoloInv, NoInterrupted, RunInOrder, CompletedHasOutputs, ParentsCompleted, CallStage,
        LifecycleStep
<1> QED
  BY <1>1, <1>2, StraySolo DEF Next, Rest, ProcStep

(* A campaign on which no command was issued satisfies the invariants.     *)
LEMMA SoloInit == Init => Books /\ RunningHasWorker /\ SoloInv /\ Abstract!LifecycleInit
  BY DEF Init, DiskInit, WorkerInit, StartInit, Books, BooksOf, RunningHasWorker, SoloInv,
      NoInterrupted, RunInOrder, CompletedHasOutputs, CtlOf, Prepared, ViewTrue, SuccessTrue,
      CallStage, Abstract!LifecycleInit

(* With every task met by the pass, one of those that remain would come    *)
(* first in the order of dependencies, its parents all settled.            *)
LEMMA PassNotStalled == LocalInv /\ Books /\ SoloInv => NeverStalled
<1> SUFFICES ASSUME LocalInv, Books, SoloInv, NEW p \in Proc,
                    ctl[p] = "scan", cursor[p] > Len(TaskOrder), Stalled(p)
             PROVE  FALSE
  BY DEF NeverStalled
<1>1. GraphTypeOK /\ BooksOf(p) /\ CtlOf(p)
  BY DEF LocalInv, Shape, LocalTypeOK, Books, SoloInv
<1>2. running[p] = {} /\ remaining[p] # {} /\ ~progressed[p] /\ remaining[p] \in SUBSET Task
  BY <1>1 DEF Stalled, GraphTypeOK
<1>3. PICK t \in remaining[p] : Parents[t] \cap remaining[p] = {}
  BY <1>2, GraphAssumption
<1>4. t \in Task /\ Parents[t] \subseteq reconciled[p]
  BY <1>1, <1>2, <1>3, GraphAssumption DEF BooksOf
<1>5. PICK i \in 1 .. Len(TaskOrder) : TaskOrder[i] = t
  BY <1>4, LocalAssumption
<1>6. i < cursor[p]
  BY <1>1, LenTaskOrder DEF GraphTypeOK
<1> QED
  BY <1>1, <1>2, <1>3, <1>4, <1>5, <1>6 DEF CtlOf, ViewTrue

(* The books of every process, and the workers of the running tasks, for   *)
(* any overlap of commands.                                                *)
THEOREM BooksInvariant == Spec => [](Books /\ RunningHasWorker)
<1>1. Init => Books /\ RunningHasWorker
  BY SoloInit
<1>2. LocalInv /\ (Books /\ RunningHasWorker) /\ [Next]_vars => (Books /\ RunningHasWorker)'
  BY BooksKept, RunningHasWorkerKept
<1> QED
  BY <1>1, <1>2, LocalInvariant, PTL DEF Spec

(* Without a kill, a task recorded as running has a worker, however        *)
(* commands overlap: run_task always records its verdict.                  *)
THEOREM RunningTasksHaveWorkers == Spec => []RunningHasWorker
<1>1. Books /\ RunningHasWorker => RunningHasWorker
  OBVIOUS
<1> QED
  BY <1>1, BooksInvariant, PTL

(* What is inductive besides while commands do not overlap.                *)
THEOREM SoloInvariant == Spec /\ []Alone => []SoloInv
<1>1. Init => SoloInv
  BY SoloInit
<1>2. LocalInv /\ (Books /\ RunningHasWorker) /\ SoloInv /\ Alone /\ Alone' /\ [Next]_vars =>
        SoloInv'
  BY SoloStep
<1> QED
  BY <1>1, <1>2, LocalInvariant, BooksInvariant, PTL DEF Spec

(* Neither a later attempt nor resume --overwrite takes an output away     *)
(* from a completed task, for any graph and any kills, as long as commands *)
(* do not overlap.                                                         *)
THEOREM OutputsStay == Spec /\ []Alone => []CompletedHasOutputs
<1>1. SoloInv => CompletedHasOutputs
  BY DEF SoloInv
<1> QED
  BY <1>1, SoloInvariant, PTL

(* A start or a resume that ends without an error has completed every task *)
(* and run the declared postflight.                                        *)
THEOREM SuccessMeansComplete == Spec /\ []Alone => []SuccessIsComplete
<1>1. SoloInv => SuccessIsComplete
  BY DEF SoloInv, CtlOf, SuccessTrue, SuccessIsComplete
<1> QED
  BY <1>1, SoloInvariant, PTL

(* The coordinator of an acyclic graph always finds a task to submit, to   *)
(* block or to wait for.                                                   *)
THEOREM ProgressAlways == Spec /\ []Alone => []NeverStalled
<1>1. LocalInv /\ (Books /\ RunningHasWorker) /\ SoloInv => NeverStalled
  BY PassNotStalled
<1> QED
  BY <1>1, LocalInvariant, BooksInvariant, SoloInvariant, PTL

(* The local backend implements the lifecycle of tasks: every step of      *)
(* every process is one of its steps or a stutter.                         *)
THEOREM LocalImplementsLifecycle == Spec /\ []Alone => ImplementsLifecycle
<1>1. Init => Abstract!LifecycleInit
  BY SoloInit
<1>2. LocalInv /\ (Books /\ RunningHasWorker) /\ SoloInv /\ Alone /\ Alone' /\ [Next]_vars =>
        [Abstract!LifecycleNext]_status
  BY SoloStep DEF LifecycleStep
<1> QED
  BY <1>1, <1>2, LocalInvariant, BooksInvariant, SoloInvariant, PTL
  DEF Spec, ImplementsLifecycle, Abstract!Lifecycle

(* A state file that says running, failed or completed is that of a task   *)
(* whose parents' state files all say completed.                           *)
THEOREM StatesInOrder == Spec /\ []Alone => []RunInOrder
<1>1. SoloInv => RunInOrder
  BY DEF SoloInv
<1> QED
  BY <1>1, SoloInvariant, PTL

(* A completed task stays completed: no retry, resume or blocked scan      *)
(* takes its state back.                                                   *)
THEOREM CompletedStays ==
  Spec /\ []Alone => [][\A t \in Task : status[t] = "completed" => status'[t] = "completed"]_vars
<1>1. LocalInv /\ (Books /\ RunningHasWorker) /\ SoloInv /\ Alone /\ Alone' /\ [Next]_vars =>
        [\A t \in Task : status[t] = "completed" => status'[t] = "completed"]_vars
  <2> SUFFICES ASSUME LocalInv, Books, RunningHasWorker, SoloInv, Alone, Alone', [Next]_vars,
                      NEW t \in Task, status[t] = "completed"
               PROVE  status'[t] = "completed"
    OBVIOUS
  <2>1. [Abstract!LifecycleNext]_status
    BY SoloStep DEF LifecycleStep
  <2>2. status \in [Task -> TaskStatus]
    BY DEF LocalInv, Shape, LocalTypeOK, WorkerTypeOK, DiskTypeOK
  <2> QED
    BY <2>1, <2>2
    DEF Abstract!LifecycleNext, Abstract!Run, Abstract!Reject, Abstract!Complete, Abstract!Fail,
        Abstract!Block, Abstract!SetBack, Abstract!Become
<1> QED
  BY <1>1, LocalInvariant, BooksInvariant, SoloInvariant, PTL DEF Spec
====
