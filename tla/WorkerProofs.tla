---- MODULE WorkerProofs ----
(***************************************************************************)
(* The attempt records, for any number of processes, tasks and attempts:   *)
(* WorkerInv is inductive for run_task whoever calls it, so attempt        *)
(* directories are never shared, never skipped and never rewritten once    *)
(* terminal.  The lemmas are stated per action, without the environment of *)
(* WorkerNext, so that the modules that compose run_task can cite them.    *)
(***************************************************************************)
EXTENDS Worker, FiniteSetTheorems, WellFoundedInduction, TLAPS

WorkerInv ==
  /\ WorkerTypeOK
  /\ AttemptOwned
  /\ AttemptsContiguous
  /\ StateBackedByAttempt
  /\ CallConsistent

(* Proof-only: no terminal record changes in this step.                    *)
KeepsTerminal ==
  \A t \in Task : \A n \in AttemptNo :
    attempt[t][n] \in Terminal => attempt'[t][n] = attempt[t][n]

(* Proof-only: an attempt directory is never removed.                      *)
KeepsAttempts ==
  \A t \in Task : \A n \in AttemptNo : attempt[t][n] # "absent" => attempt'[t][n] # "absent"

(* A campaign nobody has run yet satisfies the invariant.                  *)
LEMMA InitInv == DiskInit /\ files \in SUBSET File /\ WorkerInit => WorkerInv
  BY MaxAttemptAssumption
  DEF WorkerInv, WorkerTypeOK, DiskTypeOK, DiskInit, WorkerInit, WorkerPC, AttemptOwned,
      AttemptsContiguous, StateBackedByAttempt, StateOK, CallConsistent, CallOK, OwnsAttempt,
      OwnerPC, AttemptState, TaskStatus, Terminal, Record, AttemptNo


(* What a Goto and the writes of an attempt record and of a state file do, *)
(* pointwise.                                                              *)
LEMMA GotoAt ==
  ASSUME WorkerTypeOK, NEW p \in Proc, NEW t \in Task, NEW from, NEW to \in WorkerPC,
         Goto(p, t, from, to)
  PROVE  /\ at[p][t] = from
         /\ at' \in [Proc -> [Task -> WorkerPC]]
         /\ \A q \in Proc : \A u \in Task :
              at'[q][u] = IF q = p /\ u = t THEN to ELSE at[q][u]
  BY DEF WorkerTypeOK, Goto

(* Writing one attempt record leaves every other record as it is.          *)
LEMMA AttemptWrite ==
  ASSUME WorkerTypeOK, NEW t \in Task, NEW n \in AttemptNo, NEW v \in AttemptState,
         attempt' = [attempt EXCEPT ![t][n] = v]
  PROVE  /\ attempt' \in [Task -> [AttemptNo -> AttemptState]]
         /\ \A u \in Task : \A m \in AttemptNo :
              attempt'[u][m] = IF u = t /\ m = n THEN v ELSE attempt[u][m]
  BY DEF WorkerTypeOK, DiskTypeOK

(* Every number below the chosen one is taken.                             *)
LEMMA ChooseNumberInv ==
  ASSUME WorkerInv, NEW p \in Proc, NEW t \in Task, ChooseNumber(p, t)
  PROVE  WorkerInv' /\ KeepsTerminal
<1>1. WorkerTypeOK
  BY DEF WorkerInv
<1>2. PICK n \in AttemptNo : /\ IsNextAttempt(t, n)
                             /\ number' = [number EXCEPT ![p][t] = n]
  BY DEF ChooseNumber
<1>3. \A m \in AttemptNo : m < n => attempt[t][m] # "absent"
  <2>1. attempts[t] \in 0 .. MaxAttempt
    BY <1>1 DEF WorkerTypeOK, DiskTypeOK
  <2>2. \A m \in AttemptNo : attempts[t] < m /\ m < n => attempt[t][m] # "absent"
    BY <1>2 DEF IsNextAttempt
  <2>3. ASSUME NEW m \in AttemptNo, m <= attempts[t]
        PROVE  attempt[t][m] # "absent"
    <3>1. attempts[t] \in AttemptNo /\ attempts[t] > 0
      BY <2>1, <2>3, MaxAttemptAssumption DEF AttemptNo
    <3>2. attempt[t][attempts[t]] # "absent"
      BY <3>1 DEF WorkerInv, StateBackedByAttempt, StateOK
    <3>3. CASE m = attempts[t]
      BY <3>2, <3>3
    <3>4. CASE m < attempts[t]
      BY <3>1, <3>2, <3>4 DEF WorkerInv, AttemptsContiguous
    <3> QED
      BY <2>1, <2>3, <3>3, <3>4, MaxAttemptAssumption DEF AttemptNo
  <2> QED
    BY <2>1, <2>2, <2>3, MaxAttemptAssumption DEF AttemptNo
<1>4. /\ number' \in [Proc -> [Task -> 0 .. MaxAttempt]]
      /\ \A q \in Proc : \A u \in Task :
           number'[q][u] = IF q = p /\ u = t THEN n ELSE number[q][u]
  BY <1>1, <1>2, MaxAttemptAssumption DEF WorkerTypeOK, AttemptNo
<1>5. /\ at[p][t] = "choose"
      /\ at' \in [Proc -> [Task -> WorkerPC]]
      /\ \A q \in Proc : \A u \in Task :
           at'[q][u] = IF q = p /\ u = t THEN "mkdir" ELSE at[q][u]
  BY <1>1, GotoAt DEF ChooseNumber, WorkerPC
<1>6. UNCHANGED <<status, attempts, attempt, files, stray, start, startPending, verdict>>
  BY DEF ChooseNumber, diskVars, stateVars, startVars, fileVars
<1>7. WorkerTypeOK'
  BY <1>1, <1>4, <1>5, <1>6 DEF WorkerTypeOK, DiskTypeOK
<1>8. AttemptOwned'
  <2> SUFFICES ASSUME NEW q \in Proc, NEW r \in Proc, NEW u \in Task, q # r,
                      OwnsAttempt(q, u)', OwnsAttempt(r, u)'
               PROVE  number'[q][u] # number'[r][u]
    BY DEF AttemptOwned
  <2>1. ~(q = p /\ u = t) /\ ~(r = p /\ u = t)
    BY <1>5 DEF OwnsAttempt, OwnerPC
  <2>2. OwnsAttempt(q, u) /\ OwnsAttempt(r, u)
    BY <2>1, <1>5 DEF OwnsAttempt
  <2> QED
    BY <2>1, <2>2, <1>4 DEF WorkerInv, AttemptOwned
<1>9. AttemptsContiguous' /\ StateBackedByAttempt' /\ KeepsTerminal
  BY <1>6 DEF WorkerInv, AttemptsContiguous, StateBackedByAttempt, StateOK, KeepsTerminal
<1>10. CallConsistent'
  <2> SUFFICES ASSUME NEW q \in Proc, NEW u \in Task
               PROVE  CallOK(q, u)'
    BY DEF CallConsistent
  <2>1. CallOK(q, u)
    BY DEF WorkerInv, CallConsistent
  <2>2. CASE q = p /\ u = t
    BY <2>2, <1>3, <1>4, <1>5, <1>6 DEF CallOK, OwnsAttempt, OwnerPC
  <2>3. CASE ~(q = p /\ u = t)
    BY <2>1, <2>3, <1>4, <1>5, <1>6 DEF CallOK, OwnsAttempt
  <2> QED
    BY <2>2, <2>3
<1> QED
  BY <1>7, <1>8, <1>9, <1>10 DEF WorkerInv

(* The directory is new, so no other call owns it and no state file points *)
(* to it; the numbers below it are taken, so there is no gap.              *)
LEMMA MakeAttemptDirInv ==
  ASSUME WorkerInv, NEW p \in Proc, NEW t \in Task, MakeAttemptDir(p, t)
  PROVE  WorkerInv' /\ KeepsTerminal
<1> DEFINE n == number[p][t]
<1>1. WorkerTypeOK
  BY DEF WorkerInv
<1>2. /\ at[p][t] = "mkdir"
      /\ at' \in [Proc -> [Task -> WorkerPC]]
      /\ \A q \in Proc : \A u \in Task :
           at'[q][u] = IF q = p /\ u = t THEN "inspect" ELSE at[q][u]
  BY <1>1, GotoAt DEF MakeAttemptDir, WorkerPC
<1>3. /\ n \in AttemptNo
      /\ \A m \in AttemptNo : m < n => attempt[t][m] # "absent"
      /\ attempt[t][n] = "absent"
  BY <1>2 DEF WorkerInv, CallConsistent, CallOK, MakeAttemptDir
<1>4. /\ attempt' \in [Task -> [AttemptNo -> AttemptState]]
      /\ \A u \in Task : \A m \in AttemptNo :
           attempt'[u][m] = IF u = t /\ m = n THEN "made" ELSE attempt[u][m]
  BY <1>1, <1>3, AttemptWrite, SMT, ZenonT(40) DEF MakeAttemptDir, AttemptState
<1>5. UNCHANGED <<status, attempts, files, stray, start, startPending, number, verdict>>
  BY DEF MakeAttemptDir, stateVars, startVars, fileVars
<1>6. WorkerTypeOK'
  BY <1>1, <1>2, <1>4, <1>5 DEF WorkerTypeOK, DiskTypeOK
<1>7. AttemptOwned'
  <2> SUFFICES ASSUME NEW q \in Proc, NEW r \in Proc, NEW u \in Task, q # r,
                      OwnsAttempt(q, u)', OwnsAttempt(r, u)'
               PROVE  number[q][u] # number[r][u]
    BY <1>5 DEF AttemptOwned
  <2>1. \A s \in Proc : OwnsAttempt(s, t) => number[s][t] # n
    BY <1>3 DEF WorkerInv, CallConsistent, CallOK, OwnsAttempt, OwnerPC, Terminal
  <2> QED
    BY <2>1, <1>2 DEF WorkerInv, AttemptOwned, OwnsAttempt, OwnerPC
<1>8. AttemptsContiguous'
  <2> SUFFICES ASSUME NEW u \in Task, NEW k \in AttemptNo, NEW m \in AttemptNo,
                      m < k, attempt'[u][k] # "absent"
               PROVE  attempt'[u][m] # "absent"
    BY DEF AttemptsContiguous
  <2>1. CASE u = t /\ k = n
    BY <2>1, <1>3, <1>4
  <2>2. CASE ~(u = t /\ k = n)
    BY <2>2, <1>4 DEF WorkerInv, AttemptsContiguous
  <2> QED
    BY <2>1, <2>2
<1>9. StateBackedByAttempt'
  <2> SUFFICES ASSUME NEW u \in Task
               PROVE  StateOK(u)'
    BY DEF StateBackedByAttempt
  <2>1. StateOK(u) /\ attempts[u] \in 0 .. MaxAttempt
    BY <1>1 DEF WorkerInv, StateBackedByAttempt, WorkerTypeOK, DiskTypeOK
  <2> QED
    BY <2>1, <1>3, <1>4, <1>5, MaxAttemptAssumption DEF StateOK, Terminal, AttemptNo
<1>10. CallConsistent'
  <2> SUFFICES ASSUME NEW q \in Proc, NEW u \in Task
               PROVE  CallOK(q, u)'
    BY DEF CallConsistent
  <2>1. CallOK(q, u)
    BY DEF WorkerInv, CallConsistent
  <2>2. CASE q = p /\ u = t
    BY <2>2, <1>2, <1>3, <1>4, <1>5 DEF CallOK, OwnsAttempt, OwnerPC
  <2>3. CASE ~(q = p /\ u = t)
    BY <2>1, <2>3, <1>2, <1>3, <1>4, <1>5, SMT, ZenonT(40)
    DEF CallOK, OwnsAttempt, OwnerPC, Terminal
  <2> QED
    BY <2>2, <2>3
<1>11. KeepsTerminal
  BY <1>3, <1>4 DEF KeepsTerminal, Terminal
<1> QED
  BY <1>6, <1>7, <1>8, <1>9, <1>10, <1>11 DEF WorkerInv

(* The owner of a record is alone in writing it, and finds it in a state   *)
(* that is not terminal.                                                   *)
LEMMA PublishAttemptInv ==
  ASSUME WorkerInv, NEW p \in Proc, NEW t \in Task, PublishAttempt(p, t)
  PROVE  WorkerInv' /\ KeepsTerminal
<1> DEFINE n == number[p][t]
           v == verdict[p][t]
<1>1. WorkerTypeOK
  BY DEF WorkerInv
<1>2. /\ at[p][t] = "publish"
      /\ at' \in [Proc -> [Task -> WorkerPC]]
      /\ \A q \in Proc : \A u \in Task :
           at'[q][u] = IF q = p /\ u = t THEN "record" ELSE at[q][u]
  BY <1>1, GotoAt DEF PublishAttempt, WorkerPC
<1>3. /\ n \in AttemptNo
      /\ v \in Terminal
      /\ attempt[t][n] \in {"made", "running"}
  BY <1>2 DEF WorkerInv, CallConsistent, CallOK, OwnsAttempt, OwnerPC
<1>4. /\ attempt' \in [Task -> [AttemptNo -> AttemptState]]
      /\ \A u \in Task : \A m \in AttemptNo :
           attempt'[u][m] = IF u = t /\ m = n THEN v ELSE attempt[u][m]
  <2>1. v \in AttemptState
    BY <1>3 DEF AttemptState
  <2> QED
    BY <1>1, <1>3, <2>1, AttemptWrite, SMT, ZenonT(40) DEF PublishAttempt
<1>5. UNCHANGED <<status, attempts, files, stray, start, startPending, number, verdict>>
  BY DEF PublishAttempt, stateVars, startVars, fileVars
<1>6. WorkerTypeOK'
  BY <1>1, <1>2, <1>4, <1>5 DEF WorkerTypeOK, DiskTypeOK
<1>7. AttemptOwned'
  BY <1>2, <1>5 DEF WorkerInv, AttemptOwned, OwnsAttempt, OwnerPC
<1>8. AttemptsContiguous'
  BY <1>3, <1>4 DEF WorkerInv, AttemptsContiguous, Terminal
<1>9. StateBackedByAttempt'
  <2> SUFFICES ASSUME NEW u \in Task
               PROVE  StateOK(u)'
    BY DEF StateBackedByAttempt
  <2>1. StateOK(u) /\ attempts[u] \in 0 .. MaxAttempt
    BY <1>1 DEF WorkerInv, StateBackedByAttempt, WorkerTypeOK, DiskTypeOK
  <2> QED
    BY <2>1, <1>3, <1>4, <1>5, MaxAttemptAssumption DEF StateOK, Terminal, AttemptNo
<1>10. CallConsistent'
  <2> SUFFICES ASSUME NEW q \in Proc, NEW u \in Task
               PROVE  CallOK(q, u)'
    BY DEF CallConsistent
  <2>1. CallOK(q, u)
    BY DEF WorkerInv, CallConsistent
  <2>2. CASE q = p /\ u = t
    BY <2>2, <1>2, <1>3, <1>4, <1>5 DEF CallOK, OwnsAttempt, OwnerPC
  <2>3. CASE ~(q = p /\ u = t)
    <3>1. OwnsAttempt(q, u) => ~(u = t /\ number[q][u] = n)
      BY <2>3, <1>2 DEF WorkerInv, AttemptOwned, OwnsAttempt, OwnerPC
    <3>2. at'[q][u] = at[q][u]
      BY <2>3, <1>2
    <3>3. at[q][u] = "mkdir" => 
            \A m \in AttemptNo : m < number[q][u] => attempt'[u][m] # "absent"
      BY <2>1, <1>3, <1>4 DEF CallOK, Terminal
    <3>4. OwnsAttempt(q, u) => attempt'[u][number[q][u]] = attempt[u][number[q][u]]
      BY <2>1, <3>1, <1>4 DEF CallOK
    <3> QED
      BY <2>1, <3>2, <3>3, <3>4, <1>5 DEF CallOK, OwnsAttempt, OwnerPC
  <2> QED
    BY <2>2, <2>3
<1>11. KeepsTerminal
  BY <1>3, <1>4 DEF KeepsTerminal, Terminal
<1> QED
  BY <1>6, <1>7, <1>8, <1>9, <1>10, <1>11 DEF WorkerInv

(* The state file is set to what the record of the same attempt says.      *)
LEMMA RecordStateInv ==
  ASSUME WorkerInv, NEW p \in Proc, NEW t \in Task, RecordState(p, t)
  PROVE  WorkerInv' /\ KeepsTerminal
<1> DEFINE n == number[p][t]
           v == verdict[p][t]
<1>1. WorkerTypeOK
  BY DEF WorkerInv
<1>2. /\ at[p][t] = "record"
      /\ at' \in [Proc -> [Task -> WorkerPC]]
      /\ \A q \in Proc : \A u \in Task :
           at'[q][u] = IF q = p /\ u = t THEN "returned" ELSE at[q][u]
  BY <1>1, GotoAt DEF RecordState, WorkerPC
<1>3. /\ n \in AttemptNo
      /\ v \in Terminal
      /\ attempt[t][n] = v
  BY <1>2 DEF WorkerInv, CallConsistent, CallOK, OwnsAttempt, OwnerPC
<1>4. /\ status' = [status EXCEPT ![t] = v]
      /\ attempts' = [attempts EXCEPT ![t] = n]
      /\ UNCHANGED <<attempt, files, stray, start, startPending, number, verdict>>
  BY DEF RecordState, WriteTaskState, startVars, fileVars
<1>5. WorkerTypeOK'
  BY <1>1, <1>2, <1>3, <1>4, MaxAttemptAssumption
  DEF WorkerTypeOK, DiskTypeOK, Terminal, TaskStatus, AttemptNo
<1>6. AttemptOwned'
  BY <1>2, <1>4 DEF WorkerInv, AttemptOwned, OwnsAttempt, OwnerPC
<1>7. AttemptsContiguous' /\ KeepsTerminal
  BY <1>4 DEF WorkerInv, AttemptsContiguous, KeepsTerminal
<1>8. StateBackedByAttempt'
  <2> SUFFICES ASSUME NEW u \in Task
               PROVE  StateOK(u)'
    BY DEF StateBackedByAttempt
  <2>1. StateOK(u)
    BY DEF WorkerInv, StateBackedByAttempt
  <2>2. CASE u = t
    BY <2>2, <1>1, <1>3, <1>4, MaxAttemptAssumption
    DEF StateOK, WorkerTypeOK, DiskTypeOK, Terminal, AttemptNo
  <2>3. CASE u # t
    BY <2>1, <2>3, <1>1, <1>4 DEF StateOK, WorkerTypeOK, DiskTypeOK
  <2> QED
    BY <2>2, <2>3
<1>9. CallConsistent'
  BY <1>2, <1>4 DEF WorkerInv, CallConsistent, CallOK, OwnsAttempt, OwnerPC
<1> QED
  BY <1>5, <1>6, <1>7, <1>8, <1>9 DEF WorkerInv

(* The call gives up without owning a record.                              *)
LEMMA AttemptDirExistsInv ==
  ASSUME WorkerInv, NEW p \in Proc, NEW t \in Task, AttemptDirExists(p, t)
  PROVE  WorkerInv' /\ KeepsTerminal
  BY MaxAttemptAssumption
  DEF WorkerInv, WorkerTypeOK, DiskTypeOK, AttemptOwned, AttemptsContiguous,
      StateBackedByAttempt, StateOK, CallConsistent, CallOK, OwnsAttempt, OwnerPC,
      WorkerPC, Terminal, KeepsTerminal, diskVars, stateVars, startVars, fileVars, Goto,
      AttemptDirExists

(* The checks before launch write nothing.                                 *)
LEMMA AcceptLaunchInv ==
  ASSUME WorkerInv, NEW p \in Proc, NEW t \in Task, AcceptLaunch(p, t)
  PROVE  WorkerInv' /\ KeepsTerminal
  BY MaxAttemptAssumption
  DEF WorkerInv, WorkerTypeOK, DiskTypeOK, AttemptOwned, AttemptsContiguous,
      StateBackedByAttempt, StateOK, CallConsistent, CallOK, OwnsAttempt, OwnerPC,
      WorkerPC, Terminal, KeepsTerminal, diskVars, stateVars, startVars, fileVars, Goto,
      AcceptLaunch

(* A refused launch only chooses the verdict to publish.                   *)
LEMMA RejectLaunchInv ==
  ASSUME WorkerInv, NEW p \in Proc, NEW t \in Task, RejectLaunch(p, t)
  PROVE  WorkerInv' /\ KeepsTerminal
  BY MaxAttemptAssumption
  DEF WorkerInv, WorkerTypeOK, DiskTypeOK, AttemptOwned, AttemptsContiguous,
      StateBackedByAttempt, StateOK, CallConsistent, CallOK, OwnsAttempt, OwnerPC,
      WorkerPC, Terminal, KeepsTerminal, diskVars, stateVars, startVars, fileVars, Goto,
      RejectLaunch

(* The owner alone writes its record, which is not terminal yet.           *)
LEMMA AnnounceAttemptInv ==
  ASSUME WorkerInv, NEW p \in Proc, NEW t \in Task, AnnounceAttempt(p, t)
  PROVE  WorkerInv' /\ KeepsTerminal
  BY MaxAttemptAssumption
  DEF WorkerInv, WorkerTypeOK, DiskTypeOK, AttemptOwned, AttemptsContiguous,
      StateBackedByAttempt, StateOK, CallConsistent, CallOK, OwnsAttempt, OwnerPC,
      WorkerPC, Terminal, KeepsTerminal, diskVars, stateVars, startVars, fileVars, Goto,
      AnnounceAttempt, AttemptNo, AttemptState

(* The state file is pointed at the announced attempt.                     *)
LEMMA AnnounceStateInv ==
  ASSUME WorkerInv, NEW p \in Proc, NEW t \in Task, AnnounceState(p, t)
  PROVE  WorkerInv' /\ KeepsTerminal
  BY MaxAttemptAssumption
  DEF WorkerInv, WorkerTypeOK, DiskTypeOK, AttemptOwned, AttemptsContiguous,
      StateBackedByAttempt, StateOK, CallConsistent, CallOK, OwnsAttempt, OwnerPC,
      WorkerPC, Terminal, KeepsTerminal, diskVars, stateVars, startVars, fileVars, Goto,
      AnnounceState, AttemptNo, WriteTaskState, TaskStatus

(* Starting the payload writes no campaign file.                           *)
LEMMA LaunchInv ==
  ASSUME WorkerInv, NEW p \in Proc, NEW t \in Task, Launch(p, t)
  PROVE  WorkerInv' /\ KeepsTerminal
  BY MaxAttemptAssumption
  DEF WorkerInv, WorkerTypeOK, DiskTypeOK, AttemptOwned, AttemptsContiguous,
      StateBackedByAttempt, StateOK, CallConsistent, CallOK, OwnsAttempt, OwnerPC,
      WorkerPC, Terminal, KeepsTerminal, diskVars, stateVars, startVars, fileVars, Goto, Launch

(* A launch that fails only chooses the verdict to publish.                *)
LEMMA LaunchFailsInv ==
  ASSUME WorkerInv, NEW p \in Proc, NEW t \in Task, LaunchFails(p, t)
  PROVE  WorkerInv' /\ KeepsTerminal
  BY MaxAttemptAssumption
  DEF WorkerInv, WorkerTypeOK, DiskTypeOK, AttemptOwned, AttemptsContiguous,
      StateBackedByAttempt, StateOK, CallConsistent, CallOK, OwnsAttempt, OwnerPC,
      WorkerPC, Terminal, KeepsTerminal, diskVars, stateVars, startVars, fileVars, Goto, LaunchFails

(* The payload writes products, never records.                             *)
LEMMA PayloadExitsInv ==
  ASSUME WorkerInv, NEW p \in Proc, NEW t \in Task, PayloadExits(p, t)
  PROVE  WorkerInv' /\ KeepsTerminal
  BY MaxAttemptAssumption, GraphAssumption
  DEF WorkerInv, WorkerTypeOK, DiskTypeOK, AttemptOwned, AttemptsContiguous,
      StateBackedByAttempt, StateOK, CallConsistent, CallOK, OwnsAttempt, OwnerPC,
      WorkerPC, Terminal, KeepsTerminal, diskVars, stateVars, startVars, fileVars, Goto,
      PayloadExits

(* Any step of run_task, whoever calls it, keeps the invariant and every   *)
(* terminal record.                                                        *)
LEMMA WorkerStepInv ==
  ASSUME WorkerInv, NEW p \in Proc, NEW t \in Task, WorkerStep(p, t)
  PROVE  WorkerInv' /\ KeepsTerminal
  BY ChooseNumberInv, MakeAttemptDirInv, AttemptDirExistsInv, AcceptLaunchInv,
     RejectLaunchInv, AnnounceAttemptInv, AnnounceStateInv, LaunchInv, LaunchFailsInv,
     PayloadExitsInv, PublishAttemptInv, RecordStateInv
  DEF WorkerStep

(* A worker writes only what it made.                                      *)
LEMMA WorkerKeepsAttempts ==
  ASSUME WorkerInv, NEW p \in Proc, NEW t \in Task, WorkerStep(p, t)
  PROVE  KeepsAttempts
<1>1. WorkerTypeOK /\ CallOK(p, t)
  BY DEF WorkerInv, CallConsistent
<1>2. CASE UNCHANGED attempt
  BY <1>2 DEF KeepsAttempts
<1>3. ASSUME NEW n, NEW v, v # "absent", attempt' = [attempt EXCEPT ![t][n] = v]
      PROVE  KeepsAttempts
  BY <1>1, <1>3 DEF KeepsAttempts, WorkerTypeOK, DiskTypeOK
<1>4. PublishAttempt(p, t) => verdict[p][t] # "absent"
  BY <1>1 DEF PublishAttempt, Goto, CallOK, Terminal
<1> QED
  BY <1>2, <1>3, <1>4
  DEF WorkerStep, ChooseNumber, MakeAttemptDir, AttemptDirExists, AcceptLaunch, RejectLaunch,
      AnnounceAttempt, AnnounceState, Launch, LaunchFails, PayloadExits, PublishAttempt,
      RecordState,
      diskVars

(* Beginning a call, the first or the next of a retry loop, claims nothing *)
(* of any record, whatever the caller does to other files in the step.     *)
LEMMA BeginInv ==
  ASSUME WorkerInv, NEW p \in Proc, NEW t \in Task, NEW from,
         Goto(p, t, from, "choose"), DiskTypeOK',
         UNCHANGED <<stateVars, attempt, number, verdict>>
  PROVE  WorkerInv' /\ KeepsTerminal
  BY DEF WorkerInv, WorkerTypeOK, AttemptOwned, AttemptsContiguous,
      StateBackedByAttempt, StateOK, CallConsistent, CallOK, OwnsAttempt, OwnerPC,
      WorkerPC, KeepsTerminal, stateVars, Goto

(* A forgotten call leaves the records to nobody: what it wrote stays.     *)
LEMMA ForgetCallsInv ==
  ASSUME WorkerInv, NEW p \in Proc, NEW T \in SUBSET Task, ForgetCalls(p, T),
         DiskTypeOK', UNCHANGED <<stateVars, attempt>>
  PROVE  WorkerInv' /\ KeepsTerminal
<1>1. /\ at' \in [Proc -> [Task -> WorkerPC]]
      /\ \A q \in Proc : \A u \in Task :
           at'[q][u] = IF q = p /\ u \in T THEN "idle" ELSE at[q][u]
  BY DEF WorkerInv, WorkerTypeOK, ForgetCalls, WorkerPC
<1>2. /\ number' \in [Proc -> [Task -> 0 .. MaxAttempt]]
      /\ \A q \in Proc : \A u \in Task :
           number'[q][u] = IF q = p /\ u \in T THEN 0 ELSE number[q][u]
  BY MaxAttemptAssumption DEF WorkerInv, WorkerTypeOK, ForgetCalls
<1>3. /\ verdict' \in [Proc -> [Task -> Terminal \cup {"none"}]]
      /\ \A q \in Proc : \A u \in Task :
           verdict'[q][u] = IF q = p /\ u \in T THEN "none" ELSE verdict[q][u]
  BY DEF WorkerInv, WorkerTypeOK, ForgetCalls
<1>4. UNCHANGED <<status, attempts, attempt>>
  BY DEF stateVars
<1>5. WorkerTypeOK'
  BY <1>1, <1>2, <1>3 DEF WorkerTypeOK
<1>6. AttemptsContiguous' /\ StateBackedByAttempt' /\ KeepsTerminal
  BY <1>4 DEF WorkerInv, AttemptsContiguous, StateBackedByAttempt, StateOK, KeepsTerminal
<1>7. AttemptOwned'
  BY <1>1, <1>2, SMTT(40) DEF WorkerInv, AttemptOwned, OwnsAttempt, OwnerPC
<1>8. CallConsistent'
  <2> SUFFICES ASSUME NEW q \in Proc, NEW u \in Task
               PROVE  CallOK(q, u)'
    BY DEF CallConsistent
  <2>1. CallOK(q, u)
    BY DEF WorkerInv, CallConsistent
  <2> QED
    BY <2>1, <1>1, <1>2, <1>3, <1>4 DEF CallOK, OwnsAttempt, OwnerPC
<1> QED
  BY <1>5, <1>6, <1>7, <1>8 DEF WorkerInv

(* A coordinator that blocks tasks or sets them back to pending, and keeps *)
(* the attempt counts, claims nothing of any attempt.                      *)
LEMMA StatusInv ==
  ASSUME WorkerInv, DiskTypeOK', UNCHANGED <<callVars, attempts, attempt>>,
         \A t \in Task : status'[t] \in {"pending", "blocked", status[t]}
  PROVE  WorkerInv' /\ KeepsTerminal
  BY DEF WorkerInv, WorkerTypeOK, AttemptOwned, AttemptsContiguous,
      StateBackedByAttempt, StateOK, CallConsistent, CallOK, OwnsAttempt, OwnerPC,
      Terminal, KeepsTerminal, callVars

(* A state file is written as the plan says.                               *)
LEMMA ReconcileWorker ==
  ASSUME WorkerInv, NEW t \in Task, NEW st \in TaskStatus \ {"running"}, NEW n \in 0 .. MaxAttempt,
         WriteTaskState(t, st, n), UNCHANGED <<attempt, fileVars, startVars, callVars>>,
         st \in Terminal => n > 0 /\ attempt[t][n] = st, n > 0 => attempt[t][n] # "absent"
  PROVE  WorkerInv' /\ KeepsTerminal
<1> USE DEF fileVars, startVars, callVars
<1>1. WorkerTypeOK'
  BY DEF WorkerInv, WorkerTypeOK, DiskTypeOK, WriteTaskState
<1>2. /\ \A u \in Task : status'[u] = IF u = t THEN st ELSE status[u]
      /\ \A u \in Task : attempts'[u] = IF u = t THEN n ELSE attempts[u]
  BY DEF WorkerInv, WorkerTypeOK, DiskTypeOK, WriteTaskState
<1>3. StateBackedByAttempt'
  BY <1>2 DEF WorkerInv, StateBackedByAttempt, StateOK, Terminal
<1> QED
  BY <1>1, <1>3
  DEF WorkerInv, AttemptOwned, AttemptsContiguous, CallConsistent, CallOK, OwnsAttempt,
      KeepsTerminal

(* A payload that outlived its worker writes no record.                    *)
LEMMA StrayOutputInv ==
  ASSUME WorkerInv, StrayOutput
  PROVE  WorkerInv' /\ KeepsTerminal
<1>1. DiskTypeOK'
  BY DEF WorkerInv, WorkerTypeOK, DiskTypeOK, StrayOutput, stateVars, startVars
<1>2. \A t \in Task : status'[t] \in {"pending", "blocked", status[t]}
  BY DEF StrayOutput, stateVars
<1> QED
  BY <1>1, <1>2, StatusInv DEF StrayOutput, stateVars

(* The invariant is inductive for run_task alone, killed or not.           *)
LEMMA NextInv ==
  ASSUME WorkerInv, [WorkerNext]_workerVars
  PROVE  WorkerInv' /\ KeepsTerminal
<1>1. DiskTypeOK
  BY DEF WorkerInv, WorkerTypeOK
<1>2. ASSUME NEW p \in Proc, NEW t \in Task, Call(p, t)
      PROVE  WorkerInv' /\ KeepsTerminal
  <2>1. DiskTypeOK' /\ UNCHANGED <<stateVars, attempt, number, verdict>>
    BY <1>1, <1>2 DEF Call, DiskTypeOK, diskVars, stateVars, startVars, fileVars
  <2> QED
    BY <2>1, <1>2, BeginInv DEF Call, Enter
<1>3. ASSUME NEW p \in Proc, NEW t \in Task, Return(p, t)
      PROVE  WorkerInv' /\ KeepsTerminal
  <2>1. DiskTypeOK' /\ UNCHANGED <<stateVars, attempt>>
    BY <1>1, <1>3 DEF Return, DiskTypeOK, diskVars, stateVars, startVars, fileVars
  <2> QED
    BY <2>1, <1>3, ForgetCallsInv DEF Return
<1>4. ASSUME NEW p \in Proc, Kill(p)
      PROVE  WorkerInv' /\ KeepsTerminal
  <2>1. /\ ForgetCalls(p, Task)
        /\ UNCHANGED <<stateVars, attempt>>
    BY <1>4 DEF Kill, KillCalls
  <2>2. /\ stray' = stray \cup UNION {Outputs[t] : t \in {u \in Task : at[p][u] = "payload"}}
        /\ UNCHANGED <<stateVars, attempt, files, startVars>>
    BY <1>4 DEF Kill, KillCalls
  <2>3. stray' \subseteq File
    BY <1>1, <2>2, GraphAssumption DEF DiskTypeOK
  <2>4. DiskTypeOK'
    BY <1>1, <2>2, <2>3 DEF DiskTypeOK, stateVars, startVars
  <2> QED
    BY <2>1, <2>4, ForgetCallsInv
<1>6. CASE StrayOutput
  BY <1>6, StrayOutputInv
<1>5. CASE UNCHANGED workerVars
  BY <1>5 DEF workerVars, diskVars, stateVars, startVars, fileVars, callVars, WorkerInv,
     WorkerTypeOK, DiskTypeOK, AttemptOwned, AttemptsContiguous, StateBackedByAttempt,
     StateOK, CallConsistent, CallOK, OwnsAttempt, KeepsTerminal
<1> QED
  BY <1>2, <1>3, <1>4, <1>5, <1>6, WorkerStepInv DEF WorkerNext, NumbersExhausted

(* WorkerInv holds in every state of run_task run by any number of         *)
(* processes, for any number of tasks and attempts, and under any kill.    *)
THEOREM WorkerInvariant == WorkerSpec => []WorkerInv
<1>1. WorkerStart => WorkerInv
  BY InitInv DEF WorkerStart
<1>2. WorkerInv /\ [WorkerNext]_workerVars => WorkerInv'
  BY NextInv
<1> QED
  BY <1>1, <1>2, PTL DEF WorkerSpec

(* Every file and every call of run_task stays in its type.                *)
THEOREM WorkerTypeCorrect == WorkerSpec => []WorkerTypeOK
<1>1. WorkerInv => WorkerTypeOK
  BY DEF WorkerInv
<1> QED
  BY <1>1, WorkerInvariant, PTL

(* _next_attempt_number and mkdir never give one attempt directory to two  *)
(* workers.                                                                *)
THEOREM AttemptsNeverShared == WorkerSpec => []AttemptOwned
<1>1. WorkerInv => AttemptOwned
  BY DEF WorkerInv
<1> QED
  BY <1>1, WorkerInvariant, PTL

(* No attempt number is skipped, also after a worker died anywhere.        *)
THEOREM AttemptsNumberedInOrder == WorkerSpec => []AttemptsContiguous
<1>1. WorkerInv => AttemptsContiguous
  BY DEF WorkerInv
<1> QED
  BY <1>1, WorkerInvariant, PTL

(* A state file never claims an attempt, or an outcome, that attempt.json  *)
(* does not back.                                                          *)
THEOREM StateAlwaysBacked == WorkerSpec => []StateBackedByAttempt
<1>1. WorkerInv => StateBackedByAttempt
  BY DEF WorkerInv
<1> QED
  BY <1>1, WorkerInvariant, PTL

(* A call finds its own records as it left them at each of its steps.      *)
THEOREM CallsConsistent == WorkerSpec => []CallConsistent
<1>1. WorkerInv => CallConsistent
  BY DEF WorkerInv
<1> QED
  BY <1>1, WorkerInvariant, PTL

(* No step of any worker rewrites a terminal attempt record.               *)
THEOREM TerminalRecordsNeverRewritten == WorkerSpec => TerminalAttemptsKept
<1>1. WorkerInv /\ [WorkerNext]_workerVars =>
        [\A t \in Task : \A n \in AttemptNo :
           attempt[t][n] \in Terminal => attempt'[t][n] = attempt[t][n]]_workerVars
  BY NextInv DEF KeepsTerminal
<1> QED
  BY <1>1, WorkerInvariant, PTL DEF WorkerSpec, TerminalAttemptsKept

----
(* The graph                                                               *)

(* A set of tasks that is closed under children, and is not empty, has a   *)
(* task nothing comes after: what is asked of the leaves of the graph is   *)
(* asked of every task.  (Of the subsets in which every task has a child,  *)
(* one with the fewest members would not be one.)                          *)
LEMMA LeafAmong ==
  ASSUME NEW S \in SUBSET Task, S # {},
         \A t \in S : \A u \in Task : t \in Parents[u] => u \in S
  PROVE  \E t \in S : \A u \in Task : t \notin Parents[u]
<1> SUFFICES ASSUME \A t \in S : \E u \in S : t \in Parents[u]
             PROVE  FALSE
  OBVIOUS
<1> DEFINE Endless(X) == X # {} /\ \A t \in X : \E u \in X : t \in Parents[u]
           Sizes == {n \in Nat : \E X \in SUBSET Task : Endless(X) /\ Cardinality(X) = n}
<1>1. \A X \in SUBSET Task : IsFiniteSet(X) /\ Cardinality(X) \in Nat
  BY GraphAssumption, FS_Subset, FS_CardinalityType
<1>2. Cardinality(S) \in Sizes /\ Sizes \subseteq Nat
  BY <1>1
<1>3. PICK n \in Sizes : \A m \in Sizes : <<m, n>> \notin OpToRel(<, Nat)
  <2> HIDE DEF Sizes
  <2> QED
    BY <1>2, WFMin, NatLessThanWellFounded
<1>4. PICK X \in SUBSET Task : Endless(X) /\ Cardinality(X) = n
  OBVIOUS
<1>5. PICK t \in X : Parents[t] \cap X = {}
  BY <1>4, GraphAssumption
<1>6. Endless(X \ {t})
  BY <1>4, <1>5
<1>7. Cardinality(X \ {t}) = n - 1
  BY <1>1, <1>4, FS_RemoveElement
<1>8. Cardinality(X \ {t}) \in Sizes /\ Cardinality(X \ {t}) < n
  <2> HIDE DEF Endless
  <2>1. X \ {t} \in SUBSET Task /\ n \in Nat
    BY <1>2
  <2>2. Cardinality(X \ {t}) \in Nat
    BY <1>1, <2>1
  <2>3. n - 1 \in Nat /\ n - 1 < n
    BY <1>7, <2>1, <2>2
  <2> QED
    BY <1>6, <1>7, <2>1, <2>3
<1> QED
  BY <1>3, <1>8 DEF OpToRel

(* A step of run_task is a step of a call, and writes its own records.     *)
LEMMA WorkerStepLocal ==
  ASSUME WorkerTypeOK, NEW p \in Proc, NEW t \in Task, WorkerStep(p, t)
  PROVE  /\ at[p][t] # "idle"
         /\ \A q \in Proc : \A u \in Task : q # p \/ u # t => at'[q][u] = at[q][u]
         /\ \A u \in Task : u # t => attempt'[u] = attempt[u] /\ attempts'[u] = attempts[u]
         /\ UNCHANGED startVars
<1>1. PICK from, to : Goto(p, t, from, to) /\ from # "idle"
  BY DEF WorkerStep, ChooseNumber, MakeAttemptDir, AttemptDirExists, AcceptLaunch, RejectLaunch,
         AnnounceAttempt, AnnounceState, Launch, LaunchFails, PayloadExits, PublishAttempt,
         RecordState, Goto
<1>2. /\ at[p][t] # "idle"
      /\ \A q \in Proc : \A u \in Task : q # p \/ u # t => at'[q][u] = at[q][u]
  BY <1>1 DEF Goto, WorkerTypeOK
<1>3. UNCHANGED startVars
  BY DEF diskVars, WorkerStep, ChooseNumber, MakeAttemptDir, AttemptDirExists, AcceptLaunch,
         RejectLaunch,
         AnnounceAttempt, AnnounceState, Launch, LaunchFails, PayloadExits, PublishAttempt,
         RecordState
<1>4. \A u \in Task : u # t => attempt'[u] = attempt[u] /\ attempts'[u] = attempts[u]
  BY DEF diskVars, stateVars, WriteTaskState, WorkerStep, ChooseNumber, MakeAttemptDir,
         AttemptDirExists, AcceptLaunch, RejectLaunch, AnnounceAttempt, AnnounceState, Launch,
         LaunchFails, PayloadExits, PublishAttempt, RecordState, WorkerTypeOK, DiskTypeOK
<1> QED
  BY <1>2, <1>3, <1>4
====
