---- MODULE Worker ----
(***************************************************************************)
(* run_task (worker.py): one attempt of one task, as the sequence of file  *)
(* system steps between which another process can act and the worker can   *)
(* be killed.  Process p runs at most one run_task for t at a time; any    *)
(* number of processes may run one for the same task, since run_task takes *)
(* no lock.  Other modules call it with Enter and collect its result in    *)
(* "returned" (verdict holds the outcome) or "raised" (an exception).      *)
(***************************************************************************)
EXTENDS CampaignDisk

VARIABLES
  at,       \* at[p][t]: the next step of p's run_task for t
  number,   \* number[p][t]: the attempt number it chose, 0 before
  verdict   \* verdict[p][t]: the terminal state it is about to record

callVars == <<at, number, verdict>>
workerVars == <<diskVars, callVars>>

WorkerPC == {"idle", "choose", "mkdir", "inspect", "announce", "running",
             "launch", "payload", "publish", "record", "returned", "raised"}

(* Steps at which the call owns the attempt directory it created.          *)
OwnerPC == {"inspect", "announce", "running", "launch", "payload", "publish",
            "record", "returned"}

WorkerTypeOK ==
  /\ DiskTypeOK
  /\ at \in [Proc -> [Task -> WorkerPC]]
  /\ number \in [Proc -> [Task -> 0 .. MaxAttempt]]
  /\ verdict \in [Proc -> [Task -> Terminal \cup {"none"}]]

WorkerInit ==
  /\ at = [p \in Proc |-> [t \in Task |-> "idle"]]
  /\ number = [p \in Proc |-> [t \in Task |-> 0]]
  /\ verdict = [p \in Proc |-> [t \in Task |-> "none"]]

Goto(p, t, from, to) ==
  /\ at[p][t] = from
  /\ at' = [at EXCEPT ![p][t] = to]

----
(* Steps of run_task                                                       *)

(* Mutant: one number too far.                                             *)
IsNextAttempt_OffByOne(t, n) ==
  /\ n > attempts[t] + 1
  /\ attempt[t][n] = "absent"
  /\ \A m \in AttemptNo : attempts[t] + 1 < m /\ m < n => attempt[t][m] # "absent"

(* _next_attempt_number: one above the count of the state file, stepping   *)
(* around directories that already exist (a worker killed before it wrote  *)
(* the state file leaves one).                                             *)
IsNextAttempt(t, n) ==
  /\ n > attempts[t]
  /\ attempt[t][n] = "absent"
  /\ \A m \in AttemptNo : attempts[t] < m /\ m < n => attempt[t][m] # "absent"

ChooseNumber(p, t) ==
  /\ Goto(p, t, "choose", "mkdir")
  /\ \E n \in AttemptNo :
       /\ IsNextAttempt(t, n)
       /\ number' = [number EXCEPT ![p][t] = n]
  /\ UNCHANGED <<diskVars, verdict>>

(* Mutant: mkdir(exist_ok=True).                                           *)
MakeAttemptDir_ExistOk(p, t) ==
  /\ Goto(p, t, "mkdir", "inspect")
  /\ attempt' = [attempt EXCEPT ![t][number[p][t]] = "made"]
  /\ UNCHANGED <<stateVars, fileVars, startVars, number, verdict>>

(* attempt_dir.mkdir(exist_ok=False): of two workers that chose the same   *)
(* number, the second raises FileExistsError.                              *)
MakeAttemptDir(p, t) ==
  /\ Goto(p, t, "mkdir", "inspect")
  /\ attempt[t][number[p][t]] = "absent"
  /\ attempt' = [attempt EXCEPT ![t][number[p][t]] = "made"]
  /\ UNCHANGED <<stateVars, fileVars, startVars, number, verdict>>

AttemptDirExists(p, t) ==
  /\ Goto(p, t, "mkdir", "raised")
  /\ attempt[t][number[p][t]] # "absent"
  /\ UNCHANGED <<diskVars, number, verdict>>

(* The checks before launch: every declared input exists, and no declared  *)
(* output does unless overwriting is allowed.                              *)
InputsReady(t) == Inputs[t] \subseteq files
OutputsClear(t) == Outputs[t] \cap files = {} \/ MayOverwrite(t)

AcceptLaunch(p, t) ==
  /\ InputsReady(t)
  /\ OutputsClear(t)
  /\ Goto(p, t, "inspect", "announce")
  /\ UNCHANGED <<diskVars, number, verdict>>

RejectLaunch(p, t) ==
  /\ ~(InputsReady(t) /\ OutputsClear(t))
  /\ Goto(p, t, "inspect", "publish")
  /\ verdict' = [verdict EXCEPT ![p][t] = "failed"]
  /\ UNCHANGED <<diskVars, number>>

(* attempt.json says running before the state file does.                   *)
AnnounceAttempt(p, t) ==
  /\ Goto(p, t, "announce", "running")
  /\ attempt' = [attempt EXCEPT ![t][number[p][t]] = "running"]
  /\ UNCHANGED <<stateVars, fileVars, startVars, number, verdict>>

AnnounceState(p, t) ==
  /\ Goto(p, t, "running", "launch")
  /\ WriteTaskState(t, "running", number[p][t])
  /\ UNCHANGED <<attempt, fileVars, startVars, number, verdict>>

(* _run_command starts the payload, or raises OSError (launch_failed).     *)
Launch(p, t) ==
  /\ Goto(p, t, "launch", "payload")
  /\ UNCHANGED <<diskVars, number, verdict>>

(* Mutant: a failed launch leaves the attempt without a terminal state.    *)
LaunchFails_NoVerdict(p, t) ==
  /\ Goto(p, t, "launch", "publish")
  /\ UNCHANGED <<diskVars, number, verdict>>

LaunchFails(p, t) ==
  /\ Goto(p, t, "launch", "publish")
  /\ verdict' = [verdict EXCEPT ![p][t] = "failed"]
  /\ UNCHANGED <<diskVars, number>>

(* The payload has produced some of its outputs and exits; a zero exit     *)
(* with a declared output missing is a failure (missing_outputs).          *)
PayloadExits(p, t) ==
  /\ Goto(p, t, "payload", "publish")
  /\ \E made \in SUBSET Outputs[t], zero \in BOOLEAN :
       /\ files' = files \cup made
       /\ verdict' = [verdict EXCEPT ![p][t] =
            IF zero /\ Outputs[t] \subseteq files' THEN "completed" ELSE "failed"]
  /\ UNCHANGED <<stateVars, attempt, stray, startVars, number>>

(* The terminal attempt.json is written first, the state file second.      *)
PublishAttempt(p, t) ==
  /\ Goto(p, t, "publish", "record")
  /\ attempt' = [attempt EXCEPT ![t][number[p][t]] = verdict[p][t]]
  /\ UNCHANGED <<stateVars, fileVars, startVars, number, verdict>>

(* Mutant: the terminal state is recorded with the count read before.      *)
RecordState_StaleCount(p, t) ==
  /\ Goto(p, t, "record", "returned")
  /\ WriteTaskState(t, verdict[p][t], attempts[t])
  /\ UNCHANGED <<attempt, fileVars, startVars, number, verdict>>

RecordState(p, t) ==
  /\ Goto(p, t, "record", "returned")
  /\ WriteTaskState(t, verdict[p][t], number[p][t])
  /\ UNCHANGED <<attempt, fileVars, startVars, number, verdict>>

WorkerStep(p, t) ==
  \/ ChooseNumber(p, t) \/ MakeAttemptDir(p, t) \/ AttemptDirExists(p, t)
  \/ AcceptLaunch(p, t) \/ RejectLaunch(p, t)
  \/ AnnounceAttempt(p, t) \/ AnnounceState(p, t)
  \/ Launch(p, t) \/ LaunchFails(p, t) \/ PayloadExits(p, t)
  \/ PublishAttempt(p, t) \/ RecordState(p, t)

----
(* What a caller does with a call                                          *)

Enter(p, t) == Goto(p, t, "idle", "choose")

(* The calls T of p are forgotten: returned to a caller that drops them,   *)
(* or gone with the process.                                               *)
ForgetCalls(p, T) ==
  /\ at' = [at EXCEPT ![p] = [t \in Task |-> IF t \in T THEN "idle" ELSE @[t]]]
  /\ number' = [number EXCEPT ![p] = [t \in Task |-> IF t \in T THEN 0 ELSE @[t]]]
  /\ verdict' = [verdict EXCEPT ![p] =
                   [t \in Task |-> IF t \in T THEN "none" ELSE @[t]]]

(* Process p is killed: nothing it was about to write is written, but the  *)
(* payloads it was waiting for are processes of their own and go on.       *)
KillCalls(p) ==
  /\ ForgetCalls(p, Task)
  /\ stray' = stray \cup UNION {Outputs[t] : t \in {u \in Task : at[p][u] = "payload"}}
  /\ UNCHANGED <<stateVars, attempt, files, startVars>>

(* Such a payload produces an output nobody records.                       *)
StrayOutput ==
  /\ \E f \in stray :
       /\ files' = files \cup {f}
       /\ stray' = stray \ {f}
  /\ UNCHANGED <<stateVars, attempt, startVars, callVars>>

----
(* run_task alone: any process may run it at any time for any task (this   *)
(* is what a batch script does), and may be killed.                        *)

(* Bound: a call is made only while an attempt number is left for it.      *)
RoomForAttempt(t) ==
  Cardinality({p \in Proc : at[p][t] \in {"choose", "mkdir"}})
    < Cardinality({n \in AttemptNo : attempt[t][n] = "absent"})

Call(p, t) ==
  /\ RoomForAttempt(t)
  /\ Enter(p, t)
  /\ UNCHANGED <<diskVars, number, verdict>>

Return(p, t) ==
  /\ at[p][t] \in {"returned", "raised"}
  /\ ForgetCalls(p, {t})
  /\ UNCHANGED diskVars

Kill(p) ==
  /\ \E t \in Task : at[p][t] # "idle"
  /\ KillCalls(p)

(* The bound ends the behaviours, not the system: once no attempt number   *)
(* is left and nobody runs, the model stutters.                            *)
NumbersExhausted ==
  /\ \A t \in Task : ~RoomForAttempt(t) /\ \A p \in Proc : at[p][t] = "idle"
  /\ UNCHANGED workerVars

WorkerNext ==
  \/ \E p \in Proc :
       \/ \E t \in Task : Call(p, t) \/ WorkerStep(p, t) \/ Return(p, t)
       \/ Kill(p)
  \/ StrayOutput
  \/ NumbersExhausted

(* A campaign nobody has run yet, whatever products already exist.         *)
WorkerStart ==
  /\ DiskInit
  /\ files \in SUBSET File
  /\ WorkerInit

WorkerSpec == WorkerStart /\ [][WorkerNext]_workerVars

----
(* Properties                                                              *)

OwnsAttempt(p, t) == at[p][t] \in OwnerPC

(* Two workers of one task never write the same attempt directory, however *)
(* their _next_attempt_number and mkdir steps interleave.                  *)
AttemptOwned ==
  \A p, q \in Proc : \A t \in Task :
    p # q /\ OwnsAttempt(p, t) /\ OwnsAttempt(q, t) => number[p][t] # number[q][t]

(* Attempt directories are numbered 1, 2, ... without a gap, although the  *)
(* number is computed from a state file that a killed worker left behind.  *)
AttemptsContiguous ==
  \A t \in Task : \A n \in AttemptNo : \A m \in AttemptNo :
    m < n /\ attempt[t][n] # "absent" => attempt[t][m] # "absent"

(* The state file never claims more than the attempt record it points to:  *)
(* what a killed worker leaves is an attempt ahead of the state file.      *)
StateOK(t) ==
  /\ attempts[t] > 0 => attempt[t][attempts[t]] # "absent"
  /\ status[t] \in Terminal =>
       attempts[t] > 0 /\ attempt[t][attempts[t]] = status[t]
  /\ status[t] = "running" =>
       attempts[t] > 0 /\ attempt[t][attempts[t]] \in {"running"} \cup Terminal

(* No state file claims an attempt that attempt.json does not back.        *)
StateBackedByAttempt == \A t \in Task : StateOK(t)

(* What a call may rely on between its steps, whatever other calls do: the *)
(* numbers below its own are taken, the record it owns is in the state it  *)
(* left it in, and what it returns is what attempt.json says.              *)
CallOK(p, t) ==
  /\ at[p][t] = "mkdir" =>
       /\ number[p][t] \in AttemptNo
       /\ \A m \in AttemptNo : m < number[p][t] => attempt[t][m] # "absent"
  /\ OwnsAttempt(p, t) => number[p][t] \in AttemptNo
  /\ at[p][t] \in {"inspect", "announce"} => attempt[t][number[p][t]] = "made"
  /\ at[p][t] \in {"running", "launch", "payload"} =>
       attempt[t][number[p][t]] = "running"
  /\ at[p][t] = "publish" =>
       verdict[p][t] \in Terminal /\ attempt[t][number[p][t]] \in {"made", "running"}
  /\ at[p][t] \in {"record", "returned"} =>
       verdict[p][t] \in Terminal /\ attempt[t][number[p][t]] = verdict[p][t]

(* Every call finds its own records as it left them, in every state.       *)
CallConsistent == \A p \in Proc : \A t \in Task : CallOK(p, t)

(* "Retries therefore preserve earlier attempts instead of overwriting     *)
(* their records": a terminal attempt record never changes.                *)
TerminalAttemptsKept ==
  [][\A t \in Task : \A n \in AttemptNo :
       attempt[t][n] \in Terminal => attempt'[t][n] = attempt[t][n]]_workerVars
====
