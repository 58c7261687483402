---- MODULE Amendment ----
(***************************************************************************)
(* Amendments (amend.py) and the workers that read them.  amend_campaign   *)
(* compares the edited Yallfile with the frozen campaign and records the   *)
(* command changes in amendments/NNNN/amendment.json; run_task applies the *)
(* records in order to the frozen command and refuses a chain whose        *)
(* `before` does not match.  amend takes no lock: between its checks, its  *)
(* number, its directory and its record, workers and other amends run.     *)
(*                                                                         *)
(* Local campaigns only: the reconciled scheduler state a queued backend   *)
(* adds to _validate_inactive is the subject of module Recovery.           *)
(***************************************************************************)
EXTENDS Worker, FiniteSetsExt

CONSTANTS
  Amender,   \* processes that run `yall-run amend`
  Command,   \* the commands a task may be given
  Frozen,    \* Frozen[t]: the command of t in campaign.json
  MaxAmend   \* bound: the largest amendment number

ASSUME AmendAssumption == Frozen \in [Task -> Command] /\ MaxAmend \in Nat

AmendNo == 1 .. MaxAmend
Change == [task : Task, before : Command, after : Command]

(* What run_task resolves: the command and the amendments applied to it.   *)
Definition == [command : Command, applied : SUBSET AmendNo]
NoDefinition == [command |-> "none", applied |-> {}]

VARIABLES
  amendDirs,   \* the numbers NNNN whose directory amendments/NNNN exists
  changes,     \* changes[n]: what amendments/n/amendment.json records, or {}
  amending,    \* amending[q]: the next step of q's amend_campaign
  compared,    \* compared[q]: the tasks whose chain and state q has read
  draft,       \* draft[q]: the changes q is about to record
  chosen,      \* chosen[q]: the number q computed, 0 before
  resolved,    \* resolved[p][t]: the definition p's run_task for t works with
  provenance,  \* provenance[t][n]: the definition provenance.json records
  overlapped   \* history: one amend read the chain while another had

amendVars == <<amendDirs, changes, amending, compared, draft, chosen, overlapped>>
definitionVars == <<resolved, provenance>>
vars == <<workerVars, amendVars, definitionVars>>

AmendPC == {"idle", "inactive", "compare", "number", "mkdir", "write"}

AmendTypeOK ==
  /\ WorkerTypeOK
  /\ amendDirs \subseteq AmendNo
  /\ changes \in [AmendNo -> SUBSET Change]
  /\ \A n \in AmendNo : changes[n] # {} => n \in amendDirs
  /\ amending \in [Amender -> AmendPC]
  /\ compared \in [Amender -> SUBSET Task]
  /\ draft \in [Amender -> SUBSET Change]
  /\ chosen \in [Amender -> 0 .. MaxAmend]
  /\ resolved \in [Proc -> [Task -> Definition \cup {NoDefinition}]]
  /\ provenance \in [Task -> [AttemptNo -> Definition \cup {NoDefinition}]]
  /\ overlapped \in BOOLEAN

AmendInit ==
  /\ WorkerStart
  /\ amendDirs = {}
  /\ changes = [n \in AmendNo |-> {}]
  /\ amending = [q \in Amender |-> "idle"]
  /\ compared = [q \in Amender |-> {}]
  /\ draft = [q \in Amender |-> {}]
  /\ chosen = [q \in Amender |-> 0]
  /\ resolved = [p \in Proc |-> [t \in Task |-> NoDefinition]]
  /\ provenance = [t \in Task |-> [n \in AttemptNo |-> NoDefinition]]
  /\ overlapped = FALSE

----
(* The chain, as _effective_command and _effective_task_definition walk it *)

(* _amendment_records: a directory without amendment.json is passed over.  *)
Recorded == {n \in AmendNo : changes[n] # {}}

(* The recorded amendments that change t, and the change each makes.       *)
Applied(t) == {n \in Recorded : \E c \in changes[n] : c.task = t}
ChangeOf(n, t) == CHOOSE c \in changes[n] : c.task = t

CommandAfter(t, S) == IF S = {} THEN Frozen[t] ELSE ChangeOf(Max(S), t).after

(* Every change starts from the command its predecessors left.             *)
ChainOK(t) ==
  \A n \in Applied(t) :
    ChangeOf(n, t).before = CommandAfter(t, {m \in Applied(t) : m < n})

EffectiveCommand(t) == CommandAfter(t, Applied(t))

----
(* amend_campaign                                                          *)

Amends(q, from, to) ==
  /\ amending[q] = from
  /\ amending' = [amending EXCEPT ![q] = to]

(* Bound: an amend is issued only while a number is left for it.           *)
RoomForAmend ==
  Max(Recorded \cup {0}) + Cardinality({q \in Amender : amending[q] # "idle"})
    < MaxAmend

(* start.json exists.                                                      *)
IssueAmend(q) ==
  /\ start # "none"
  /\ RoomForAmend
  /\ Amends(q, "idle", "inactive")
  /\ UNCHANGED <<workerVars, definitionVars, amendDirs, changes, compared, draft, chosen,
                 overlapped>>

(* _validate_inactive: no state file says running.  (A queued backend is   *)
(* asked for live jobs as well, which only makes amends rarer: a job may   *)
(* start right after the answer.)                                          *)
FindInactive(q) ==
  /\ \A t \in Task : status[t] # "running"
  /\ Amends(q, "inactive", "compare")
  /\ UNCHANGED <<workerVars, definitionVars, amendDirs, changes, compared, draft, chosen,
                 overlapped>>

(* Mutant: the comparison is with campaign.json instead of the chain.      *)
Difference_Frozen(t, wanted) ==
  IF wanted = Frozen[t] THEN {} ELSE {[task |-> t, before |-> Frozen[t], after |-> wanted]}

(* The change of t's command from the effective one to the wanted one.     *)
Difference(t, wanted) ==
  IF wanted = EffectiveCommand(t) THEN {}
  ELSE {[task |-> t, before |-> EffectiveCommand(t), after |-> wanted]}

HasRead(q) == compared[q] # {}

(* One task after another, its chain must apply, and the edited Yallfile   *)
(* may change its command unless it is completed.                          *)
Compare(q) ==
  /\ \E t \in Task \ compared[q], wanted \in Command :
       /\ ChainOK(t)
       /\ Difference(t, wanted) # {} => status[t] # "completed"
       /\ compared' = [compared EXCEPT ![q] = @ \cup {t}]
       /\ draft' = [draft EXCEPT ![q] = @ \cup Difference(t, wanted)]
  /\ Amends(q, "compare", "compare")
  /\ overlapped' = (overlapped \/ \E r \in Amender \ {q} : HasRead(r))
  /\ UNCHANGED <<workerVars, definitionVars, amendDirs, changes, chosen>>

(* Without a change there is nothing to record.                            *)
EndComparison(q) ==
  /\ compared[q] = Task /\ draft[q] # {}
  /\ Amends(q, "compare", "number")
  /\ UNCHANGED <<workerVars, definitionVars, amendDirs, changes, compared, draft, chosen,
                 overlapped>>

(* One above the greatest recorded number: a directory that a killed amend *)
(* left without a record does not count, and is met again at the mkdir.    *)
ChooseAmendNumber(q) ==
  /\ Amends(q, "number", "mkdir")
  /\ chosen' = [chosen EXCEPT ![q] = Max(Recorded \cup {0}) + 1]
  /\ UNCHANGED <<workerVars, definitionVars, amendDirs, changes, compared, draft, overlapped>>

(* Mutant: mkdir(parents=True, exist_ok=True) without the check before it. *)
MakeAmendDir_ExistOk(q) ==
  /\ Amends(q, "mkdir", "write")
  /\ amendDirs' = amendDirs \cup {chosen[q]}
  /\ UNCHANGED <<workerVars, definitionVars, changes, compared, draft, chosen, overlapped>>

(* The directory must not exist, whether exists() or mkdir() finds out.    *)
MakeAmendDir(q) ==
  /\ chosen[q] \notin amendDirs
  /\ Amends(q, "mkdir", "write")
  /\ amendDirs' = amendDirs \cup {chosen[q]}
  /\ UNCHANGED <<workerVars, definitionVars, changes, compared, draft, chosen, overlapped>>

(* q's amend is over: nothing of its working state remains.                *)
EndAmend(q) ==
  /\ amending' = [amending EXCEPT ![q] = "idle"]
  /\ compared' = [compared EXCEPT ![q] = {}]
  /\ draft' = [draft EXCEPT ![q] = {}]
  /\ chosen' = [chosen EXCEPT ![q] = 0]

WriteAmendment(q) ==
  /\ amending[q] = "write"
  /\ changes' = [changes EXCEPT ![chosen[q]] = draft[q]]
  /\ EndAmend(q)
  /\ UNCHANGED <<workerVars, definitionVars, amendDirs, overlapped>>

(* An exception while writing: the directory is removed again.             *)
WriteFails(q) ==
  /\ amending[q] = "write"
  /\ amendDirs' = amendDirs \ {chosen[q]}
  /\ changes' = [changes EXCEPT ![chosen[q]] = {}]
  /\ EndAmend(q)
  /\ UNCHANGED <<workerVars, definitionVars, overlapped>>

(* A refusal of any check, a dry run, a declined confirmation or a kill;   *)
(* killed while it writes, amend leaves the directory without a record.    *)
Abandon(q) ==
  /\ amending[q] # "idle"
  /\ EndAmend(q)
  /\ UNCHANGED <<workerVars, definitionVars, amendDirs, changes, overlapped>>

AmendStep(q) ==
  \/ IssueAmend(q) \/ FindInactive(q) \/ Compare(q) \/ EndComparison(q)
  \/ ChooseAmendNumber(q) \/ MakeAmendDir(q) \/ WriteAmendment(q) \/ WriteFails(q) \/ Abandon(q)

----
(* run_task with its definition: resolved before the attempt number is     *)
(* chosen, recorded in provenance.json before the inputs are checked       *)

DefinitionOf(t) == [command |-> EffectiveCommand(t), applied |-> Applied(t)]

Resolve(p, t) ==
  /\ at[p][t] = "choose"
  /\ resolved[p][t] = NoDefinition
  /\ ChainOK(t)
  /\ resolved' = [resolved EXCEPT ![p][t] = DefinitionOf(t)]
  /\ UNCHANGED <<workerVars, amendVars, provenance>>

(* "amendment chain mismatch": run_task raises before it makes a directory.*)
ResolveFails(p, t) ==
  /\ resolved[p][t] = NoDefinition
  /\ ~ChainOK(t)
  /\ Goto(p, t, "choose", "raised")
  /\ UNCHANGED <<diskVars, number, verdict, amendVars, definitionVars>>

WriteProvenance(p, t) ==
  /\ AcceptLaunch(p, t) \/ RejectLaunch(p, t)
  /\ provenance' = [provenance EXCEPT ![t][number[p][t]] = resolved[p][t]]
  /\ UNCHANGED <<amendVars, resolved>>

ResolvedStep(p, t) ==
  /\ resolved[p][t] # NoDefinition
  /\ at[p][t] # "inspect"
  /\ WorkerStep(p, t)
  /\ UNCHANGED <<amendVars, definitionVars>>

(* The calls that end or die take what they had resolved with them.        *)
ForgetResolved(p, T) ==
  resolved' = [resolved EXCEPT ![p] =
                 [t \in Task |-> IF t \in T THEN NoDefinition ELSE @[t]]]

LaunchStep(p, t) ==
  \/ Resolve(p, t) \/ ResolveFails(p, t) \/ WriteProvenance(p, t)
  \/ ResolvedStep(p, t)
  \/ Call(p, t) /\ UNCHANGED <<amendVars, definitionVars>>
  \/ Return(p, t) /\ ForgetResolved(p, {t}) /\ UNCHANGED <<amendVars, provenance>>

KillWorker(p) ==
  Kill(p) /\ ForgetResolved(p, Task) /\ UNCHANGED <<amendVars, provenance>>

(* begin_campaign, before which amend refuses; workers wait for it too.    *)
Begin ==
  /\ start = "none"
  /\ start' = "keep"
  /\ UNCHANGED <<stateVars, attempt, fileVars, startPending, callVars, amendVars,
                 definitionVars>>

(* The bounds end the behaviours, not the system.                          *)
Exhausted ==
  /\ ~RoomForAmend /\ \A q \in Amender : amending[q] = "idle"
  /\ \A t \in Task : ~RoomForAttempt(t) /\ \A p \in Proc : at[p][t] = "idle"
  /\ UNCHANGED vars

AmendNext ==
  \/ Begin
  \/ \E q \in Amender : AmendStep(q)
  \/ start # "none" /\ \E p \in Proc : KillWorker(p) \/ \E t \in Task : LaunchStep(p, t)
  \/ StrayOutput /\ UNCHANGED <<amendVars, definitionVars>>
  \/ Exhausted

AmendSpec == AmendInit /\ [][AmendNext]_vars

----
(* Properties                                                              *)

(* docs/AMENDMENTS.md: "The before value of every change must match the    *)
(* effective command produced by the preceding chain".  It does as long as *)
(* no two amends overlap, killed ones and abandoned ones included; when    *)
(* one reads the chain while another has and has not recorded, the second  *)
(* record may start from a command the first replaced, and every worker    *)
(* and amend of the task raises from then on.                              *)
ChainApplies == ~overlapped => \A t \in Task : ChainOK(t)

(* What provenance.json says of a launch stays explained by the chain: the *)
(* amendments it lists, applied to the frozen command, give the command it *)
(* launched, whatever is recorded later and however amends overlapped.     *)
ProvenanceExplained ==
  \A t \in Task : \A n \in AttemptNo :
    LET d == provenance[t][n] IN
      d # NoDefinition =>
        /\ d.applied \subseteq Applied(t)
        /\ d.command = CommandAfter(t, d.applied)
====
