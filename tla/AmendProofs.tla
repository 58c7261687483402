---- MODULE AmendProofs ----
(***************************************************************************)
(* Amendments, for any graph and number of workers and amend commands.     *)
(* amend.py takes no lock; two invariants show what holds all the same.    *)
(* RecordsInv: a number's record has one writer, the amend whose mkdir     *)
(* succeeded, so what is recorded stays - and with it whatever a worker    *)
(* resolved from it.  ChainInv: as long as no two amends were past their   *)
(* comparison together, the one that is goes on from where the chain ends. *)
(* AmendInv: the workers' own invariant and the types survive amendments,  *)
(* and every amend under way has a number left.                            *)
(***************************************************************************)
EXTENDS Amendment, WorkerProofs

(* A bounded set of natural numbers that is not empty has a maximum.       *)
LEMMA MaxOf ==
  ASSUME NEW S, S \subseteq AmendNo \cup {0}, S # {}
  PROVE  Max(S) \in S /\ \A m \in S : m <= Max(S)
<1> DEFINE Bounds == {k \in Nat : \A m \in S : m <= k}
<1>1. Bounds \subseteq Nat /\ MaxAmend \in Bounds
  BY AmendAssumption DEF AmendNo
<1>2. PICK k \in Bounds : \A y \in Bounds : <<y, k>> \notin OpToRel(<, Nat)
  <2> HIDE DEF Bounds
  <2> QED
    BY <1>1, WFMin, NatLessThanWellFounded
<1>3. \A y \in Bounds : ~(y < k)
  BY <1>2 DEF OpToRel
<1>4. \A m \in S : m \in Nat
  BY AmendAssumption DEF AmendNo
<1>5. k \in Nat /\ \A m \in S : m <= k
  BY <1>2
<1>6. k \in S
  <2> SUFFICES ASSUME k \notin S PROVE FALSE
    OBVIOUS
  <2>1. \A m \in S : m <= k - 1
    BY <1>4, <1>5
  <2>2. k - 1 \in Nat
    BY <1>4, <1>5
  <2>3. k - 1 \in Bounds
    BY <2>1, <2>2
  <2> QED
    BY <2>3, <1>3, <1>5
<1>7. \A m \in S : k >= m
  BY <1>2 DEF AmendNo
<1>8. \A x \in S : (\A y \in S : x >= y) => \A m \in S : m <= x
  BY DEF AmendNo
<1> QED
  BY <1>6, <1>7, <1>8 DEF Max

----
(* The records                                                             *)

(* amendment.json is written once: only the amend that made a directory    *)
(* writes into it, and what is recorded stays.                             *)
RecordsInv ==
  /\ changes = [n \in AmendNo |-> changes[n]]
  /\ amending = [q \in Amender |-> amending[q]]
  /\ compared = [q \in Amender |-> compared[q]]
  /\ draft = [q \in Amender |-> draft[q]]
  /\ chosen = [q \in Amender |-> chosen[q]]
  /\ \A n \in AmendNo : changes[n] # {} => n \in amendDirs
  /\ \A q \in Amender : amending[q] = "write" =>
       /\ chosen[q] \in amendDirs
       /\ chosen[q] \in AmendNo => changes[chosen[q]] = {}
       /\ \A r \in Amender : r # q /\ amending[r] = "write" => chosen[r] # chosen[q]

(* Proof-only: no record changes in this step.                             *)
KeepsRecords == \A n \in AmendNo : changes[n] # {} => changes'[n] = changes[n]

(* Nothing is recorded yet.                                                *)
LEMMA RecordsInit == AmendInit => RecordsInv
  BY DEF AmendInit, RecordsInv

(* The steps of everybody else leave the amend command's files alone.      *)
LEMMA OthersRecords ==
  ASSUME RecordsInv, UNCHANGED amendVars
  PROVE  RecordsInv' /\ KeepsRecords
  BY DEF RecordsInv, KeepsRecords, amendVars

(* Steps that touch neither the directories nor the records, and do not    *)
(* bring anybody to write.                                                 *)
LEMMA WorkingRecords ==
  ASSUME RecordsInv, NEW q \in Amender, NEW pc, pc # "write",
         amending' = [amending EXCEPT ![q] = pc],
         compared' = [r \in Amender |-> compared'[r]],
         draft' = [r \in Amender |-> draft'[r]],
         chosen' = [r \in Amender |-> chosen'[r]],
         \A r \in Amender \ {q} : chosen'[r] = chosen[r],
         UNCHANGED <<amendDirs, changes>>
  PROVE  RecordsInv' /\ KeepsRecords
  BY DEF RecordsInv, KeepsRecords

(* The directory is new, so its maker is alone in writing into it, and     *)
(* nothing is recorded under its number.                                   *)
LEMMA MakeAmendDirRecords ==
  ASSUME RecordsInv, NEW q \in Amender, MakeAmendDir(q)
  PROVE  RecordsInv' /\ KeepsRecords
<1>1. /\ \A r \in Amender : amending'[r] = IF r = q THEN "write" ELSE amending[r]
      /\ amending' = [r \in Amender |-> amending'[r]]
      /\ UNCHANGED <<changes, compared, draft, chosen>>
      /\ amendDirs' = amendDirs \cup {chosen[q]}
      /\ chosen[q] \notin amendDirs
  BY DEF RecordsInv, MakeAmendDir, Amends
<1> QED
  BY <1>1 DEF RecordsInv, KeepsRecords

(* What the end of an amend does, pointwise.                               *)
LEMMA EndAmendEffect ==
  ASSUME RecordsInv, NEW q \in Amender, EndAmend(q)
  PROVE  /\ amending' = [r \in Amender |-> amending'[r]]
         /\ compared' = [r \in Amender |-> compared'[r]]
         /\ draft' = [r \in Amender |-> draft'[r]]
         /\ chosen' = [r \in Amender |-> chosen'[r]]
         /\ amending'[q] = "idle" /\ compared'[q] = {} /\ draft'[q] = {}
         /\ \A r \in Amender \ {q} :
              /\ amending'[r] = amending[r] /\ compared'[r] = compared[r]
              /\ draft'[r] = draft[r] /\ chosen'[r] = chosen[r]
  BY DEF RecordsInv, EndAmend

(* The record is new.                                                      *)
LEMMA WriteAmendmentRecords ==
  ASSUME RecordsInv, NEW q \in Amender, WriteAmendment(q)
  PROVE  RecordsInv' /\ KeepsRecords
<1>1. /\ changes' = [n \in AmendNo |-> changes'[n]]
      /\ \A n \in AmendNo : changes'[n] = IF n = chosen[q] THEN draft[q] ELSE changes[n]
      /\ amendDirs' = amendDirs
      /\ amending[q] = "write"
  BY DEF RecordsInv, WriteAmendment
<1>2. EndAmend(q)
  BY DEF WriteAmendment
<1>3. /\ chosen[q] \in amendDirs
      /\ chosen[q] \in AmendNo => changes[chosen[q]] = {}
      /\ \A r \in Amender : r # q /\ amending[r] = "write" => chosen[r] # chosen[q]
  BY <1>1 DEF RecordsInv
<1>4. KeepsRecords
  BY <1>1, <1>3 DEF KeepsRecords
<1>5. \A n \in AmendNo : changes'[n] # {} => n \in amendDirs'
  BY <1>1, <1>3 DEF RecordsInv
<1>6. ASSUME NEW r \in Amender, amending'[r] = "write"
      PROVE  r # q /\ amending[r] = "write" /\ chosen'[r] = chosen[r] /\ chosen[r] # chosen[q]
  BY <1>2, <1>3, <1>6, EndAmendEffect
<1>7. ASSUME NEW r \in Amender, amending'[r] = "write"
      PROVE  /\ chosen'[r] \in amendDirs'
             /\ chosen'[r] \in AmendNo => changes'[chosen'[r]] = {}
             /\ \A s \in Amender : s # r /\ amending'[s] = "write" => chosen'[s] # chosen'[r]
  BY <1>1, <1>6, <1>7 DEF RecordsInv
<1> QED
  BY <1>1, <1>2, <1>4, <1>5, <1>7, EndAmendEffect DEF RecordsInv

(* The directory that is removed is nobody else's and holds no record.     *)
LEMMA WriteFailsRecords ==
  ASSUME RecordsInv, NEW q \in Amender, WriteFails(q)
  PROVE  RecordsInv' /\ KeepsRecords
<1>1. /\ changes' = [n \in AmendNo |-> changes'[n]]
      /\ \A n \in AmendNo : changes'[n] = IF n = chosen[q] THEN {} ELSE changes[n]
      /\ amendDirs' = amendDirs \ {chosen[q]}
      /\ amending[q] = "write"
  BY DEF RecordsInv, WriteFails
<1>2. EndAmend(q)
  BY DEF WriteFails
<1>3. KeepsRecords
  BY <1>1 DEF RecordsInv, KeepsRecords
<1>4. ASSUME NEW r \in Amender, amending'[r] = "write"
      PROVE  r # q /\ amending[r] = "write" /\ chosen'[r] = chosen[r] /\ chosen[r] # chosen[q]
  BY <1>1, <1>2, <1>4, EndAmendEffect DEF RecordsInv
<1>5. \A n \in AmendNo : changes'[n] # {} => n \in amendDirs'
  BY <1>1 DEF RecordsInv
<1>6. ASSUME NEW r \in Amender, amending'[r] = "write"
      PROVE  /\ chosen'[r] \in amendDirs'
             /\ chosen'[r] \in AmendNo => changes'[chosen'[r]] = {}
             /\ \A s \in Amender : s # r /\ amending'[s] = "write" => chosen'[s] # chosen'[r]
  BY <1>1, <1>4, <1>6 DEF RecordsInv
<1> QED
  BY <1>1, <1>2, <1>3, <1>5, <1>6, EndAmendEffect DEF RecordsInv

(* Every step of every amend keeps the records.                            *)
LEMMA AmendStepRecords ==
  ASSUME RecordsInv, NEW q \in Amender, AmendStep(q)
  PROVE  RecordsInv' /\ KeepsRecords
<1>1. CASE IssueAmend(q)
  BY <1>1, WorkingRecords DEF IssueAmend, Amends, RecordsInv
<1>2. CASE FindInactive(q)
  BY <1>2, WorkingRecords DEF FindInactive, Amends, RecordsInv
<1>3. CASE Compare(q)
  <2>1. /\ amending' = [amending EXCEPT ![q] = "compare"]
        /\ UNCHANGED <<amendDirs, changes, chosen>>
    BY <1>3 DEF Compare, Amends
  <2>2. /\ compared' = [r \in Amender |-> compared'[r]]
        /\ draft' = [r \in Amender |-> draft'[r]]
    <3>1. PICK C, D : /\ compared' = [compared EXCEPT ![q] = C]
                      /\ draft' = [draft EXCEPT ![q] = D]
      BY <1>3 DEF Compare
    <3> QED
      BY <3>1 DEF RecordsInv
  <2>3. chosen' = [r \in Amender |-> chosen'[r]]
    BY <2>1 DEF RecordsInv
  <2> QED
    BY <2>1, <2>2, <2>3, WorkingRecords
<1>4. CASE ChooseAmendNumber(q)
  BY <1>4, WorkingRecords DEF ChooseAmendNumber, Amends, RecordsInv
<1>5. CASE Abandon(q)
  <2>1. EndAmend(q) /\ UNCHANGED <<amendDirs, changes>>
    BY <1>5 DEF Abandon
  <2> QED
    BY <2>1, EndAmendEffect, WorkingRecords DEF EndAmend
<1>6. CASE MakeAmendDir(q) \/ WriteAmendment(q) \/ WriteFails(q)
  BY <1>6, MakeAmendDirRecords, WriteAmendmentRecords, WriteFailsRecords
<1>7. CASE EndComparison(q)
  BY <1>7, WorkingRecords DEF EndComparison, Amends, RecordsInv
<1> QED
  BY <1>1, <1>2, <1>3, <1>4, <1>5, <1>6, <1>7 DEF AmendStep

(* Steps of others than the amend commands.                                *)
OthersStep ==
  \/ Begin
  \/ start # "none" /\ \E p \in Proc : KillWorker(p) \/ \E t \in Task : LaunchStep(p, t)
  \/ StrayOutput /\ UNCHANGED <<amendVars, definitionVars>>
  \/ Exhausted
  \/ UNCHANGED vars

(* Nobody but amend touches its files.                                     *)
LEMMA OthersKeepAmend == OthersStep => UNCHANGED amendVars
  BY DEF OthersStep, Begin, KillWorker, LaunchStep, Resolve, ResolveFails, WriteProvenance,
         ResolvedStep, Exhausted, vars

(* A step is one of an amend or of somebody else.                          *)
LEMMA NextSplits == [AmendNext]_vars => OthersStep \/ \E q \in Amender : AmendStep(q)
  BY DEF AmendNext, OthersStep

(* RecordsInv is inductive, and no step changes a record.                  *)
LEMMA RecordsStep == RecordsInv /\ [AmendNext]_vars => RecordsInv' /\ KeepsRecords
  BY NextSplits, OthersKeepAmend, OthersRecords, AmendStepRecords

----
(* Provenance                                                              *)

(* A definition the chain explains: some of the amendments of t on record, *)
(* and the command they give.                                              *)
Explained(t, d) ==
  d.applied \subseteq Applied(t) /\ d.command = CommandAfter(t, d.applied)

ExplainedInv ==
  /\ resolved = [p \in Proc |-> [t \in Task |-> resolved[p][t]]]
  /\ provenance = [t \in Task |-> [n \in AttemptNo |-> provenance[t][n]]]
  /\ \A p \in Proc : \A t \in Task :
       resolved[p][t] # NoDefinition => Explained(t, resolved[p][t])
  /\ ProvenanceExplained

(* Nothing has been resolved yet.                                          *)
LEMMA ExplainedInit == AmendInit => ExplainedInv
  BY DEF AmendInit, ExplainedInv, ProvenanceExplained

(* What was explained stays explained, whatever else is recorded.          *)
LEMMA ExplainedKept ==
  ASSUME KeepsRecords, NEW t, NEW d, Explained(t, d)
  PROVE  d.applied \subseteq Applied(t)' /\ d.command = CommandAfter(t, d.applied)'
<1>1. Applied(t) \subseteq Applied(t)'
  BY DEF KeepsRecords, Applied, Recorded
<1>2. Applied(t) \subseteq AmendNo /\ \A n \in Applied(t) : changes[n] # {}
  BY DEF Applied, Recorded
<1>3. CommandAfter(t, d.applied)' = CommandAfter(t, d.applied)
  <2>1. CASE d.applied = {}
    BY <2>1 DEF CommandAfter
  <2>2. CASE d.applied # {}
    <3>1. Max(d.applied) \in Applied(t)
      BY <2>2, <1>2, MaxOf DEF Explained
    <3>2. changes'[Max(d.applied)] = changes[Max(d.applied)]
      BY <3>1, <1>2 DEF KeepsRecords
    <3>3. ChangeOf(Max(d.applied), t)' = ChangeOf(Max(d.applied), t)
      BY <3>2 DEF ChangeOf
    <3> QED
      BY <2>2, <3>3 DEF CommandAfter
  <2> QED
    BY <2>1, <2>2
<1> QED
  BY <1>1, <1>3 DEF Explained

(* A step that resolves, records or forgets definitions and does nothing   *)
(* else to them.                                                           *)
LEMMA ExplainedPreserved ==
  ASSUME ExplainedInv, KeepsRecords,
         resolved' = [p \in Proc |-> [t \in Task |-> resolved'[p][t]]],
         provenance' = [t \in Task |-> [n \in AttemptNo |-> provenance'[t][n]]],
         \A p \in Proc : \A t \in Task :
           \/ resolved'[p][t] \in {resolved[p][t], NoDefinition}
           \/ resolved'[p][t] = DefinitionOf(t),
         \A t \in Task : \A n \in AttemptNo :
           \/ provenance'[t][n] = provenance[t][n]
           \/ \E p \in Proc : provenance'[t][n] = resolved[p][t]
  PROVE  ExplainedInv'
<1>1. ASSUME NEW p \in Proc, NEW t \in Task, resolved'[p][t] # NoDefinition
      PROVE  Explained(t, resolved'[p][t])
  <2>1. CASE resolved'[p][t] = resolved[p][t]
    BY <1>1, <2>1 DEF ExplainedInv
  <2>2. CASE resolved'[p][t] = DefinitionOf(t)
    BY <2>2 DEF DefinitionOf, Explained, EffectiveCommand
  <2> QED
    BY <1>1, <2>1, <2>2
<1>2. ASSUME NEW t \in Task, NEW n \in AttemptNo, provenance'[t][n] # NoDefinition
      PROVE  Explained(t, provenance'[t][n])
  <2>1. CASE provenance'[t][n] = provenance[t][n]
    BY <1>2, <2>1 DEF ExplainedInv, ProvenanceExplained, Explained
  <2>2. ASSUME NEW p \in Proc, provenance'[t][n] = resolved[p][t]
        PROVE  Explained(t, provenance'[t][n])
    BY <1>2, <2>2 DEF ExplainedInv
  <2> QED
    BY <2>1, <2>2
<1>3. ASSUME NEW p \in Proc, NEW t \in Task, resolved'[p][t] # NoDefinition
      PROVE  Explained(t, resolved[p][t])'
  BY <1>1, <1>3, ExplainedKept, SMTT(30), ZenonT(30) DEF Explained
<1>4. ASSUME NEW t \in Task, NEW n \in AttemptNo, provenance'[t][n] # NoDefinition
      PROVE  Explained(t, provenance[t][n])'
  BY <1>2, <1>4, ExplainedKept, SMTT(30), ZenonT(30) DEF Explained
<1>5. ProvenanceExplained'
  BY <1>4 DEF ProvenanceExplained, Explained, NoDefinition
<1> QED
  BY <1>3, <1>5 DEF ExplainedInv

(* Calls that end or die take their definitions with them.                 *)
LEMMA ForgetResolvedExplained ==
  ASSUME ExplainedInv, NEW p \in Proc, NEW T, ForgetResolved(p, T), UNCHANGED provenance,
         UNCHANGED amendVars
  PROVE  ExplainedInv'
<1>1. /\ resolved' = [q \in Proc |-> [t \in Task |-> resolved'[q][t]]]
      /\ \A q \in Proc : \A t \in Task : resolved'[q][t] \in {resolved[q][t], NoDefinition}
  BY DEF ForgetResolved, ExplainedInv
<1> QED
  BY <1>1, ExplainedPreserved DEF ExplainedInv, KeepsRecords, amendVars

(* New records do not disturb what is resolved or recorded as provenance.  *)
LEMMA UnchangedExplained ==
  ASSUME ExplainedInv, KeepsRecords, UNCHANGED definitionVars
  PROVE  ExplainedInv'
  BY ExplainedPreserved DEF ExplainedInv, definitionVars

(* A worker resolves what the chain says and records what it resolved.     *)
LEMMA LaunchStepExplained ==
  ASSUME ExplainedInv, NEW p \in Proc, NEW t \in Task, LaunchStep(p, t)
  PROVE  ExplainedInv'
<1>1. UNCHANGED amendVars /\ KeepsRecords
  BY DEF LaunchStep, Resolve, ResolveFails, WriteProvenance, ResolvedStep, amendVars, KeepsRecords
<1>2. CASE Resolve(p, t)
  <2>1. /\ resolved' = [q \in Proc |-> [u \in Task |-> resolved'[q][u]]]
        /\ \A q \in Proc : \A u \in Task :
             resolved'[q][u] = IF q = p /\ u = t THEN DefinitionOf(t) ELSE resolved[q][u]
    BY <1>2, SMT, ZenonT(40) DEF Resolve, ExplainedInv
  <2> QED
    BY <1>1, <1>2, <2>1, ExplainedPreserved DEF Resolve, ExplainedInv
<1>3. CASE WriteProvenance(p, t)
  <2>1. /\ provenance' = [u \in Task |-> [n \in AttemptNo |-> provenance'[u][n]]]
        /\ \A u \in Task : \A n \in AttemptNo :
             provenance'[u][n] = IF u = t /\ n = number[p][t] THEN resolved[p][t]
                                 ELSE provenance[u][n]
    BY <1>3 DEF WriteProvenance, ExplainedInv
  <2> QED
    BY <1>1, <1>3, <2>1, ExplainedPreserved DEF WriteProvenance, ExplainedInv
<1>4. CASE Return(p, t) /\ ForgetResolved(p, {t}) /\ UNCHANGED <<amendVars, provenance>>
  BY <1>1, <1>4, ForgetResolvedExplained
<1>5. CASE UNCHANGED definitionVars
  BY <1>1, <1>5, UnchangedExplained
<1> QED
  BY <1>2, <1>3, <1>4, <1>5 DEF LaunchStep, ResolveFails, ResolvedStep

(* ExplainedInv is inductive relative to RecordsInv.                       *)
LEMMA ExplainedStep ==
  ASSUME RecordsInv, ExplainedInv, [AmendNext]_vars
  PROVE  ExplainedInv'
<1>1. KeepsRecords
  BY RecordsStep
<1>2. CASE \E q \in Amender : AmendStep(q)
  <2>1. UNCHANGED definitionVars
    BY <1>2 DEF AmendStep, IssueAmend, FindInactive, Compare, EndComparison,
                ChooseAmendNumber, MakeAmendDir, WriteAmendment, WriteFails, Abandon
  <2> QED
    BY <1>1, <2>1, UnchangedExplained
<1>3. ASSUME NEW p \in Proc, NEW t \in Task, LaunchStep(p, t)
      PROVE  ExplainedInv'
  BY <1>3, LaunchStepExplained
<1>4. ASSUME NEW p \in Proc, KillWorker(p)
      PROVE  ExplainedInv'
  BY <1>4, ForgetResolvedExplained DEF KillWorker
<1>5. CASE UNCHANGED definitionVars
  BY <1>1, <1>5, UnchangedExplained
<1> QED
  BY NextSplits, <1>2, <1>3, <1>4, <1>5 DEF OthersStep, Begin, Exhausted, vars

(* For every graph and number of workers and amends, however these overlap *)
(* or die: what provenance.json says of a launch stays explained.          *)
THEOREM ProvenanceTheorem == AmendSpec => []ProvenanceExplained
<1>1. AmendInit => RecordsInv /\ ExplainedInv
  BY RecordsInit, ExplainedInit
<1>2. RecordsInv /\ ExplainedInv /\ [AmendNext]_vars => (RecordsInv /\ ExplainedInv)'
  BY RecordsStep, ExplainedStep
<1>3. ExplainedInv => ProvenanceExplained
  BY DEF ExplainedInv
<1> QED
  BY <1>1, <1>2, <1>3, PTL DEF AmendSpec

----
(* The chain.  Its operators once more, as functions of the records, to    *)
(* speak of the records before and after a step.                           *)

AppliedIn(ch, t) == {n \in AmendNo : ch[n] # {} /\ \E c \in ch[n] : c.task = t}
ChangeIn(ch, n, t) == CHOOSE c \in ch[n] : c.task = t
CommandIn(ch, t, S) == IF S = {} THEN Frozen[t] ELSE ChangeIn(ch, Max(S), t).after
ChainIn(ch, t) ==
  \A n \in AppliedIn(ch, t) :
    ChangeIn(ch, n, t).before = CommandIn(ch, t, {m \in AppliedIn(ch, t) : m < n})

(* They are the operators of the model, of the records there are.          *)
LEMMA ChainNow ==
  ASSUME NEW t
  PROVE  /\ ChainOK(t) <=> ChainIn(changes, t)
         /\ EffectiveCommand(t) = CommandIn(changes, t, AppliedIn(changes, t))
<1>1. Applied(t) = AppliedIn(changes, t)
  BY DEF Applied, Recorded, AppliedIn
<1>2. \A n : ChangeOf(n, t) = ChangeIn(changes, n, t)
  BY DEF ChangeOf, ChangeIn
<1>3. \A S : CommandAfter(t, S) = CommandIn(changes, t, S)
  BY <1>2 DEF CommandAfter, CommandIn
<1> QED
  BY <1>1, <1>2, <1>3 DEF ChainOK, ChainIn, EffectiveCommand

(* So it is after a step, too.                                             *)
LEMMA ChainThen == \A t \in Task : ChainOK(t)' <=> ChainIn(changes', t)
<1>1. \A t \in Task : ChainOK(t) <=> ChainIn(changes, t)
  BY ChainNow
<1>2. (\A t \in Task : ChainOK(t) <=> ChainIn(changes, t))'
  BY <1>1, PTL
<1> QED
  BY <1>2

(* A record with a greater number than all others, at most one change of   *)
(* each task, and a change of t that starts from the command of the chain. *)
LEMMA ChainExtends ==
  ASSUME NEW ch, NEW new, NEW k \in AmendNo, NEW D, NEW t,
         \A n \in AmendNo : new[n] = IF n = k THEN D ELSE ch[n],
         \A n \in AmendNo : ch[n] # {} => n < k,
         ChainIn(ch, t),
         \A c \in D : c.task = t => c.before = CommandIn(ch, t, AppliedIn(ch, t)),
         \A c, d \in D : c.task = d.task => c = d
  PROVE  ChainIn(new, t)
<1> DEFINE A == AppliedIn(ch, t)
<1>1. A \subseteq AmendNo /\ \A n \in A : n < k /\ n # k
  BY AmendAssumption DEF AppliedIn, AmendNo
<1>2. A \subseteq AppliedIn(new, t) /\ AppliedIn(new, t) \subseteq A \cup {k}
  BY <1>1 DEF AppliedIn
<1>3. \A n \in A : ChangeIn(new, n, t) = ChangeIn(ch, n, t)
  BY <1>1 DEF ChangeIn
<1>4. ASSUME NEW S, S \subseteq A
      PROVE  CommandIn(new, t, S) = CommandIn(ch, t, S)
  <2>1. CASE S = {}
    BY <2>1 DEF CommandIn
  <2>2. CASE S # {}
    <3>1. Max(S) \in A
      BY <2>2, <1>1, <1>4, MaxOf
    <3> QED
      BY <2>2, <3>1, <1>3 DEF CommandIn
  <2> QED
    BY <2>1, <2>2
<1>5. ASSUME NEW n \in AppliedIn(new, t)
      PROVE  ChangeIn(new, n, t).before = CommandIn(new, t, {m \in AppliedIn(new, t) : m < n})
  <2>1. CASE n \in A
    <3>1. {m \in AppliedIn(new, t) : m < n} = {m \in A : m < n}
      BY <2>1, <1>1, <1>2, AmendAssumption DEF AmendNo
    <3>2. ChangeIn(ch, n, t).before = CommandIn(ch, t, {m \in A : m < n})
      BY <2>1 DEF ChainIn
    <3> QED
      BY <2>1, <3>1, <3>2, <1>3, <1>4
  <2>2. CASE n = k
    <3>1. {m \in AppliedIn(new, t) : m < n} = A
      BY <2>2, <1>1, <1>2, AmendAssumption DEF AmendNo
    <3>2. PICK c \in D : c.task = t
      BY <2>2 DEF AppliedIn
    <3>3. ChangeIn(new, n, t) = c
      BY <2>2, <3>2 DEF ChangeIn
    <3> QED
      BY <3>1, <3>2, <3>3, <1>4
  <2> QED
    BY <2>1, <2>2, <1>2
<1> QED
  BY <1>5 DEF ChainIn

(* As long as no amend read the chain while another had: the chain         *)
(* applies, and what the one amend that read it is about to record goes on *)
(* from there, under a number above all others.                            *)
ChainInv ==
  ~overlapped =>
    /\ \A t \in Task : ChainOK(t)
    /\ \A q, r \in Amender : HasRead(q) /\ HasRead(r) => q = r
    /\ \A q \in Amender :
         /\ compared[q] \subseteq Task
         /\ \A c \in draft[q] : c.task \in compared[q] /\ c.before = EffectiveCommand(c.task)
         /\ \A c, d \in draft[q] : c.task = d.task => c = d
         /\ amending[q] \in {"number", "mkdir", "write"} => HasRead(q)
         /\ amending[q] \in {"mkdir", "write"} => \A n \in Recorded : n < chosen[q]

(* Without a record there is nothing to mismatch.                          *)
LEMMA ChainInit == AmendInit => ChainInv
<1> SUFFICES ASSUME AmendInit
             PROVE  ChainInv
  OBVIOUS
<1>1. Recorded = {}
  BY DEF AmendInit, Recorded
<1>2. \A t \in Task : ChainOK(t)
  BY <1>1 DEF ChainOK, Applied
<1> QED
  BY <1>1, <1>2 DEF AmendInit, ChainInv, HasRead

(* Without a new record the chain stays what it is.                        *)
LEMMA ChainSame ==
  ASSUME changes' = changes
  PROVE  /\ Recorded' = Recorded
         /\ \A t \in Task : ChainOK(t)' = ChainOK(t)
         /\ \A t \in Task : EffectiveCommand(t)' = EffectiveCommand(t)
  BY DEF Recorded, ChainOK, EffectiveCommand, Applied, ChangeOf, CommandAfter

(* Workers read the chain only.                                            *)
LEMMA OthersChain ==
  ASSUME ChainInv, UNCHANGED amendVars
  PROVE  ChainInv'
  BY ChainSame DEF ChainInv, HasRead, amendVars

(* An amend that ends, or has not begun to compare.                        *)
LEMMA EarlyChain ==
  ASSUME ChainInv, changes' = changes, overlapped' = overlapped, NEW q \in Amender,
         amending'[q] \in {"idle", "inactive", "compare"},
         \/ compared'[q] = {} /\ draft'[q] = {}
         \/ compared'[q] = compared[q] /\ draft'[q] = draft[q],
         \A r \in Amender \ {q} :
           /\ amending'[r] = amending[r] /\ compared'[r] = compared[r]
           /\ draft'[r] = draft[r] /\ chosen'[r] = chosen[r]
  PROVE  ChainInv'
<1>1. CASE overlapped
  BY <1>1 DEF ChainInv
<1>2. CASE ~overlapped
  <2>1. \A t \in Task : ChainOK(t)'
    BY <1>2, ChainSame DEF ChainInv
  <2>2. \A r \in Amender : HasRead(r)' => HasRead(r)
    BY DEF HasRead
  <2>3. ASSUME NEW r \in Amender
        PROVE  /\ compared'[r] \subseteq Task
               /\ \A c \in draft'[r] :
                    c.task \in compared'[r] /\ c.before = EffectiveCommand(c.task)'
               /\ \A c, d \in draft'[r] : c.task = d.task => c = d
               /\ amending'[r] \in {"number", "mkdir", "write"} => HasRead(r)'
               /\ amending'[r] \in {"mkdir", "write"} => \A n \in Recorded' : n < chosen'[r]
    BY <1>2, ChainSame DEF ChainInv, HasRead
  <2> QED
    BY <1>2, <2>1, <2>2, <2>3 DEF ChainInv
<1> QED
  BY <1>1, <1>2

(* What the only amend that reads the chain drafts goes on from there.     *)
LEMMA CompareChain ==
  ASSUME RecordsInv, ChainInv, NEW q \in Amender, Compare(q)
  PROVE  ChainInv'
<1>1. PICK t \in Task \ compared[q], wanted \in Command :
        /\ compared' = [compared EXCEPT ![q] = @ \cup {t}]
        /\ draft' = [draft EXCEPT ![q] = @ \cup Difference(t, wanted)]
  BY DEF Compare
<1>2. /\ amending[q] = "compare" /\ amending' = amending
      /\ \A r \in Amender : compared'[r] = IF r = q THEN compared[q] \cup {t} ELSE compared[r]
      /\ \A r \in Amender :
           draft'[r] = IF r = q THEN draft[q] \cup Difference(t, wanted) ELSE draft[r]
      /\ changes' = changes /\ chosen' = chosen
      /\ overlapped' = (overlapped \/ \E r \in Amender \ {q} : HasRead(r))
  <2>1. /\ amending = [r \in Amender |-> amending[r]] /\ amending[q] = "compare"
        /\ amending' = [amending EXCEPT ![q] = "compare"]
    BY DEF RecordsInv, Compare, Amends
  <2>2. amending' = amending
    BY <2>1
  <2>3. /\ compared = [r \in Amender |-> compared[r]]
        /\ draft = [r \in Amender |-> draft[r]]
    BY DEF RecordsInv
  <2>4. /\ \A r \in Amender : compared'[r] = IF r = q THEN compared[q] \cup {t} ELSE compared[r]
        /\ \A r \in Amender :
             draft'[r] = IF r = q THEN draft[q] \cup Difference(t, wanted) ELSE draft[r]
    BY <1>1, <2>3
  <2> QED
    BY <2>1, <2>2, <2>4 DEF Compare
<1>3. /\ \A c \in Difference(t, wanted) : c.task = t /\ c.before = EffectiveCommand(t)
      /\ \A c, d \in Difference(t, wanted) : c = d
  BY DEF Difference
<1>4. CASE overlapped'
  BY <1>4 DEF ChainInv
<1>5. CASE ~overlapped'
  <2>1. ~overlapped /\ \A r \in Amender \ {q} : ~HasRead(r)
    BY <1>2, <1>5
  <2>2. \A r \in Amender : HasRead(r)' => r = q
    BY <1>2, <2>1 DEF HasRead
  <2>3. \A u \in Task : ChainOK(u)'
    BY <1>2, <2>1, ChainSame DEF ChainInv
  <2>4. /\ compared'[q] \subseteq Task
        /\ \A c \in draft'[q] : c.task \in compared'[q] /\ c.before = EffectiveCommand(c.task)'
        /\ \A c, d \in draft'[q] : c.task = d.task => c = d
    <3>1. /\ compared[q] \subseteq Task
          /\ \A c \in draft[q] : c.task \in compared[q] /\ c.before = EffectiveCommand(c.task)
          /\ \A c, d \in draft[q] : c.task = d.task => c = d
      BY <2>1 DEF ChainInv
    <3>2. compared'[q] = compared[q] \cup {t} /\ draft'[q] = draft[q] \cup Difference(t, wanted)
      BY <1>2
    <3>3. \A u \in Task : EffectiveCommand(u)' = EffectiveCommand(u)
      BY <1>2, ChainSame
    <3> QED
      BY <1>3, <3>1, <3>2, <3>3
  <2>5. ASSUME NEW r \in Amender
        PROVE  /\ compared'[r] \subseteq Task
               /\ \A c \in draft'[r] :
                    c.task \in compared'[r] /\ c.before = EffectiveCommand(c.task)'
               /\ \A c, d \in draft'[r] : c.task = d.task => c = d
               /\ amending'[r] \in {"number", "mkdir", "write"} => HasRead(r)'
               /\ amending'[r] \in {"mkdir", "write"} => \A n \in Recorded' : n < chosen'[r]
    <3>1. CASE r = q
      BY <1>2, <2>4, <3>1
    <3>2. CASE r # q
      BY <1>2, <2>1, <3>2, ChainSame DEF ChainInv, HasRead
    <3> QED
      BY <3>1, <3>2
  <2> QED
    BY <2>2, <2>3, <2>5 DEF ChainInv
<1> QED
  BY <1>4, <1>5

(* It has read the chain when it has something to record.                  *)
LEMMA EndComparisonChain ==
  ASSUME RecordsInv, ChainInv, NEW q \in Amender, EndComparison(q)
  PROVE  ChainInv'
<1>1. /\ \A r \in Amender : amending'[r] = IF r = q THEN "number" ELSE amending[r]
      /\ UNCHANGED <<changes, compared, draft, chosen, overlapped>> /\ draft[q] # {}
  BY DEF RecordsInv, EndComparison, Amends
<1> QED
  BY <1>1, ChainSame DEF ChainInv, HasRead

(* The number is above all recorded ones.                                  *)
LEMMA ChooseAmendNumberChain ==
  ASSUME RecordsInv, ChainInv, NEW q \in Amender, ChooseAmendNumber(q)
  PROVE  ChainInv'
<1>1. /\ amending[q] = "number"
      /\ \A r \in Amender : amending'[r] = IF r = q THEN "mkdir" ELSE amending[r]
      /\ \A r \in Amender :
           chosen'[r] = IF r = q THEN Max(Recorded \cup {0}) + 1 ELSE chosen[r]
      /\ UNCHANGED <<changes, compared, draft, overlapped>>
  BY DEF RecordsInv, ChooseAmendNumber, Amends
<1>2. \A n \in Recorded : n < Max(Recorded \cup {0}) + 1
  <2>1. Recorded \subseteq AmendNo
    BY DEF Recorded
  <2>2. /\ Max(Recorded \cup {0}) \in AmendNo \cup {0}
        /\ \A m \in Recorded : m <= Max(Recorded \cup {0})
    BY <2>1, MaxOf
  <2> QED
    BY <2>1, <2>2, AmendAssumption DEF AmendNo
<1> QED
  BY <1>1, <1>2, ChainSame DEF ChainInv, HasRead

(* The directory alone is no part of the chain.                            *)
LEMMA MakeAmendDirChain ==
  ASSUME RecordsInv, ChainInv, NEW q \in Amender, MakeAmendDir(q)
  PROVE  ChainInv'
<1>1. /\ amending[q] = "mkdir"
      /\ \A r \in Amender : amending'[r] = IF r = q THEN "write" ELSE amending[r]
      /\ UNCHANGED <<changes, compared, draft, chosen, overlapped>>
  BY DEF RecordsInv, MakeAmendDir, Amends
<1> QED
  BY <1>1, ChainSame DEF ChainInv, HasRead

(* An exception takes back nothing but the amend's own directory.          *)
LEMMA WriteFailsChain ==
  ASSUME RecordsInv, ChainInv, NEW q \in Amender, WriteFails(q)
  PROVE  ChainInv'
<1>1. changes' = changes /\ overlapped' = overlapped /\ EndAmend(q)
  BY DEF RecordsInv, WriteFails
<1> QED
  BY <1>1, EndAmendEffect, EarlyChain

(* The new record extends the chain: no other amend has moved it since.    *)
LEMMA WriteAmendmentChain ==
  ASSUME RecordsInv, ChainInv, NEW q \in Amender, WriteAmendment(q)
  PROVE  ChainInv'
<1>1. /\ amending[q] = "write" /\ EndAmend(q) /\ overlapped' = overlapped
      /\ \A n \in AmendNo : changes'[n] = IF n = chosen[q] THEN draft[q] ELSE changes[n]
  BY DEF RecordsInv, WriteAmendment
<1>2. CASE chosen[q] \notin AmendNo
  <2>1. changes' = changes
    BY <1>1, <1>2, WriteAmendmentRecords DEF RecordsInv
  <2> QED
    BY <1>1, <2>1, EndAmendEffect, EarlyChain
<1>3. CASE chosen[q] \in AmendNo /\ ~overlapped
  <2>1. \A t \in Task : ChainIn(changes', t)
    <3> SUFFICES ASSUME NEW t \in Task
                 PROVE  ChainIn(changes', t)
      OBVIOUS
    <3>1. ChainIn(changes, t)
      BY <1>3, ChainNow DEF ChainInv
    <3>2. \A c \in draft[q] : c.task = t => c.before = CommandIn(changes, t, AppliedIn(changes, t))
      BY <1>1, <1>3, ChainNow DEF ChainInv
    <3>3. \A c, d \in draft[q] : c.task = d.task => c = d
      BY <1>1, <1>3 DEF ChainInv
    <3>4. \A n \in AmendNo : changes[n] # {} => n < chosen[q]
      BY <1>1, <1>3 DEF ChainInv, Recorded
    <3>5. chosen[q] \in AmendNo
      BY <1>3
    <3>6. \A n \in AmendNo : changes'[n] = IF n = chosen[q] THEN draft[q] ELSE changes[n]
      BY <1>1
    <3>7. PICK k \in AmendNo : k = chosen[q]
      BY <3>5
    <3>8. PICK D : D = draft[q]
      OBVIOUS
    <3> QED
      BY <3>1, <3>2, <3>3, <3>4, <3>6, <3>7, <3>8, ChainExtends, SMTT(40)
  <2>2. \A t \in Task : ChainOK(t)'
    BY <2>1, ChainThen
  <2>3. \A r \in Amender \ {q} : compared[r] = {} /\ draft[r] = {}
    BY <1>1, <1>3 DEF ChainInv, HasRead
  <2>4. \A r \in Amender : /\ compared'[r] = {} /\ draft'[r] = {}
                          /\ amending'[r] \notin {"number", "mkdir", "write"}
    BY <1>1, <1>3, <2>3, EndAmendEffect DEF ChainInv, HasRead
  <2> QED
    BY <2>2, <2>4 DEF ChainInv, HasRead
<1> QED
  BY <1>1, <1>2, <1>3 DEF ChainInv

(* ChainInv is inductive relative to RecordsInv.                           *)
LEMMA ChainStep ==
  ASSUME RecordsInv, ChainInv, [AmendNext]_vars
  PROVE  ChainInv'
<1>1. CASE OthersStep
  BY <1>1, OthersKeepAmend, OthersChain
<1>2. ASSUME NEW q \in Amender, AmendStep(q)
      PROVE  ChainInv'
  <2>1. CASE IssueAmend(q)
    BY <2>1, EarlyChain DEF IssueAmend, Amends, RecordsInv
  <2>2. CASE FindInactive(q)
    BY <2>2, EarlyChain DEF FindInactive, Amends, RecordsInv
  <2>3. CASE Abandon(q)
    BY <2>3, EndAmendEffect, EarlyChain DEF Abandon
  <2> QED
    BY <1>2, <2>1, <2>2, <2>3, CompareChain, EndComparisonChain, ChooseAmendNumberChain,
       MakeAmendDirChain, WriteFailsChain, WriteAmendmentChain DEF AmendStep
<1> QED
  BY NextSplits, <1>1, <1>2

(* For every graph and number of workers and amends: while no amend reads  *)
(* the chain that another has read, the chain applies to every task.       *)
THEOREM ChainTheorem == AmendSpec => []ChainApplies
<1>1. AmendInit => RecordsInv /\ ChainInv
  BY RecordsInit, ChainInit
<1>2. RecordsInv /\ ChainInv /\ [AmendNext]_vars => (RecordsInv /\ ChainInv)'
  BY RecordsStep, ChainStep
<1>3. ChainInv => ChainApplies
  BY DEF ChainInv, ChainApplies
<1> QED
  BY <1>1, <1>2, <1>3, PTL DEF AmendSpec

----
(* Types, and the workers under amendments                                 *)

(* The files and local variables of the amend commands.                    *)
AmendFilesOK ==
  /\ amendDirs \subseteq AmendNo
  /\ changes \in [AmendNo -> SUBSET Change]
  /\ \A n \in AmendNo : changes[n] # {} => n \in amendDirs
  /\ amending \in [Amender -> AmendPC]
  /\ compared \in [Amender -> SUBSET Task]
  /\ draft \in [Amender -> SUBSET Change]
  /\ chosen \in [Amender -> 0 .. MaxAmend]
  /\ overlapped \in BOOLEAN

(* What workers resolved and recorded.                                     *)
DefinitionsOK ==
  /\ resolved \in [Proc -> [Task -> Definition \cup {NoDefinition}]]
  /\ provenance \in [Task -> [AttemptNo -> Definition \cup {NoDefinition}]]

Active == {q \in Amender : amending[q] # "idle"}
TopRecorded == Max(Recorded \cup {0})

(* Each amend under way has a number left for it, whichever of them record *)
(* first; a number was chosen above the records of that time.              *)
NumbersLeft ==
  /\ IsFiniteSet(Active)
  /\ Active # {} => TopRecorded + Cardinality(Active) <= MaxAmend
  /\ \A q \in Amender : chosen[q] <= TopRecorded + 1
  /\ \A q \in Amender : amending[q] \in {"mkdir", "write"} => chosen[q] > 0

AmendInv == WorkerInv /\ AmendFilesOK /\ DefinitionsOK /\ NumbersLeft

(* The greatest number on record, or 0.                                    *)
LEMMA TopIsMax ==
  /\ TopRecorded \in 0 .. MaxAmend
  /\ TopRecorded \in Recorded \cup {0}
  /\ \A n \in Recorded : n <= TopRecorded
<1>1. Recorded \cup {0} \subseteq AmendNo \cup {0} /\ Recorded \cup {0} # {}
  BY DEF Recorded
<1>2. TopRecorded \in Recorded \cup {0} /\ \A m \in Recorded \cup {0} : m <= TopRecorded
  BY <1>1, MaxOf DEF TopRecorded
<1> QED
  BY <1>1, <1>2, AmendAssumption DEF AmendNo

(* So it is after a step, too.                                             *)
LEMMA TopThen ==
  /\ TopRecorded' \in 0 .. MaxAmend
  /\ TopRecorded' \in Recorded' \cup {0}
  /\ \A n \in Recorded' : n <= TopRecorded'
<1>1. (/\ TopRecorded \in 0 .. MaxAmend
       /\ TopRecorded \in Recorded \cup {0}
       /\ \A n \in Recorded : n <= TopRecorded)'
  BY TopIsMax, PTL
<1> QED
  BY <1>1

(* Nothing is amended yet.                                                 *)
LEMMA AmendInvInit == AmendInit => AmendInv
<1> SUFFICES ASSUME AmendInit
             PROVE  AmendInv
  OBVIOUS
<1>1. WorkerInv
  BY InitInv DEF AmendInit, WorkerStart
<1>2. AmendFilesOK
  <2>1. chosen \in [Amender -> 0 .. MaxAmend] /\ amending \in [Amender -> AmendPC]
    BY AmendAssumption DEF AmendInit, AmendPC
  <2>2. \A n \in AmendNo : changes[n] = {}
    BY DEF AmendInit
  <2>3. changes \in [AmendNo -> SUBSET Change]
    BY DEF AmendInit
  <2>4. /\ compared \in [Amender -> SUBSET Task] /\ draft \in [Amender -> SUBSET Change]
        /\ amendDirs \subseteq AmendNo /\ overlapped \in BOOLEAN
    BY DEF AmendInit
  <2> QED
    BY <2>1, <2>2, <2>3, <2>4 DEF AmendFilesOK
<1>3. DefinitionsOK
  BY DEF AmendInit, DefinitionsOK
<1>4. Active = {}
  BY DEF AmendInit, Active
<1>5. NumbersLeft
  BY <1>4, TopIsMax, FS_EmptySet, AmendAssumption DEF AmendInit, NumbersLeft
<1> QED
  BY <1>1, <1>2, <1>3, <1>5 DEF AmendInv

(* The command of a task is one of the commands.                           *)
LEMMA CommandTyped ==
  ASSUME AmendFilesOK, NEW t \in Task
  PROVE  EffectiveCommand(t) \in Command
<1>1. CASE Applied(t) = {}
  BY <1>1, AmendAssumption DEF EffectiveCommand, CommandAfter
<1>2. CASE Applied(t) # {}
  <2>1. Max(Applied(t)) \in Applied(t)
    BY <1>2, MaxOf DEF Applied, Recorded
  <2>2. PICK n \in AmendNo : n = Max(Applied(t)) /\ \E c \in changes[n] : c.task = t
    BY <2>1 DEF Applied, Recorded
  <2>3. ChangeOf(n, t) \in changes[n]
    BY <2>2 DEF ChangeOf
  <2>4. ChangeOf(n, t) \in Change
    BY <2>3 DEF AmendFilesOK
  <2> QED
    BY <1>2, <2>2, <2>4 DEF EffectiveCommand, CommandAfter, Change
<1> QED
  BY <1>1, <1>2

(* An amend that goes on, begins or ends changes the amends under way by   *)
(* itself at most.                                                         *)
LEMMA ActiveAfter ==
  ASSUME IsFiniteSet(Active), NEW q \in Amender,
         \A r \in Amender \ {q} : amending'[r] = amending[r]
  PROVE  /\ Cardinality(Active) \in Nat
         /\ amending[q] # "idle" /\ amending'[q] # "idle" => Active' = Active
         /\ amending[q] = "idle" /\ amending'[q] # "idle" =>
              IsFiniteSet(Active') /\ Cardinality(Active') = Cardinality(Active) + 1
         /\ amending[q] # "idle" /\ amending'[q] = "idle" =>
              IsFiniteSet(Active') /\ Cardinality(Active') = Cardinality(Active) - 1
<1>1. Cardinality(Active) \in Nat
  BY FS_CardinalityType
<1>2. ASSUME amending[q] # "idle", amending'[q] # "idle"
      PROVE  Active' = Active
  BY <1>2 DEF Active
<1>3. ASSUME amending[q] = "idle", amending'[q] # "idle"
      PROVE  IsFiniteSet(Active') /\ Cardinality(Active') = Cardinality(Active) + 1
  <2>1. Active' = Active \cup {q} /\ q \notin Active
    BY <1>3 DEF Active
  <2>2. /\ IsFiniteSet(Active \cup {q})
        /\ Cardinality(Active \cup {q}) = Cardinality(Active) + 1
    BY <2>1, FS_AddElement
  <2> QED
    BY <2>1, <2>2
<1>4. ASSUME amending[q] # "idle", amending'[q] = "idle"
      PROVE  IsFiniteSet(Active') /\ Cardinality(Active') = Cardinality(Active) - 1
  <2>1. Active' = Active \ {q} /\ q \in Active
    BY <1>4 DEF Active
  <2>2. /\ IsFiniteSet(Active \ {q})
        /\ Cardinality(Active \ {q}) = Cardinality(Active) - 1
    BY <2>1, FS_RemoveElement
  <2> QED
    BY <2>1, <2>2
<1> QED
  BY <1>1, <1>2, <1>3, <1>4

(* The amends under way still have their numbers when no record is added.  *)
LEMMA NumbersKept ==
  ASSUME AmendInv, NEW q \in Amender, changes' = changes,
         \A r \in Amender \ {q} : amending'[r] = amending[r] /\ chosen'[r] = chosen[r],
         amending[q] # "idle" \/ RoomForAmend,
         chosen'[q] \in {0, chosen[q], TopRecorded + 1},
         amending'[q] \in {"mkdir", "write"} => chosen'[q] > 0
  PROVE  NumbersLeft'
<1>1. TopRecorded' = TopRecorded
  BY DEF TopRecorded, Recorded
<1>2. RoomForAmend <=> TopRecorded + Cardinality(Active) < MaxAmend
  BY DEF RoomForAmend, TopRecorded, Active
<1>3. IsFiniteSet(Active)
  BY DEF AmendInv, NumbersLeft
<1>4. CASE amending[q] = "idle" /\ amending'[q] = "idle"
  <2>1. Active' = Active
    BY <1>4 DEF Active
  <2> QED
    BY <1>1, <1>4, <2>1, TopIsMax, AmendAssumption DEF AmendInv, NumbersLeft
<1>5. CASE amending[q] = "idle" /\ amending'[q] # "idle"
  <2>1. IsFiniteSet(Active') /\ Cardinality(Active') = Cardinality(Active) + 1
    BY <1>3, <1>5, ActiveAfter
  <2>2. Cardinality(Active) \in Nat
    BY <1>3, ActiveAfter
  <2>3. TopRecorded' + Cardinality(Active') <= MaxAmend
    BY <1>1, <1>2, <1>5, <2>1, <2>2, TopIsMax, AmendAssumption
  <2> QED
    BY <1>1, <2>1, <2>3, TopIsMax, AmendAssumption DEF AmendInv, NumbersLeft
<1>6. CASE amending[q] # "idle" /\ amending'[q] # "idle"
  <2>1. Active' = Active
    BY <1>3, <1>6, ActiveAfter
  <2> QED
    BY <1>1, <2>1, TopIsMax, AmendAssumption DEF AmendInv, NumbersLeft
<1>7. CASE amending[q] # "idle" /\ amending'[q] = "idle"
  <2>1. /\ IsFiniteSet(Active') /\ Cardinality(Active') = Cardinality(Active) - 1
        /\ Cardinality(Active) \in Nat /\ Active # {}
    BY <1>3, <1>7, ActiveAfter DEF Active
  <2>2. TopRecorded' + Cardinality(Active') <= MaxAmend
    BY <1>1, <2>1, TopIsMax, AmendAssumption DEF AmendInv, NumbersLeft
  <2> QED
    BY <1>1, <1>7, <2>1, <2>2, TopIsMax, AmendAssumption DEF AmendInv, NumbersLeft
<1> QED
  BY <1>4, <1>5, <1>6, <1>7

(* An amend under way has a number left above the recorded ones.           *)
LEMMA NumberLeft ==
  ASSUME AmendInv, NEW q \in Amender, amending[q] # "idle"
  PROVE  TopRecorded + 1 \in AmendNo
<1>1. IsFiniteSet(Active)
  BY DEF AmendInv, NumbersLeft
<1>2. q \in Active
  BY DEF Active
<1>3. Cardinality(Active) \in Nat /\ Cardinality(Active) # 0
  BY <1>1, <1>2, FS_CardinalityType, FS_EmptySet
<1> QED
  BY <1>2, <1>3, TopIsMax, AmendAssumption DEF AmendInv, NumbersLeft, AmendNo

----
(* The steps of an amend                                                   *)

(* The end of an amend.                                                    *)
LEMMA EndAmendTypes ==
  ASSUME AmendFilesOK, NEW q \in Amender, EndAmend(q)
  PROVE  /\ amending' \in [Amender -> AmendPC]
         /\ compared' \in [Amender -> SUBSET Task]
         /\ draft' \in [Amender -> SUBSET Change]
         /\ chosen' \in [Amender -> 0 .. MaxAmend]
         /\ amending'[q] = "idle" /\ chosen'[q] = 0
         /\ \A r \in Amender \ {q} : amending'[r] = amending[r] /\ chosen'[r] = chosen[r]
<1>1. 0 \in 0 .. MaxAmend /\ "idle" \in AmendPC
  BY AmendAssumption DEF AmendPC
<1> QED
  BY <1>1 DEF AmendFilesOK, EndAmend

(* Until the comparison, amend only reads.                                 *)
LEMMA LookAmendTypes ==
  ASSUME AmendInv, NEW q \in Amender, IssueAmend(q) \/ FindInactive(q)
  PROVE  AmendFilesOK' /\ NumbersLeft'
<1>1. /\ amending' \in [Amender -> AmendPC]
      /\ \A r \in Amender \ {q} : amending'[r] = amending[r]
      /\ amending'[q] \in {"inactive", "compare"}
      /\ UNCHANGED <<amendDirs, changes, compared, draft, chosen, overlapped>>
  BY DEF AmendInv, AmendFilesOK, IssueAmend, FindInactive, Amends, AmendPC
<1>2. amending[q] # "idle" \/ RoomForAmend
  BY DEF IssueAmend, FindInactive, Amends
<1>3. NumbersLeft'
  BY <1>1, <1>2, NumbersKept
<1> QED
  BY <1>1, <1>3 DEF AmendInv, AmendFilesOK

(* The changes drafted are changes of commands of the campaign.            *)
LEMMA CompareTypes ==
  ASSUME AmendInv, NEW q \in Amender, Compare(q)
  PROVE  AmendFilesOK' /\ NumbersLeft'
<1>1. PICK t \in Task, wanted \in Command :
        /\ compared' = [compared EXCEPT ![q] = @ \cup {t}]
        /\ draft' = [draft EXCEPT ![q] = @ \cup Difference(t, wanted)]
  BY DEF Compare
<1>2. Difference(t, wanted) \subseteq Change
  BY CommandTyped DEF AmendInv, Difference, Change
<1>3. compared' \in [Amender -> SUBSET Task] /\ draft' \in [Amender -> SUBSET Change]
  BY <1>1, <1>2 DEF AmendInv, AmendFilesOK
<1>4. /\ amending' = amending /\ amending[q] = "compare"
      /\ UNCHANGED <<amendDirs, changes, chosen>>
  BY DEF AmendInv, AmendFilesOK, Compare, Amends
<1>5. overlapped' \in BOOLEAN
  BY DEF Compare
<1>6. NumbersLeft'
  BY <1>4, NumbersKept
<1> QED
  BY <1>3, <1>4, <1>5, <1>6 DEF AmendInv, AmendFilesOK

(* A change is to be recorded.                                             *)
LEMMA EndComparisonTypes ==
  ASSUME AmendInv, NEW q \in Amender, EndComparison(q)
  PROVE  AmendFilesOK' /\ NumbersLeft'
<1>1. /\ amending' \in [Amender -> AmendPC] /\ amending[q] # "idle"
      /\ \A r \in Amender \ {q} : amending'[r] = amending[r]
      /\ amending'[q] = "number"
      /\ UNCHANGED <<amendDirs, changes, compared, draft, chosen, overlapped>>
  BY DEF AmendInv, AmendFilesOK, EndComparison, Amends, AmendPC
<1>2. NumbersLeft'
  BY <1>1, NumbersKept
<1> QED
  BY <1>1, <1>2 DEF AmendInv, AmendFilesOK

(* There is a number to choose.                                            *)
LEMMA ChooseAmendNumberTypes ==
  ASSUME AmendInv, NEW q \in Amender, ChooseAmendNumber(q)
  PROVE  AmendFilesOK' /\ NumbersLeft'
<1>1. /\ amending' \in [Amender -> AmendPC] /\ amending[q] # "idle"
      /\ \A r \in Amender \ {q} : amending'[r] = amending[r]
      /\ UNCHANGED <<amendDirs, changes, compared, draft, overlapped>>
  BY DEF AmendInv, AmendFilesOK, ChooseAmendNumber, Amends, AmendPC
<1>2. TopRecorded + 1 \in AmendNo
  BY <1>1, NumberLeft
<1>3. /\ TopRecorded + 1 \in 0 .. MaxAmend
      /\ TopRecorded + 1 > 0
  BY <1>2, AmendAssumption DEF AmendNo
<1>4. chosen' = [chosen EXCEPT ![q] = TopRecorded + 1]
  BY DEF ChooseAmendNumber, TopRecorded
<1>5. /\ chosen' \in [Amender -> 0 .. MaxAmend]
      /\ chosen'[q] = TopRecorded + 1
      /\ \A r \in Amender \ {q} : chosen'[r] = chosen[r]
  BY <1>3, <1>4 DEF AmendInv, AmendFilesOK
<1>6. NumbersLeft'
  BY <1>1, <1>3, <1>5, NumbersKept
<1> QED
  BY <1>1, <1>5, <1>6 DEF AmendInv, AmendFilesOK

(* The directory is made under the number chosen.                          *)
LEMMA MakeAmendDirTypes ==
  ASSUME AmendInv, NEW q \in Amender, MakeAmendDir(q)
  PROVE  AmendFilesOK' /\ NumbersLeft'
<1>1. /\ amending' \in [Amender -> AmendPC] /\ amending[q] = "mkdir"
      /\ \A r \in Amender \ {q} : amending'[r] = amending[r]
      /\ UNCHANGED <<changes, compared, draft, chosen, overlapped>>
      /\ amendDirs' = amendDirs \cup {chosen[q]}
  BY DEF AmendInv, AmendFilesOK, MakeAmendDir, Amends, AmendPC
<1>2. chosen[q] > 0 /\ chosen[q] \in 0 .. MaxAmend
  BY <1>1 DEF AmendInv, NumbersLeft, AmendFilesOK
<1>3. chosen[q] \in AmendNo
  BY <1>2, AmendAssumption DEF AmendNo
<1>4. NumbersLeft'
  BY <1>1, <1>2, NumbersKept
<1> QED
  BY <1>1, <1>3, <1>4 DEF AmendInv, AmendFilesOK

(* An amend that gives up, or fails to write, leaves no record.            *)
LEMMA GiveUpTypes ==
  ASSUME RecordsInv, AmendInv, NEW q \in Amender, WriteFails(q) \/ Abandon(q)
  PROVE  AmendFilesOK' /\ NumbersLeft'
<1>1. /\ EndAmend(q) /\ amending[q] # "idle"
      /\ overlapped' = overlapped /\ amendDirs' \subseteq amendDirs
  BY DEF WriteFails, Abandon
<1>2. changes' = changes
  BY DEF RecordsInv, WriteFails, Abandon
<1>3. \A n \in AmendNo : changes'[n] # {} => n \in amendDirs'
  BY WriteFailsRecords DEF AmendInv, AmendFilesOK, RecordsInv, Abandon
<1>4. NumbersLeft'
  BY <1>1, <1>2, EndAmendTypes, NumbersKept DEF AmendInv
<1> QED
  BY <1>1, <1>2, <1>3, <1>4, EndAmendTypes DEF AmendInv, AmendFilesOK

(* The record moves the greatest number by one at most, and its writer no  *)
(* longer needs a number.                                                  *)
LEMMA WriteAmendmentTypes ==
  ASSUME RecordsInv, AmendInv, NEW q \in Amender, WriteAmendment(q)
  PROVE  AmendFilesOK' /\ NumbersLeft'
<1>1. /\ EndAmend(q) /\ amending[q] = "write" /\ amendDirs' = amendDirs /\ overlapped' = overlapped
      /\ changes' = [changes EXCEPT ![chosen[q]] = draft[q]]
  BY DEF WriteAmendment
<1>2. chosen[q] > 0 /\ chosen[q] \in 0 .. MaxAmend /\ chosen[q] <= TopRecorded + 1
  BY <1>1 DEF AmendInv, NumbersLeft, AmendFilesOK
<1>3. changes' \in [AmendNo -> SUBSET Change]
  BY <1>1 DEF AmendInv, AmendFilesOK
<1>4. \A n \in AmendNo : changes'[n] # {} => n \in amendDirs'
  BY WriteAmendmentRecords DEF RecordsInv
<1>5. /\ TopRecorded' \in 0 .. MaxAmend /\ TopRecorded' \in Recorded' \cup {0}
      /\ \A n \in Recorded' : n <= TopRecorded'
  BY TopThen
<1>6. Recorded' \subseteq Recorded \cup {chosen[q]}
  BY <1>1, <1>3 DEF Recorded, AmendInv, AmendFilesOK
<1>7. Recorded \subseteq Recorded'
  BY WriteAmendmentRecords DEF KeepsRecords, Recorded
<1>8. TopRecorded' <= TopRecorded + 1
  BY <1>2, <1>5, <1>6, TopIsMax, AmendAssumption DEF Recorded, AmendNo
<1>9. TopRecorded <= TopRecorded'
  BY <1>5, <1>7, TopIsMax
<1>10. NumbersLeft'
  <2>1. IsFiniteSet(Active) /\ Active # {}
    BY <1>1 DEF AmendInv, NumbersLeft, Active
  <2>2. /\ IsFiniteSet(Active') /\ Cardinality(Active') = Cardinality(Active) - 1
        /\ Cardinality(Active) \in Nat
    BY <1>1, <2>1, EndAmendTypes, ActiveAfter DEF AmendInv
  <2>3. TopRecorded' + Cardinality(Active') <= MaxAmend
    BY <1>5, <1>8, <2>1, <2>2, TopIsMax, AmendAssumption DEF AmendInv, NumbersLeft
  <2>4. \A r \in Amender : chosen'[r] <= TopRecorded' + 1
    <3> SUFFICES ASSUME NEW r \in Amender
                 PROVE  chosen'[r] <= TopRecorded' + 1
      OBVIOUS
    <3>1. chosen'[r] = 0 \/ chosen'[r] = chosen[r]
      BY <1>1, EndAmendTypes DEF AmendInv
    <3>2. chosen[r] \in 0 .. MaxAmend /\ chosen[r] <= TopRecorded + 1
      BY DEF AmendInv, AmendFilesOK, NumbersLeft
    <3> QED
      BY <1>5, <1>9, <3>1, <3>2, TopIsMax, AmendAssumption
  <2>5. \A r \in Amender : amending'[r] \in {"mkdir", "write"} => chosen'[r] > 0
    BY <1>1, EndAmendTypes DEF AmendInv, NumbersLeft
  <2> QED
    BY <2>2, <2>3, <2>4, <2>5 DEF NumbersLeft
<1> QED
  BY <1>1, <1>3, <1>4, <1>10, EndAmendTypes DEF AmendInv, AmendFilesOK

(* An amend keeps its types and its numbers, and leaves the workers alone. *)
LEMMA AmendStepTypes ==
  ASSUME RecordsInv, AmendInv, NEW q \in Amender, AmendStep(q)
  PROVE  AmendInv'
<1>1. UNCHANGED workerVars /\ UNCHANGED definitionVars
  BY DEF AmendStep, IssueAmend, FindInactive, Compare, EndComparison, ChooseAmendNumber,
         MakeAmendDir, WriteAmendment, WriteFails, Abandon
<1>2. WorkerInv'
  BY <1>1, NextInv DEF AmendInv
<1>3. DefinitionsOK'
  BY <1>1 DEF AmendInv, DefinitionsOK, definitionVars
<1>4. AmendFilesOK' /\ NumbersLeft'
  BY LookAmendTypes, CompareTypes, EndComparisonTypes, ChooseAmendNumberTypes, MakeAmendDirTypes,
     GiveUpTypes, WriteAmendmentTypes DEF AmendStep
<1> QED
  BY <1>2, <1>3, <1>4 DEF AmendInv

----
(* The steps of workers that read the chain                                *)

(* What a worker resolves is a definition.                                 *)
LEMMA DefinitionTyped ==
  ASSUME AmendFilesOK, NEW t \in Task
  PROVE  DefinitionOf(t) \in Definition
<1>1. Applied(t) \subseteq AmendNo
  BY DEF Applied, Recorded
<1> QED
  BY <1>1, CommandTyped DEF DefinitionOf, Definition

(* An amendment chain that does not apply raises before anything is made.  *)
LEMMA ResolveFailsWorker ==
  ASSUME WorkerInv, NEW p \in Proc, NEW t \in Task, ResolveFails(p, t)
  PROVE  WorkerInv'
  BY MaxAttemptAssumption
  DEF WorkerInv, WorkerTypeOK, DiskTypeOK, AttemptOwned, AttemptsContiguous,
      StateBackedByAttempt, StateOK, CallConsistent, CallOK, OwnsAttempt, OwnerPC,
      WorkerPC, Terminal, diskVars, stateVars, startVars, fileVars, Goto, ResolveFails

(* The start the amends wait for writes start.json alone.                  *)
LEMMA BeginWorker ==
  ASSUME WorkerInv, Begin
  PROVE  WorkerInv'
<1>1. /\ start' = "keep"
      /\ UNCHANGED <<status, attempts, attempt, files, stray, startPending, callVars>>
  BY DEF Begin, stateVars, fileVars
<1>2. DiskTypeOK'
  <2>1. DiskTypeOK
    BY DEF WorkerInv, WorkerTypeOK
  <2>2. "keep" \in Record
    BY DEF Record, Policy
  <2> QED
    BY <1>1, <2>1, <2>2 DEF DiskTypeOK
<1> QED
  BY <1>1, <1>2, StatusInv

(* Resolving, recording and forgetting definitions keeps their types.      *)
LEMMA LaunchStepTypes ==
  ASSUME AmendInv, NEW p \in Proc, NEW t \in Task, LaunchStep(p, t)
  PROVE  WorkerInv' /\ DefinitionsOK'
<1>1. CASE Resolve(p, t)
  <2>1. /\ resolved' = [resolved EXCEPT ![p][t] = DefinitionOf(t)]
        /\ UNCHANGED <<workerVars, provenance>>
    BY <1>1 DEF Resolve
  <2>2. DefinitionOf(t) \in Definition \cup {NoDefinition}
    BY DefinitionTyped DEF AmendInv
  <2>3. resolved' \in [Proc -> [Task -> Definition \cup {NoDefinition}]]
    BY <2>1, <2>2 DEF AmendInv, DefinitionsOK
  <2> QED
    BY <2>1, <2>3, NextInv DEF AmendInv, DefinitionsOK
<1>2. CASE ResolveFails(p, t)
  BY <1>2, ResolveFailsWorker DEF AmendInv, DefinitionsOK, ResolveFails, definitionVars
<1>3. CASE WriteProvenance(p, t)
  <2>1. WorkerInv'
    BY <1>3, WorkerStepInv DEF WriteProvenance, WorkerStep, AmendInv
  <2>2. /\ provenance' = [provenance EXCEPT ![t][number[p][t]] = resolved[p][t]]
        /\ resolved' = resolved
    BY <1>3 DEF WriteProvenance
  <2>3. resolved[p][t] \in Definition \cup {NoDefinition}
    BY DEF AmendInv, DefinitionsOK
  <2>4. provenance' \in [Task -> [AttemptNo -> Definition \cup {NoDefinition}]]
    BY <2>2, <2>3 DEF AmendInv, DefinitionsOK
  <2> QED
    BY <2>1, <2>2, <2>4 DEF AmendInv, DefinitionsOK
<1>4. CASE ResolvedStep(p, t)
  <2>1. WorkerInv'
    BY <1>4, WorkerStepInv DEF ResolvedStep, AmendInv
  <2> QED
    BY <1>4, <2>1 DEF ResolvedStep, AmendInv, DefinitionsOK, definitionVars
<1>5. CASE Call(p, t) /\ UNCHANGED <<amendVars, definitionVars>>
  <2>1. WorkerInv'
    BY <1>5, NextInv DEF WorkerNext, AmendInv
  <2> QED
    BY <1>5, <2>1 DEF AmendInv, DefinitionsOK, definitionVars
<1>6. CASE Return(p, t) /\ ForgetResolved(p, {t}) /\ UNCHANGED <<amendVars, provenance>>
  <2>1. WorkerInv'
    BY <1>6, NextInv DEF WorkerNext, AmendInv
  <2> QED
    BY <1>6, <2>1 DEF AmendInv, DefinitionsOK, ForgetResolved
<1> QED
  BY <1>1, <1>2, <1>3, <1>4, <1>5, <1>6 DEF LaunchStep

(* The steps of everybody else but amend.                                  *)
LEMMA OthersTypes ==
  ASSUME AmendInv, OthersStep
  PROVE  AmendInv'
<1>1. UNCHANGED amendVars
  BY OthersKeepAmend
<1>2. AmendFilesOK' /\ NumbersLeft'
  BY <1>1 DEF AmendInv, AmendFilesOK, NumbersLeft, Active, TopRecorded, Recorded, amendVars
<1>3. CASE Begin
  BY <1>2, <1>3, BeginWorker DEF AmendInv, DefinitionsOK, Begin, definitionVars
<1>4. ASSUME NEW p \in Proc, KillWorker(p)
      PROVE  WorkerInv' /\ DefinitionsOK'
  <2>1. WorkerInv'
    BY <1>4, NextInv DEF KillWorker, WorkerNext, AmendInv
  <2> QED
    BY <1>4, <2>1 DEF KillWorker, AmendInv, DefinitionsOK, ForgetResolved
<1>5. ASSUME NEW p \in Proc, NEW t \in Task, LaunchStep(p, t)
      PROVE  WorkerInv' /\ DefinitionsOK'
  BY <1>5, LaunchStepTypes
<1>6. CASE (StrayOutput \/ UNCHANGED workerVars) /\ UNCHANGED definitionVars
  <2>1. WorkerInv'
    BY <1>6, NextInv DEF WorkerNext, AmendInv
  <2>2. UNCHANGED definitionVars
    BY <1>6
  <2>3. DefinitionsOK'
    BY <2>2 DEF AmendInv, DefinitionsOK, definitionVars
  <2> QED
    BY <1>2, <2>1, <2>3 DEF AmendInv
<1> QED
  BY <1>2, <1>3, <1>4, <1>5, <1>6 DEF AmendInv, OthersStep, Exhausted, vars

(* AmendInv is inductive relative to RecordsInv.                           *)
LEMMA AmendInvStep ==
  ASSUME RecordsInv, AmendInv, [AmendNext]_vars
  PROVE  AmendInv'
  BY NextSplits, OthersTypes, AmendStepTypes

(* The workers' invariant, the types and the numbers left hold under       *)
(* amendments, for every graph and number of workers and amends.           *)
THEOREM AmendInvariant == AmendSpec => []AmendInv
<1>1. AmendInit => RecordsInv /\ AmendInv
  BY RecordsInit, AmendInvInit
<1>2. RecordsInv /\ AmendInv /\ [AmendNext]_vars => (RecordsInv /\ AmendInv)'
  BY RecordsStep, AmendInvStep
<1> QED
  BY <1>1, <1>2, PTL DEF AmendSpec

(* Every file and every process of amend and run_task stays in its type.   *)
THEOREM AmendTypeCorrect == AmendSpec => []AmendTypeOK
<1>1. AmendInv => AmendTypeOK
  BY DEF AmendInv, WorkerInv, AmendFilesOK, DefinitionsOK, AmendTypeOK
<1> QED
  BY <1>1, AmendInvariant, PTL

(* A step of a call keeps terminal records, also the one that raises.      *)
LEMMA AmendKeepsTerminal ==
  ASSUME RecordsInv, AmendInv, [AmendNext]_vars
  PROVE  KeepsTerminal
<1>0. WorkerInv
  BY DEF AmendInv
<1>1. CASE UNCHANGED attempt
  BY <1>1 DEF KeepsTerminal
<1>2. CASE [WorkerNext]_workerVars
  BY <1>0, <1>2, NextInv
<1>3. ASSUME NEW p \in Proc, NEW t \in Task, LaunchStep(p, t)
      PROVE  KeepsTerminal
  <2>1. CASE Resolve(p, t)
    BY <1>1, <2>1 DEF Resolve, workerVars, diskVars
  <2>2. CASE ResolveFails(p, t)
    BY <1>1, <2>2 DEF ResolveFails, diskVars
  <2>3. CASE WriteProvenance(p, t) \/ ResolvedStep(p, t)
    BY <1>0, <2>3, WorkerStepInv DEF WriteProvenance, WorkerStep, ResolvedStep
  <2>4. CASE Call(p, t) \/ Return(p, t)
    BY <1>2, <2>4 DEF WorkerNext
  <2> QED
    BY <1>3, <2>1, <2>2, <2>3, <2>4 DEF LaunchStep
<1>4. CASE OthersStep
  BY <1>1, <1>2, <1>3, <1>4
  DEF OthersStep, Begin, KillWorker, Exhausted, WorkerNext, vars, workerVars
<1>5. ASSUME NEW q \in Amender, AmendStep(q)
      PROVE  UNCHANGED attempt
  BY <1>5
  DEF AmendStep, IssueAmend, FindInactive, Compare, EndComparison, ChooseAmendNumber,
      MakeAmendDir, WriteAmendment, WriteFails, Abandon, workerVars, diskVars
<1> QED
  BY <1>1, <1>4, <1>5, NextSplits

(* What run_task guarantees alone it guarantees under amendments: also a   *)
(* call that raises over its chain leaves nothing behind, and none         *)
(* rewrites a terminal attempt record.                                     *)
THEOREM AmendedAttemptsSound ==
  AmendSpec =>
    /\ [](AttemptOwned /\ AttemptsContiguous /\ StateBackedByAttempt /\ CallConsistent)
    /\ TerminalAttemptsKept
<1>1. AmendInv => AttemptOwned /\ AttemptsContiguous /\ StateBackedByAttempt /\ CallConsistent
  BY DEF AmendInv, WorkerInv
<1>2. RecordsInv /\ AmendInv /\ [AmendNext]_vars =>
        [\A t \in Task : \A n \in AttemptNo :
           attempt[t][n] \in Terminal => attempt'[t][n] = attempt[t][n]]_workerVars
  BY AmendKeepsTerminal DEF KeepsTerminal
<1>3. AmendInit => RecordsInv /\ AmendInv
  BY RecordsInit, AmendInvInit
<1>4. RecordsInv /\ AmendInv /\ [AmendNext]_vars => (RecordsInv /\ AmendInv)'
  BY RecordsStep, AmendInvStep
<1> QED
  BY <1>1, <1>2, <1>3, <1>4, AmendInvariant, PTL DEF AmendSpec, TerminalAttemptsKept
====
