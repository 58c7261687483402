---- MODULE LoadProofs ----
(***************************************************************************)
(* From a Yallfile to a campaign's tasks, for any templates and tables.    *)
(* First the graph check, for graphs of any size: what it accepts can be   *)
(* put in an order in which every task comes after its parents.  Then wall *)
(* times, and the expansion of templates into tasks.                       *)
(***************************************************************************)
EXTENDS Load, SequenceTheorems, WellFoundedInduction, TLAPS

(* A finished visit has finished all parents before it; a visit under way  *)
(* has finished those it no longer has to look at.                         *)
Done(n) == \A p \in parents[n] : color[p] = "done" /\ rank[p] < rank[n]
Open(n) == \A p \in parents[n] \ todo[n] : color[p] = "done"

SearchTypeOK ==
  /\ parents \in [nodes -> SUBSET nodes]
  /\ color \in [nodes -> Color]
  /\ path \in Seq(nodes)
  /\ todo \in [nodes -> SUBSET nodes]
  /\ rank \in [nodes -> Nat]
  /\ ended \in Nat

SearchInv ==
  /\ SearchTypeOK
  /\ \A n \in nodes : rank[n] <= ended
  /\ \A i \in 1 .. Len(path) : color[path[i]] = "open"
  /\ \A i, j \in 1 .. Len(path) : i # j => path[i] # path[j]
  /\ \A n \in nodes : color[n] = "done" => Done(n)
  /\ \A n \in nodes : color[n] = "open" => Open(n)
  /\ \A n \in nodes : color[n] = "open" => todo[n] \subseteq parents[n]
  /\ \A i \in 1 .. Len(path) - 1 : path[i + 1] \in parents[path[i]]
  /\ \A n \in nodes : color[n] = "open" => \E i \in 1 .. Len(path) : path[i] = n
  /\ phase = "accepted" => OneOwner
  /\ phase \in {"owners", "accepted"} => \A n \in nodes : color[n] = "done"

Searching == phase \in {"visit", "owners", "accepted"}

CheckInv ==
  /\ parents = [n \in nodes |-> parents[n]]
  /\ phase = "check" => SearchInit
  /\ Searching => SearchInv

(* The search starts with nothing visited and every parent known.          *)
LEMMA SearchStarts == CheckInv /\ CheckParents => SearchInv'
<1> SUFFICES ASSUME CheckInv, CheckParents PROVE SearchInv'
  OBVIOUS
<1>1. SearchInit /\ parents \in [nodes -> SUBSET nodes]
  BY DEF CheckInv, CheckParents, ParentsKnown
<1>2. UNCHANGED <<graphVars, searchVars>> /\ phase' = "visit"
  BY DEF CheckParents
<1>3. SearchTypeOK'
  BY <1>1, <1>2 DEF SearchInit, SearchTypeOK, Color, graphVars, searchVars
<1>4. Len(path') = 0
  BY <1>1, <1>2 DEF SearchInit, searchVars
<1> QED
  BY <1>1, <1>2, <1>3, <1>4 DEF SearchInit, SearchInv, graphVars, searchVars

(* A visit begins: the task joins the path with all its parents to do.     *)
LEMMA VisitPreserves ==
  ASSUME SearchInv, NEW n \in nodes, color[n] = "new", phase = "visit", Visit(n),
         path # <<>> => n \in parents[Top]
  PROVE  SearchInv'
<1> USE DEF SearchInv, SearchTypeOK
<1>1. SearchTypeOK'
  BY DEF Visit, graphVars, Color
<1>2. /\ Len(path') = Len(path) + 1
      /\ \A i \in 1 .. Len(path) : path'[i] = path[i]
      /\ path'[Len(path) + 1] = n
  BY DEF Visit
<1>3. \A i \in 1 .. Len(path) : path[i] # n
  OBVIOUS
<1>4. \A i \in 1 .. Len(path') : color'[path'[i]] = "open"
  BY <1>2 DEF Visit
<1>5. \A i, j \in 1 .. Len(path') : i # j => path'[i] # path'[j]
  <2> SUFFICES ASSUME NEW i \in 1 .. Len(path'), NEW j \in 1 .. Len(path'), i # j
               PROVE  path'[i] # path'[j]
    OBVIOUS
  <2>1. Len(path) \in Nat
    OBVIOUS
  <2>2. CASE i = Len(path) + 1
    <3>1. j \in 1 .. Len(path)
      BY <2>1, <2>2, <1>2
    <3>2. path'[j] = path[j] /\ path[j] # n
      BY <3>1, <1>2, <1>3
    <3>3. path'[i] = n
      BY <2>2, <1>2
    <3> QED
      BY <3>2, <3>3
  <2>3. CASE j = Len(path) + 1
    <3>1. i \in 1 .. Len(path)
      BY <2>1, <2>3, <1>2
    <3>2. path'[i] = path[i] /\ path[i] # n
      BY <3>1, <1>2, <1>3
    <3>3. path'[j] = n
      BY <2>3, <1>2
    <3> QED
      BY <3>2, <3>3
  <2>4. CASE i \in 1 .. Len(path) /\ j \in 1 .. Len(path)
    BY <2>4, <1>2
  <2> QED
    BY <2>1, <2>2, <2>3, <2>4, <1>2
<1>6. \A m \in nodes' : color'[m] = "done" => Done(m)'
  BY DEF Visit, Done, graphVars
<1>7. \A m \in nodes' : color'[m] = "open" => Open(m)'
  BY DEF Visit, Open, graphVars
<1>8. \A m \in nodes' : color'[m] = "open" => todo'[m] \subseteq parents'[m]
  BY DEF Visit, graphVars
<1>9. \A i \in 1 .. Len(path') - 1 : path'[i + 1] \in parents'[path'[i]]
  <2> SUFFICES ASSUME NEW i \in 1 .. Len(path') - 1
               PROVE  path'[i + 1] \in parents[path'[i]]
    BY DEF Visit, graphVars
  <2>1. CASE i = Len(path)
    <3>1. path # <<>> /\ Top = path[i] /\ path'[i] = path[i] /\ path'[i + 1] = n
      BY <2>1, <1>2 DEF Top
    <3> QED
      BY <3>1
  <2>2. CASE i # Len(path)
    <3>1. i \in 1 .. Len(path) - 1
      BY <2>2, <1>2
    <3>2. path'[i] = path[i] /\ path'[i + 1] = path[i + 1]
      BY <3>1, <1>2
    <3> QED
      BY <3>1, <3>2
  <2> QED
    BY <2>1, <2>2
<1>10. \A m \in nodes' : color'[m] = "open" => \E i \in 1 .. Len(path') : path'[i] = m
  <2> SUFFICES ASSUME NEW m \in nodes, color'[m] = "open"
               PROVE  \E i \in 1 .. Len(path') : path'[i] = m
    BY DEF Visit, graphVars
  <2>1. CASE m = n
    BY <2>1, <1>2
  <2>2. CASE m # n
    <3>1. PICK i \in 1 .. Len(path) : path[i] = m
      BY <2>2 DEF Visit
    <3> QED
      BY <3>1, <1>2
  <2> QED
    BY <2>1, <2>2
<1> QED
  BY <1>1, <1>4, <1>5, <1>6, <1>7, <1>8, <1>9, <1>10 DEF Visit, graphVars

(* A parent that is done leaves the parents to do.                         *)
LEMMA PassPreserves ==
  ASSUME SearchInv, NEW p \in nodes, PassParent(p)
  PROVE  SearchInv'
<1> USE DEF SearchInv, SearchTypeOK
<1>1. Top \in nodes /\ color[Top] = "open"
  BY DEF PassParent, Top
<1>2. SearchTypeOK'
  BY <1>1 DEF PassParent, graphVars
<1>3. \A m \in nodes' : color'[m] = "open" => Open(m)'
  BY <1>1 DEF PassParent, Open, graphVars
<1>4. \A m \in nodes' : color'[m] = "done" => Done(m)'
  BY DEF PassParent, Done, graphVars
<1>5. \A m \in nodes' : color'[m] = "open" => todo'[m] \subseteq parents'[m]
  BY <1>1 DEF PassParent, graphVars
<1> QED
  BY <1>2, <1>3, <1>4, <1>5 DEF PassParent, graphVars

(* A path without its last task.                                           *)
LEMMA FrontOfPath ==
  ASSUME NEW S, NEW s \in Seq(S), Len(s) > 0
  PROVE  /\ Len(SubSeq(s, 1, Len(s) - 1)) = Len(s) - 1
         /\ \A i \in 1 .. Len(s) - 1 : SubSeq(s, 1, Len(s) - 1)[i] = s[i]
         /\ SubSeq(s, 1, Len(s) - 1) \in Seq(S)
<1>1. PICK n \in Nat : n = Len(s)
  OBVIOUS
<1>2. n > 0
  BY <1>1
<1> DEFINE f == SubSeq(s, 1, n - 1)
<1> HIDE DEF f
<1>3. \A i \in 1 .. n - 1 : s[i] \in S
  BY <1>1
<1>4. /\ f \in Seq(S)
      /\ Len(f) = IF 1 <= n - 1 THEN n - 1 - 1 + 1 ELSE 0
      /\ \A i \in 1 .. n - 1 - 1 + 1 : f[i] = s[1 + i - 1]
  <2> HIDE <1>1
  <2>1. 1 \in Int /\ n - 1 \in Int
    OBVIOUS
  <2> QED
    BY <2>1, <1>3, SubSeqProperties DEF f
<1>5. Len(f) = n - 1
  BY <1>2, <1>4
<1>6. \A i \in 1 .. n - 1 : f[i] = s[i]
  BY <1>2, <1>4
<1> QED
  BY <1>1, <1>4, <1>5, <1>6 DEF f

(* A visit ends when all its parents are done: it is ranked above them.    *)
LEMMA EndPreserves ==
  ASSUME SearchInv, EndVisit
  PROVE  SearchInv'
<1> USE DEF SearchInv, SearchTypeOK
<1>1. Len(path) > 0 /\ Top \in nodes /\ color[Top] = "open" /\ Top = path[Len(path)]
  BY DEF EndVisit, Top
<1>2. \A p \in parents[Top] : color[p] = "done" /\ p # Top
  BY <1>1 DEF EndVisit, Open
<1>3. /\ Len(path') = Len(path) - 1
      /\ \A i \in 1 .. Len(path) - 1 : path'[i] = path[i]
      /\ path' \in Seq(nodes)
  <2>1. path' = SubSeq(path, 1, Len(path) - 1) /\ Len(path) \in Nat
    BY DEF EndVisit
  <2> QED
    BY <2>1, <1>1, FrontOfPath
<1>4. SearchTypeOK'
  BY <1>1, <1>3 DEF EndVisit, graphVars, Color
<1>5. \A m \in nodes' : rank'[m] <= ended'
  BY <1>1 DEF EndVisit, graphVars
<1>6. \A i \in 1 .. Len(path') : color'[path'[i]] = "open"
  BY <1>1, <1>3, SMTT(40) DEF EndVisit
<1>7. \A m \in nodes' : color'[m] = "done" => Done(m)'
  <2> SUFFICES ASSUME NEW m \in nodes, color'[m] = "done" PROVE Done(m)'
    BY DEF EndVisit, graphVars
  <2>1. CASE m = Top
    BY <2>1, <1>1, <1>2 DEF EndVisit, Done, graphVars
  <2>2. CASE m # Top
    <3>1. color[m] = "done" /\ Done(m)
      BY <2>2, <1>1 DEF EndVisit
    <3>2. \A p \in parents[m] : p # Top
      BY <3>1, <1>1 DEF Done
    <3> QED
      BY <3>1, <3>2, <2>2, <1>1 DEF EndVisit, Done, graphVars
  <2> QED
    BY <2>1, <2>2
<1>8. \A m \in nodes' : color'[m] = "open" => Open(m)'
  BY <1>1 DEF EndVisit, Open, graphVars
<1>9. \A m \in nodes' : color'[m] = "open" => todo'[m] \subseteq parents'[m]
  BY <1>1 DEF EndVisit, graphVars
<1>10. \A i, j \in 1 .. Len(path') : i # j => path'[i] # path'[j]
  <2> SUFFICES ASSUME NEW i \in 1 .. Len(path'), NEW j \in 1 .. Len(path'), i # j
               PROVE  path'[i] # path'[j]
    OBVIOUS
  <2>1. i \in 1 .. Len(path) - 1 /\ j \in 1 .. Len(path) - 1
    BY <1>3
  <2>2. i \in 1 .. Len(path) /\ j \in 1 .. Len(path)
    BY <2>1, <1>1, SMTT(40)
  <2> QED
    BY <2>1, <2>2, <1>3
<1>11. \A i \in 1 .. Len(path') - 1 : path'[i + 1] \in parents'[path'[i]]
  <2> SUFFICES ASSUME NEW i \in 1 .. Len(path') - 1
               PROVE  path'[i + 1] \in parents[path'[i]]
    BY DEF EndVisit, graphVars
  <2>1. i \in 1 .. Len(path) - 1 /\ i + 1 \in 1 .. Len(path) - 1
    BY <1>3
  <2> QED
    BY <2>1, <1>3
<1>12. \A m \in nodes' : color'[m] = "open" => \E i \in 1 .. Len(path') : path'[i] = m
  <2> SUFFICES ASSUME NEW m \in nodes, color'[m] = "open"
               PROVE  \E i \in 1 .. Len(path') : path'[i] = m
    BY DEF EndVisit, graphVars
  <2>1. m # Top /\ color[m] = "open"
    BY <1>1 DEF EndVisit
  <2>2. PICK i \in 1 .. Len(path) : path[i] = m
    BY <2>1
  <2>3. i # Len(path)
    BY <2>1, <2>2, <1>1
  <2>4. i \in 1 .. Len(path')
    BY <2>3, <1>3
  <2> QED
    BY <2>2, <2>4, <1>3
<1> QED
  BY <1>4, <1>5, <1>6, <1>7, <1>8, <1>9, <1>10, <1>11, <1>12 DEF EndVisit, graphVars

(* Every step of the check keeps the invariant.                            *)
LEMMA CheckSteps == CheckInv /\ [CheckStep]_checkVars => CheckInv'
<1> SUFFICES ASSUME CheckInv, [CheckStep]_checkVars PROVE CheckInv'
  OBVIOUS
<1> USE DEF CheckInv, Searching
<1>1. CASE CheckParents
  BY <1>1, SearchStarts DEF CheckParents, graphVars
<1>2. CASE BadParents
  BY <1>2 DEF BadParents, Refuse, graphVars
<1>3. ASSUME NEW n \in nodes, VisitRoot(n) PROVE CheckInv'
  BY <1>3, VisitPreserves DEF VisitRoot, Visit, graphVars
<1>4. ASSUME NEW n \in nodes, VisitParent(n) PROVE CheckInv'
  <2>1. SearchInv /\ path # <<>> /\ n \in todo[Top]
    BY <1>4 DEF VisitParent
  <2>2. path \in Seq(nodes) /\ Len(path) \in 1 .. Len(path)
    BY <2>1 DEF SearchInv, SearchTypeOK
  <2>3. Top \in nodes /\ color[Top] = "open"
    BY <2>1, <2>2 DEF SearchInv, Top
  <2>4. n \in parents[Top]
    BY <2>1, <2>3 DEF SearchInv
  <2> QED
    BY <1>4, <2>4, VisitPreserves DEF VisitParent, Visit, graphVars
<1>5. ASSUME NEW n \in nodes, PassParent(n) PROVE CheckInv'
  BY <1>5, PassPreserves DEF PassParent, graphVars
<1>6. ASSUME NEW n \in nodes, FindCycle(n) PROVE CheckInv'
  BY <1>6 DEF FindCycle, Refuse, graphVars
<1>7. CASE EndVisit
  BY <1>7, EndPreserves DEF EndVisit, graphVars
<1>8. CASE AllVisited
  BY <1>8 DEF AllVisited, SearchInv, SearchTypeOK, Done, Open, graphVars, searchVars
<1>9. CASE CheckOwners
  BY <1>9 DEF CheckOwners, OneOwner, SearchInv, SearchTypeOK, Done, Open, graphVars, searchVars
<1>10. CASE UNCHANGED checkVars
  BY <1>10 DEF checkVars, OneOwner, SearchInv, SearchTypeOK, SearchInit, Done, Open,
               graphVars, searchVars
<1> QED
  BY <1>1, <1>2, <1>3, <1>4, <1>5, <1>6, <1>7, <1>8, <1>9, <1>10 DEF CheckStep

(* For every set of tasks, whatever parents they name: what                *)
(* _validate_graph accepts has an order in which every task comes after    *)
(* its parents, hence no cycle, and one owner for every declared output.   *)
THEOREM AcceptedGraphOrdered == CheckSpec => []AcceptedSound
<1>1. CheckInit => CheckInv
  BY DEF CheckInit, CheckInv, Searching
<1>2. CheckInv => AcceptedSound
  BY DEF CheckInv, Searching, SearchInv, AcceptedSound, Done, Ordered
<1> QED
  BY <1>1, <1>2, CheckSteps, PTL DEF CheckSpec

(* For every set of tasks: a refused cycle is one.  The tasks under visit  *)
(* form a chain of parents and the last of them comes after one of them.   *)
THEOREM RefusedCycleReal ==
  CheckSpec => [][\A p \in nodes : FindCycle(p) => CycleFound]_checkVars
<1>1. CheckInit => CheckInv
  BY DEF CheckInit, CheckInv, Searching
<1>2. CheckInv => \A p \in nodes : FindCycle(p) => CycleFound
  <2> SUFFICES ASSUME CheckInv, NEW p \in nodes, FindCycle(p) PROVE CycleFound
    OBVIOUS
  <2>1. SearchInv
    BY DEF CheckInv, Searching, FindCycle, Refuse
  <2>2. Top \in nodes /\ color[Top] = "open"
    BY <2>1 DEF SearchInv, SearchTypeOK, FindCycle, Top
  <2>3. p \in parents[Top]
    BY <2>1, <2>2 DEF SearchInv, FindCycle
  <2>4. PICK i \in 1 .. Len(path) : path[i] = p
    BY <2>1 DEF SearchInv, FindCycle
  <2> QED
    BY <2>1, <2>3, <2>4 DEF SearchInv, CycleFound
<1> QED
  BY <1>1, <1>2, CheckSteps, PTL DEF CheckSpec

----
(* Wall times                                                              *)

(* Division by the lengths of a minute, an hour and a day.                 *)
LEMMA Division ==
  ASSUME NEW n \in Nat
  PROVE  /\ n \div 3600 \in Nat /\ n % 3600 \in 0 .. 3599
         /\ n = 3600 * (n \div 3600) + (n % 3600)
         /\ n \div 60 \in Nat /\ n % 60 \in 0 .. 59
         /\ n = 60 * (n \div 60) + (n % 60)
         /\ n \div 24 \in Nat /\ n % 24 \in 0 .. 23
         /\ n = 24 * (n \div 24) + (n % 24)
<1>1. n \div 3600 \in Nat /\ n % 3600 \in 0 .. 3599 /\ n = 3600 * (n \div 3600) + (n % 3600)
  BY SMT
<1>2. n \div 60 \in Nat /\ n % 60 \in 0 .. 59 /\ n = 60 * (n \div 60) + (n % 60)
  BY SMT
<1>3. n \div 24 \in Nat /\ n % 24 \in 0 .. 23 /\ n = 24 * (n \div 24) + (n % 24)
  BY SMT
<1> QED
  BY <1>1, <1>2, <1>3

(* For every number of seconds a request can have: what format_walltime    *)
(* writes in a Slurm or PBS job script is a well-formed %time literal of   *)
(* as many seconds, and so an accepted one.                                *)
THEOREM WalltimeRoundTrip == \A n \in 1 .. MaxWalltime : ReadsBack(n)
<1> SUFFICES ASSUME NEW n \in Nat, NEW slurm \in BOOLEAN
             PROVE  /\ WellFormed(FormatWalltime(n, slurm))
                    /\ Seconds(FormatWalltime(n, slurm)) = n
  BY MaxWalltimeAssumption DEF ReadsBack
<1> DEFINE hours == n \div 3600
           rest == n % 3600
<1>1. /\ hours \in Nat /\ rest \in 0 .. 3599 /\ n = 3600 * hours + rest
      /\ hours \div 24 \in Nat /\ hours % 24 \in 0 .. 23
      /\ hours = 24 * (hours \div 24) + (hours % 24)
      /\ rest \div 60 \in Nat /\ rest % 60 \in 0 .. 59
      /\ rest = 60 * (rest \div 60) + (rest % 60)
  BY Division
<1>2. rest \div 60 < 60
  BY <1>1
<1>3. CASE slurm /\ hours >= 24
  <2> DEFINE l == FormatWalltime(n, slurm)
  <2>1. /\ l.form = "dated" /\ l.d = hours \div 24 /\ l.h = hours % 24
        /\ l.m = rest \div 60 /\ l.s = rest % 60
    BY <1>3 DEF FormatWalltime
  <2> QED
    BY <2>1, <1>1, <1>2 DEF WellFormed, Seconds
<1>4. CASE ~(slurm /\ hours >= 24)
  <2> DEFINE l == FormatWalltime(n, slurm)
  <2>1. /\ l.form = "clock" /\ l.d = 0 /\ l.h = hours
        /\ l.m = rest \div 60 /\ l.s = rest % 60
    BY <1>4 DEF FormatWalltime
  <2> QED
    BY <2>1, <1>1, <1>2 DEF WellFormed, Seconds
<1> QED
  BY <1>3, <1>4

----
(* Families                                                                *)

(* Every row of a family binds the template's fields, and a family that    *)
(* inherits is what each parent it could inherit from gives it.            *)
FamilyOK ==
  /\ \A t \in DOMAIN family : \A row \in family[t] : DOMAIN row = Fields(t)
  /\ \A t \in DOMAIN family : Missing(t) # {} =>
       \A p \in Suppliers(t) : p \in DOMAIN family /\ family[t] = Projected(t, p)

(* What reads the templates only stays as long as they do.                 *)
LEMMA TemplatesSame ==
  ASSUME templates' = templates
  PROVE  \A t : /\ Missing(t)' = Missing(t)
                /\ Suppliers(t)' = Suppliers(t)
                /\ Seeds(t)' = Seeds(t)
  BY DEF Missing, Suppliers, Seeds, HasEach

(* A family once resolved stays.                                           *)
LEMMA ResolveEffect ==
  ASSUME NEW t, NEW rows, ~Resolved(t), Resolve(t, rows)
  PROVE  /\ DOMAIN family' = DOMAIN family \cup {t}
         /\ family'[t] = rows
         /\ \A u \in DOMAIN family : family'[u] = family[u]
         /\ templates' = templates
  BY DEF Resolved, Resolve

(* A new family keeps the others as they are.                              *)
LEMMA ResolveFamily ==
  ASSUME FamilyOK, NEW t, NEW rows, ~Resolved(t), Resolve(t, rows),
         \A row \in rows : DOMAIN row = Fields(t),
         Missing(t) # {} =>
           \A p \in Suppliers(t) : p \in DOMAIN family /\ rows = Projected(t, p)
  PROVE  FamilyOK'
<1>1. /\ DOMAIN family' = DOMAIN family \cup {t}
      /\ family'[t] = rows
      /\ \A u \in DOMAIN family : family'[u] = family[u]
      /\ templates' = templates
  BY ResolveEffect
<1>2. \A u, p : p \in DOMAIN family => Projected(u, p)' = Projected(u, p)
  BY <1>1, TemplatesSame DEF Projected
<1>3. \A u \in DOMAIN family' : \A row \in family'[u] : DOMAIN row = Fields(u)
  BY <1>1 DEF FamilyOK, Resolved
<1>4. ASSUME NEW u \in DOMAIN family', Missing(u)' # {}, NEW p \in Suppliers(u)'
      PROVE  p \in DOMAIN family' /\ family'[u] = Projected(u, p)'
  <2>1. Missing(u) # {} /\ p \in Suppliers(u)
    BY <1>1, <1>4, TemplatesSame
  <2>2. CASE u \in DOMAIN family
    BY <1>1, <1>2, <2>1, <2>2 DEF FamilyOK
  <2>3. CASE u = t
    BY <1>1, <1>2, <2>1, <2>3
  <2> QED
    BY <1>1, <2>2, <2>3
<1> QED
  BY <1>3, <1>4 DEF FamilyOK

(* Complete rows of @each, or the one empty row.                           *)
LEMMA ByItselfFamily ==
  ASSUME FamilyOK, NEW t, ResolveByItself(t)
  PROVE  FamilyOK'
<1>1. ~Resolved(t) /\ EachFits(t) /\ Missing(t) = {} /\ Resolve(t, Seeds(t))
  BY DEF ResolveByItself
<1>2. ASSUME NEW row \in Seeds(t)
      PROVE  DOMAIN row = Fields(t)
  <2>1. CASE HasEach(t)
    <3>1. DOMAIN row = Range(templates[t].each.names)
      BY <1>2, <2>1 DEF Seeds, EachRows
    <3> QED
      BY <1>1, <3>1 DEF EachFits, Missing
  <2>2. CASE ~HasEach(t)
    <3>1. DOMAIN row = {} /\ templates[t].each.names = <<>>
      BY <1>2, <2>2 DEF Seeds, NoRow, HasEach
    <3>2. Range(templates[t].each.names) = {}
      BY <3>1 DEF Range
    <3> QED
      BY <1>1, <3>1, <3>2 DEF Missing
  <2> QED
    BY <2>1, <2>2
<1> QED
  BY <1>1, <1>2, ResolveFamily

(* Rows of a parent, the same whichever parent they are taken from.        *)
LEMMA FromParentsFamily ==
  ASSUME FamilyOK, NEW t, ResolveFromParents(t)
  PROVE  FamilyOK'
<1> DEFINE rows == Projected(t, CHOOSE p \in Suppliers(t) : TRUE)
<1>1. /\ ~Resolved(t) /\ Suppliers(t) # {} /\ \A p \in Suppliers(t) : Resolved(p)
      /\ SuppliersAgree(t) /\ Resolve(t, rows)
  BY DEF ResolveFromParents
<1>2. \A p \in Suppliers(t) : p \in DOMAIN family /\ rows = Projected(t, p)
  BY <1>1 DEF SuppliersAgree, Resolved
<1>3. \A row \in rows : DOMAIN row = Fields(t)
  BY DEF Projected, Follower
<1> HIDE DEF rows
<1> QED
  BY <1>1, <1>2, <1>3, ResolveFamily

----
(* The tasks                                                               *)

(* What the checks find: every task is the instance of one row of one      *)
(* template, and comes after what its row makes of the template's parents. *)
Instantiated ==
  /\ TimesParse
  /\ DOMAIN family = DOMAIN templates
  /\ nodes = {NameOf(i) : i \in Instances}
  /\ \A i \in Instances : rowOf[NameOf(i)] = i
  /\ \A n \in nodes :
       parents[n] = UNION {ExpandParent(p, rowOf[n][2]) : p \in templates[rowOf[n][1]].parents}
  /\ \A n \in nodes :
       seconds[n] = EffectiveWalltime(Asked(templates[rowOf[n][1]].time), Asked(defaultTime))

LoadInv ==
  /\ FamilyOK
  /\ phase = "load" => path = <<>> /\ ended = 0
  /\ phase \in {"check", "visit", "owners", "accepted"} => CheckInv /\ Instantiated

(* Nothing is resolved when the file has been read.                        *)
LEMMA LoadInvInit == LoadInit => LoadInv
<1> SUFFICES ASSUME LoadInit
             PROVE  LoadInv
  OBVIOUS
<1>1. DOMAIN family = {}
  BY DEF LoadInit
<1>2. phase = "load" /\ path = <<>> /\ ended = 0
  BY DEF LoadInit, SearchInit
<1> QED
  BY <1>1, <1>2 DEF LoadInv, FamilyOK

(* _instantiate makes one task of every row.                               *)
LEMMA InstantiateInv ==
  ASSUME LoadInv, Instantiate
  PROVE  LoadInv'
<1>1. /\ phase = "load" /\ phase' = "check"
      /\ UNCHANGED <<path, ended, templates, defaultTime, family>>
  BY DEF Instantiate
<1>2. FamilyOK'
  BY <1>1, TemplatesSame DEF LoadInv, FamilyOK, Projected
<1>3. /\ rowOf' = [n \in {NameOf(i) : i \in Instances} |-> CHOOSE i \in Instances : NameOf(i) = n]
      /\ nodes' = {NameOf(i) : i \in Instances}
  BY DEF Instantiate
<1>4. \A i \in Instances : rowOf'[NameOf(i)] = i
  BY <1>3 DEF Instantiate, Instantiable
<1>5. /\ parents' = [n \in nodes' |->
           UNION {ExpandParent(p, rowOf'[n][2]) : p \in templates[rowOf'[n][1]].parents}]
      /\ seconds' = [n \in nodes' |->
           EffectiveWalltime(Asked(templates[rowOf'[n][1]].time), Asked(defaultTime))]
  BY DEF Instantiate
<1>6. /\ Instances' = Instances
      /\ \A p, row : ExpandParent(p, row)' = ExpandParent(p, row)
      /\ TimesParse' = TimesParse
  BY <1>1 DEF Instances, ExpandParent, Matching, TimesParse
<1>7. Instantiated'
  <2>1. TimesParse' /\ DOMAIN family' = DOMAIN templates'
    BY <1>1, <1>6 DEF Instantiate
  <2>2. nodes' = {NameOf(i) : i \in Instances'}
    BY <1>3, <1>6
  <2>3. \A i \in Instances' : rowOf'[NameOf(i)] = i
    BY <1>4, <1>6
  <2>4. \A n \in nodes' :
          parents'[n] = UNION {ExpandParent(p, rowOf[n][2])' :
                                 p \in templates'[rowOf'[n][1]].parents}
    BY <1>1, <1>5 DEF ExpandParent, Matching
  <2>5. \A n \in nodes' :
          seconds'[n] = EffectiveWalltime(Asked(templates'[rowOf'[n][1]].time), Asked(defaultTime'))
    BY <1>1, <1>5
  <2> QED
    BY <2>1, <2>2, <2>3, <2>4, <2>5 DEF Instantiated, NameOf
<1>8. CheckInv'
  <2>1. /\ color' = [n \in nodes' |-> "new"]
        /\ todo' = [n \in nodes' |-> {}]
        /\ rank' = [n \in nodes' |-> 0]
    BY DEF Instantiate
  <2>2. SearchInit'
    BY <1>1, <2>1 DEF LoadInv, SearchInit
  <2>3. parents' = [n \in nodes' |-> parents'[n]]
    BY <1>5
  <2> QED
    BY <1>1, <2>2, <2>3 DEF CheckInv, Searching
<1> QED
  BY <1>1, <1>2, <1>7, <1>8 DEF LoadInv

(* The check of the graph leaves templates, families and tasks alone.      *)
LEMMA CheckStepLoad ==
  ASSUME LoadInv, CheckStep, UNCHANGED loadVars
  PROVE  LoadInv'
<1>1. UNCHANGED graphVars /\ phase \in {"check", "visit", "owners"} /\ phase' # "load"
  BY DEF CheckStep, CheckParents, BadParents, Refuse, VisitRoot, VisitParent, Visit, PassParent,
         FindCycle, EndVisit, AllVisited, CheckOwners, graphVars
<1>2. CheckInv'
  BY <1>1, CheckSteps DEF LoadInv
<1>3. UNCHANGED <<nodes, parents, templates, defaultTime, family, rowOf, seconds>>
  BY <1>1 DEF graphVars, loadVars
<1>4. Instantiated'
  BY <1>1, <1>3 DEF LoadInv, Instantiated, TimesParse, Instances, ExpandParent, Matching
<1>5. FamilyOK'
  BY <1>3, TemplatesSame DEF LoadInv, FamilyOK, Projected
<1> QED
  BY <1>1, <1>2, <1>4, <1>5 DEF LoadInv

(* LoadInv is inductive.                                                   *)
LEMMA LoadInvStep ==
  ASSUME LoadInv, [LoadStep]_vars
  PROVE  LoadInv'
<1>1. ASSUME NEW t \in DOMAIN templates, ResolveByItself(t) \/ ResolveFromParents(t)
      PROVE  LoadInv'
  <2>1. UNCHANGED checkVars /\ phase = "load"
    BY <1>1 DEF ResolveByItself, ResolveFromParents, Resolve
  <2>2. FamilyOK'
    BY <1>1, ByItselfFamily, FromParentsFamily DEF LoadInv
  <2> QED
    BY <2>1, <2>2 DEF LoadInv, checkVars, searchVars
<1>2. CASE RefuseLoad
  <2>1. phase' = "refused" /\ UNCHANGED <<templates, family>>
    BY <1>2 DEF RefuseLoad, Refuse, loadVars
  <2> QED
    BY <2>1, TemplatesSame DEF LoadInv, FamilyOK, Projected
<1>3. CASE Instantiate
  BY <1>3, InstantiateInv
<1>4. CASE CheckStep /\ UNCHANGED loadVars
  BY <1>4, CheckStepLoad
<1>5. CASE UNCHANGED vars
  <2>1. UNCHANGED checkVars /\ UNCHANGED loadVars /\ UNCHANGED graphVars
        /\ UNCHANGED <<phase, path, ended>>
    BY <1>5 DEF vars, checkVars, searchVars
  <2>2. UNCHANGED <<nodes, parents, templates, defaultTime, family, rowOf, seconds>>
    BY <2>1 DEF graphVars, loadVars
  <2>3. FamilyOK'
    BY <2>2, TemplatesSame DEF LoadInv, FamilyOK, Projected
  <2>4. CheckInv => CheckInv'
    BY <2>1, CheckSteps
  <2>5. Instantiated => Instantiated'
    BY <2>2 DEF Instantiated, TimesParse, Instances, ExpandParent, Matching
  <2> QED
    BY <2>1, <2>3, <2>4, <2>5 DEF LoadInv
<1> QED
  BY <1>1, <1>2, <1>3, <1>4, <1>5
  DEF LoadStep, BadTemplate, BadSuppliers, PatternCycle, BadTime, BadInstance

(* For any Yallfile and any tables: what is known of the families and      *)
(* tasks at every step of the load.                                        *)
THEOREM LoadInvariant == LoadSpec => []LoadInv
  BY LoadInvInit, LoadInvStep, PTL DEF LoadSpec

----
(* What an accepted Yallfile gives                                         *)

(* Any set of natural numbers that is not empty has a least one.           *)
LEMMA LeastRanked ==
  ASSUME NEW S, S # {}, NEW f, \A n \in S : f[n] \in Nat
  PROVE  \E n \in S : \A m \in S : f[n] <= f[m]
<1> DEFINE Ranks == {f[n] : n \in S}
<1>1. Ranks \subseteq Nat /\ Ranks # {}
  OBVIOUS
<1>2. PICK k \in Ranks : \A y \in Ranks : <<y, k>> \notin OpToRel(<, Nat)
  <2> HIDE DEF Ranks
  <2> QED
    BY <1>1, WFMin, NatLessThanWellFounded
<1>3. \A y \in Ranks : ~(y < k)
  BY <1>1, <1>2 DEF OpToRel
<1>4. PICK n \in S : f[n] = k
  BY <1>2
<1>5. ASSUME NEW m \in S
      PROVE  f[n] <= f[m]
  BY <1>3, <1>4, <1>5
<1> QED
  BY <1>5

(* For any Yallfile: the tasks of an accepted one name each other, no set  *)
(* of them waits only for itself, and every output has one owner.          *)
THEOREM AcceptedTasksSound == LoadSpec => []AcceptedGraphSound
<1>1. LoadInv => AcceptedGraphSound
  <2> SUFFICES ASSUME LoadInv, phase = "accepted"
               PROVE  /\ \A n \in nodes : parents[n] \subseteq nodes
                      /\ \A S \in (SUBSET nodes) \ {{}} : \E n \in S : parents[n] \cap S = {}
                      /\ \A n, m \in nodes : outputs[n] \cap outputs[m] # {} => n = m
    BY DEF AcceptedGraphSound
  <2>1. SearchInv
    BY DEF LoadInv, CheckInv, Searching
  <2>2. OneOwner /\ Ordered
    BY <2>1 DEF SearchInv, Done, Ordered
  <2>3. \A n \in nodes : parents[n] \subseteq nodes /\ rank[n] \in Nat
    BY <2>1 DEF SearchInv, SearchTypeOK
  <2>4. ASSUME NEW S \in (SUBSET nodes) \ {{}}
        PROVE  \E n \in S : parents[n] \cap S = {}
    <3>1. S # {} /\ S \subseteq nodes /\ \A n \in S : rank[n] \in Nat
      BY <2>3, <2>4
    <3>2. PICK n \in S : \A m \in S : rank[n] <= rank[m]
      BY <3>1, LeastRanked
    <3>3. \A m \in S : m \notin parents[n]
      BY <2>2, <2>3, <3>1, <3>2 DEF Ordered
    <3> QED
      BY <3>3
  <2>5. \A n, m \in nodes : outputs[n] \cap outputs[m] # {} => n = m
    BY <2>2 DEF OneOwner
  <2> QED
    BY <2>3, <2>4, <2>5
<1> QED
  BY <1>1, LoadInvariant, PTL

(* For any Yallfile: every family that inherits has exactly the rows of    *)
(* every parent it could inherit from that its own @each lets through.     *)
THEOREM RowsInherited == LoadSpec => []RowsCorrelated
<1>1. LoadInv => RowsCorrelated
  <2> SUFFICES ASSUME LoadInv, phase = "accepted",
                      NEW t \in DOMAIN templates, Missing(t) # {}, NEW p \in Suppliers(t)
               PROVE  LET common == Fields(t) \cap Fields(p)
                          Shared(row) == [f \in common |-> row[f]]
                      IN  {Shared(row) : row \in family[t]}
                            = {Shared(q) : q \in {r \in family[p] :
                                                    \E seed \in Seeds(t) : Agree(r, seed)}}
    BY DEF RowsCorrelated
  <2> DEFINE common == Fields(t) \cap Fields(p)
             Shared(row) == [f \in common |-> row[f]]
  <2>1. t \in DOMAIN family /\ p \in DOMAIN family /\ family[t] = Projected(t, p)
    BY DEF LoadInv, Instantiated, FamilyOK
  <2>2. ASSUME NEW seed, NEW q \in family[p], Agree(q, seed)
        PROVE  Shared(Follower(t, seed, q)) = Shared(q)
    <3>1. DOMAIN q = Fields(p)
      BY <2>1 DEF LoadInv, FamilyOK
    <3>2. ASSUME NEW f \in common
          PROVE  Follower(t, seed, q)[f] = q[f]
      BY <2>2, <3>1 DEF Agree, Follower
    <3> QED
      BY <3>2
  <2>3. ASSUME NEW row \in family[t]
        PROVE  \E seed \in Seeds(t) : \E q \in family[p] :
                 Agree(q, seed) /\ row = Follower(t, seed, q)
    BY <2>1 DEF Projected
  <2>4. ASSUME NEW q \in family[p], NEW seed \in Seeds(t), Agree(q, seed)
        PROVE  Follower(t, seed, q) \in family[t]
    BY <2>1, <2>4 DEF Projected
  <2> HIDE DEF Shared
  <2>5. {Shared(row) : row \in family[t]}
          = {Shared(q) : q \in {r \in family[p] : \E seed \in Seeds(t) : Agree(r, seed)}}
    BY <2>2, <2>3, <2>4
  <2> QED
    BY <2>5 DEF Shared
<1> QED
  BY <1>1, LoadInvariant, PTL

(* A task's instance, and what its references name.                        *)
LEMMA TaskInstance ==
  ASSUME LoadInv, Instantiated, NEW m \in nodes
  PROVE  /\ rowOf[m] \in Instances /\ NameOf(rowOf[m]) = m
         /\ rowOf[m][1] \in DOMAIN templates
         /\ rowOf[m][2] \in family[rowOf[m][1]]
         /\ DOMAIN rowOf[m][2] = Fields(rowOf[m][1])
         /\ m = Format(rowOf[m][1], rowOf[m][2])
<1>1. PICK i \in Instances : m = NameOf(i) /\ rowOf[m] = i
  BY DEF Instantiated
<1>2. PICK t \in DOMAIN templates : i \in {t} \X family[t]
  BY <1>1 DEF Instances
<1>3. i[1] = t /\ i[2] \in family[t]
  BY <1>2
<1>4. DOMAIN i[2] = Fields(t)
  BY <1>3 DEF LoadInv, FamilyOK, Instantiated
<1> QED
  BY <1>1, <1>2, <1>3, <1>4 DEF NameOf

(* A row of a template is a task's.                                        *)
LEMMA RowTask ==
  ASSUME Instantiated, NEW p \in DOMAIN templates, NEW q \in family[p]
  PROVE  /\ Format(p, q) \in nodes
         /\ rowOf[Format(p, q)][1] = p /\ rowOf[Format(p, q)][2] = q
<1>1. <<p, q>> \in Instances /\ NameOf(<<p, q>>) = Format(p, q)
  BY DEF Instances, NameOf
<1> QED
  BY <1>1 DEF Instantiated

(* Two rows give the text the same name when they agree on its fields, and *)
(* only then.                                                              *)
LEMMA FormatAgrees ==
  ASSUME NEW text, NEW row, NEW other
  PROVE  Format(text, row) = Format(text, other) <=> \A f \in Fields(text) : row[f] = other[f]
<1>1. Fields(text) = {text.fields[i] : i \in DOMAIN text.fields}
  BY DEF Fields, Range
<1>2. ASSUME Format(text, row) = Format(text, other)
      PROVE  \A f \in Fields(text) : row[f] = other[f]
  <2>1. [i \in DOMAIN text.fields |-> row[text.fields[i]]]
          = [i \in DOMAIN text.fields |-> other[text.fields[i]]]
    BY <1>2 DEF Format
  <2>2. \A i \in DOMAIN text.fields : row[text.fields[i]] = other[text.fields[i]]
    BY <2>1
  <2> QED
    BY <1>1, <2>2
<1>3. ASSUME \A f \in Fields(text) : row[f] = other[f]
      PROVE  Format(text, row) = Format(text, other)
  BY <1>1, <1>3 DEF Format
<1> QED
  BY <1>2, <1>3

(* For any Yallfile: a task waits for its own lineage.                     *)
THEOREM LineageOnly == LoadSpec => []ParentsAreMatchingRows
<1>1. LoadInv => ParentsAreMatchingRows
  <2> SUFFICES ASSUME LoadInv, phase = "accepted", NEW n \in nodes,
                      NEW p \in templates[rowOf[n][1]].parents \cap DOMAIN templates
               PROVE  LET row == rowOf[n][2]
                          others == {q \in templates[rowOf[n][1]].parents \ {p} :
                                       Fields(q) \subseteq DOMAIN row}
                          kin == {m \in nodes : rowOf[m][1] = p /\ Agree(rowOf[m][2], row)}
                      IN  /\ kin \subseteq parents[n]
                          /\ {m \in parents[n] : rowOf[m][1] = p}
                               \subseteq kin \cup {Format(q, row) : q \in others}
    BY DEF ParentsAreMatchingRows
  <2> DEFINE row == rowOf[n][2]
             others == {q \in templates[rowOf[n][1]].parents \ {p} : Fields(q) \subseteq DOMAIN row}
             kin == {m \in nodes : rowOf[m][1] = p /\ Agree(rowOf[m][2], row)}
  <2>1. Instantiated /\ SearchInv
    BY DEF LoadInv, CheckInv, Searching
  <2>2. parents[n] = UNION {ExpandParent(q, row) : q \in templates[rowOf[n][1]].parents}
    BY <2>1 DEF Instantiated
  <2>3. parents[n] \subseteq nodes
    BY <2>1 DEF SearchInv, SearchTypeOK
  <2>4. ASSUME NEW m \in kin
        PROVE  m \in ExpandParent(p, row)
    <3>1. m = Format(p, rowOf[m][2]) /\ rowOf[m][2] \in family[p] /\ DOMAIN rowOf[m][2] = Fields(p)
      BY <2>1, <2>4, TaskInstance
    <3>2. CASE Fields(p) \subseteq DOMAIN row
      <4>1. \A f \in Fields(p) : rowOf[m][2][f] = row[f]
        BY <2>4, <3>1, <3>2 DEF Agree
      <4> QED
        BY <3>1, <3>2, <4>1, FormatAgrees DEF ExpandParent
    <3>3. CASE ~(Fields(p) \subseteq DOMAIN row)
      BY <2>4, <3>1, <3>3 DEF ExpandParent, Matching
    <3> QED
      BY <3>2, <3>3
  <2>5. ASSUME NEW m \in parents[n], rowOf[m][1] = p
        PROVE  m \in kin \cup {Format(q, row) : q \in others}
    <3>1. PICK q \in templates[rowOf[n][1]].parents : m \in ExpandParent(q, row)
      BY <2>2, <2>5
    <3>2. m \in nodes
      BY <2>3, <2>5
    <3>3. m = Format(p, rowOf[m][2]) /\ DOMAIN rowOf[m][2] = Fields(p)
      BY <2>1, <2>5, <3>2, TaskInstance
    <3>4. CASE Fields(q) \subseteq DOMAIN row /\ q # p
      BY <3>1, <3>4 DEF ExpandParent
    <3>5. CASE Fields(q) \subseteq DOMAIN row /\ q = p
      <4>1. Format(p, rowOf[m][2]) = Format(p, row)
        BY <3>1, <3>3, <3>5 DEF ExpandParent
      <4>2. \A f \in Fields(p) : rowOf[m][2][f] = row[f]
        BY <4>1, FormatAgrees
      <4> QED
        BY <2>5, <3>2, <3>3, <4>2 DEF Agree
    <3>6. CASE ~(Fields(q) \subseteq DOMAIN row)
      <4>1. PICK r \in Matching(q, row) : q \in DOMAIN templates /\ m = Format(q, r)
        BY <3>1, <3>6 DEF ExpandParent
      <4>2. r \in family[q] /\ Agree(r, row)
        BY <4>1 DEF Matching
      <4>3. rowOf[m][1] = q /\ rowOf[m][2] = r
        BY <2>1, <4>1, <4>2, RowTask
      <4> QED
        BY <2>5, <3>2, <4>2, <4>3
    <3> QED
      BY <3>4, <3>5, <3>6
  <2> QED
    BY <2>2, <2>4, <2>5
<1> QED
  BY <1>1, LoadInvariant, PTL

(* For any Yallfile: the time a task gets is one its author wrote, to the  *)
(* second, however Slurm or PBS is told.                                   *)
THEOREM TimesKept == LoadSpec => []WalltimeKept
<1>1. LoadInv => WalltimeKept
  <2> SUFFICES ASSUME LoadInv, phase = "accepted", NEW n \in nodes
               PROVE  LET own == templates[rowOf[n][1]].time
                          asked == IF own = None THEN defaultTime ELSE own
                      IN  /\ (asked = None) = (seconds[n] = None)
                          /\ asked # None =>
                               /\ ValidSeconds(seconds[n]) /\ ReadsBack(seconds[n])
                               /\ Seconds(FormatWalltime(seconds[n], TRUE)) = Seconds(asked)
    BY DEF WalltimeKept
  <2> DEFINE own == templates[rowOf[n][1]].time
             asked == IF own = None THEN defaultTime ELSE own
  <2>1. Instantiated /\ rowOf[n][1] \in DOMAIN templates
    BY TaskInstance DEF LoadInv
  <2>2. \A l \in {own, defaultTime} : l # None => Accepted(l)
    BY <2>1 DEF Instantiated, TimesParse
  <2>3. \A l \in {own, defaultTime} : l # None =>
          Seconds(l) \in 1 .. MaxWalltime /\ Seconds(l) # None
    BY <2>2, MaxWalltimeAssumption DEF Accepted, ValidSeconds
  <2>4. seconds[n] = IF asked = None THEN None ELSE Seconds(asked)
    BY <2>1, <2>3 DEF Instantiated, EffectiveWalltime, Asked
  <2>5. (asked = None) = (seconds[n] = None)
    BY <2>3, <2>4
  <2>6. ASSUME asked # None
        PROVE  /\ ValidSeconds(seconds[n]) /\ ReadsBack(seconds[n])
               /\ Seconds(FormatWalltime(seconds[n], TRUE)) = Seconds(asked)
    <3>1. seconds[n] = Seconds(asked) /\ seconds[n] \in 1 .. MaxWalltime
      BY <2>3, <2>4, <2>6
    <3>2. ReadsBack(seconds[n])
      BY <3>1, WalltimeRoundTrip
    <3> QED
      BY <3>1, <3>2 DEF ValidSeconds, ReadsBack
  <2> QED
    BY <2>5, <2>6
<1> QED
  BY <1>1, LoadInvariant, PTL
====
