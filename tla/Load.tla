---- MODULE Load ----
(***************************************************************************)
(* load_yall_spec (syntax.py): from the templates of a parsed Yallfile to  *)
(* the tasks of a campaign.  A text with placeholders is its plain part    *)
(* and the sequence of its fields; a binding, here a row, is a function    *)
(* from fields to values.  _validate_graph is GraphCheck, a request for    *)
(* wall time is in Walltime.                                               *)
(***************************************************************************)
EXTENDS GraphCheck, Walltime, FiniteSets, SequencesExt

CONSTANTS
  Tables,   \* Tables[name]: the columns and rows of a @list or @table
  Sources   \* the Yallfiles considered: their templates and default %time

VARIABLES
  templates,    \* templates[text]: the recipe of the task template named text
  defaultTime,  \* the campaign's %time literal, or None
  family,       \* family[text]: the rows of a resolved template
  rowOf,        \* rowOf[n]: the template and the row task n comes from
  seconds       \* seconds[n]: the effective wall time of task n, or None

loadVars == <<templates, defaultTime, family, rowOf, seconds>>
vars == <<checkVars, loadVars>>

Fields(text) == Range(text.fields)

(* _format and _compatible                                                 *)
Format(text, row) ==
  <<text.stem, [i \in DOMAIN text.fields |-> row[text.fields[i]]]>>

Agree(row, other) == \A f \in DOMAIN row \cap DOMAIN other : row[f] = other[f]

----
(* The rows a template's @each gives it.                                   *)

(* _resolve_parameter_sets: a source is a table, or one column of it.      *)
Width(source) ==
  IF source.column = None THEN Len(Tables[source.table].columns) ELSE 1

Tuples(source) ==
  LET table == Tables[source.table]
  IN  IF source.column = None THEN table.rows
      ELSE {<<r[CHOOSE i \in DOMAIN table.columns : table.columns[i] = source.column]>> :
              r \in table.rows}

(* The ordered union of complete rows, zipped with the names.              *)
EachRows(each) ==
  {[f \in Range(each.names) |->
      row[CHOOSE i \in DOMAIN each.names : each.names[i] = f]] :
        row \in UNION {Tuples(source) : source \in each.sources}}

HasEach(t) == templates[t].each.names # <<>>

(* _each_bindings: the fields are distinct and belong to the task's name.  *)
EachFits(t) ==
  LET each == templates[t].each
  IN  /\ IsInjective(each.names) /\ Range(each.names) \subseteq Fields(t)
      /\ \A source \in each.sources : Width(source) = Len(each.names)

NoRow == [f \in {} |-> None]
Seeds(t) == IF HasEach(t) THEN EachRows(templates[t].each) ELSE {NoRow}
Missing(t) == Fields(t) \ Range(templates[t].each.names)

----
(* _family_bindings: the rest of a row comes from a parent's rows.         *)

Resolved(t) == t \in DOMAIN family

Suppliers(t) == {p \in templates[t].parents \cap DOMAIN templates : Missing(t) \subseteq Fields(p)}

(* A row of p, cut to the fields of t and completed with t's own.          *)
Follower(t, seed, row) ==
  [f \in Fields(t) |-> IF f \in DOMAIN seed THEN seed[f] ELSE row[f]]

Projected(t, p) ==
  UNION {{Follower(t, seed, row) : row \in {r \in family[p] : Agree(r, seed)}} : seed \in Seeds(t)}

EverySeedServed(t) ==
  \A p \in Suppliers(t) : \A seed \in Seeds(t) : \E row \in family[p] : Agree(row, seed)

(* Mutant: the first supplier's rows are taken without a look at the       *)
(* others.                                                                 *)
SuppliersAgree_First(t) == TRUE

SuppliersAgree(t) == \A p, q \in Suppliers(t) : Projected(t, p) = Projected(t, q)

Resolve(t, rows) ==
  /\ family' = [u \in DOMAIN family \cup {t} |-> IF u = t THEN rows ELSE family[u]]
  /\ UNCHANGED <<checkVars, templates, defaultTime, rowOf, seconds>>

(* A template whose @each gives complete rows, or that has no field.       *)
ResolveByItself(t) ==
  /\ phase = "load" /\ ~Resolved(t)
  /\ EachFits(t) /\ Missing(t) = {}
  /\ Resolve(t, Seeds(t))

(* A template that inherits, after every parent it inherits from.          *)
ResolveFromParents(t) ==
  /\ phase = "load" /\ ~Resolved(t)
  /\ EachFits(t) /\ Missing(t) # {}
  /\ Suppliers(t) # {} /\ \A p \in Suppliers(t) : Resolved(p)
  /\ HasEach(t) => EverySeedServed(t)
  /\ SuppliersAgree(t)
  /\ Resolve(t, Projected(t, CHOOSE p \in Suppliers(t) : TRUE))

RefuseLoad ==
  /\ Refuse("load")
  /\ UNCHANGED <<graphVars, searchVars, loadVars>>

BadTemplate(t) ==
  /\ ~Resolved(t)
  /\ \/ ~EachFits(t)
     \/ Missing(t) # {} /\ Suppliers(t) = {}
  /\ RefuseLoad

BadSuppliers(t) ==
  /\ ~Resolved(t)
  /\ Missing(t) # {} /\ Suppliers(t) # {} /\ \A p \in Suppliers(t) : Resolved(p)
  /\ (HasEach(t) /\ ~EverySeedServed(t)) \/ ~SuppliersAgree(t)
  /\ RefuseLoad

(* The templates left each wait for another one: `visiting`.               *)
PatternCycle ==
  /\ DOMAIN family # DOMAIN templates
  /\ \A t \in DOMAIN templates \ DOMAIN family :
       /\ EachFits(t)
       /\ \E p \in Suppliers(t) : Missing(t) # {} /\ ~Resolved(p)
  /\ RefuseLoad

----
(* _instantiate, for every row of every family.                            *)

(* Mutant: a task waits for its parent's whole family.                     *)
Matching_All(p, row) == family[p]

(* _matching_bindings                                                      *)
Matching(p, row) == {q \in family[p] : Agree(q, row)}

(* _expand_parent: the named task, or all the tasks of the parent's family *)
(* that agree with the row; {} when there is none.                         *)
ExpandParent(p, row) ==
  IF Fields(p) \subseteq DOMAIN row THEN {Format(p, row)}
  ELSE IF p \in DOMAIN templates THEN {Format(p, q) : q \in Matching(p, row)}
  ELSE {}

(* _bindings_for_unresolved_ref: the parents whose rows fill in a path.    *)
Providers(out, t, row) ==
  {p \in templates[t].parents \cap DOMAIN templates : Fields(out) \ DOMAIN row \subseteq Fields(p)}

PathFits(out, t, row) ==
  Fields(out) \subseteq DOMAIN row \/
    /\ Providers(out, t, row) # {}
    /\ \A p, q \in Providers(out, t, row) : Matching(p, row) = Matching(q, row)

(* _expand_path_template                                                   *)
ExpandPath(out, t, row) ==
  IF Fields(out) \subseteq DOMAIN row THEN {Format(out, row)}
  ELSE {Format(out, row @@ q) :
          q \in Matching(CHOOSE p \in Providers(out, t, row) : TRUE, row)}

Instances == UNION {{t} \X family[t] : t \in DOMAIN templates}
NameOf(i) == Format(i[1], i[2])

Instantiable ==
  /\ \A i, j \in Instances : NameOf(i) = NameOf(j) => i = j
  /\ \A i \in Instances :
       /\ \A p \in templates[i[1]].parents : ExpandParent(p, i[2]) # {}
       /\ \A out \in templates[i[1]].outputs : PathFits(out, i[1], i[2])

(* A %time that does not parse is refused while the file is read, a task   *)
(* name that occurs twice at the beginning of _validate_graph.             *)
TimesParse ==
  \A l \in {defaultTime} \cup {templates[t].time : t \in DOMAIN templates} :
    l # None => Accepted(l)

Asked(l) == IF l = None THEN None ELSE Seconds(l)

BadTime ==
  /\ ~TimesParse /\ family = <<>>
  /\ RefuseLoad

Instantiate ==
  /\ phase = "load" /\ TimesParse
  /\ DOMAIN family = DOMAIN templates /\ Instantiable
  /\ rowOf' = [n \in {NameOf(i) : i \in Instances} |-> CHOOSE i \in Instances : NameOf(i) = n]
  /\ nodes' = DOMAIN rowOf'
  /\ parents' = [n \in nodes' |->
       LET i == rowOf'[n] IN UNION {ExpandParent(p, i[2]) : p \in templates[i[1]].parents}]
  /\ outputs' = [n \in nodes' |->
       LET i == rowOf'[n] IN UNION {ExpandPath(out, i[1], i[2]) : out \in templates[i[1]].outputs}]
  /\ seconds' = [n \in nodes' |->
       EffectiveWalltime(Asked(templates[rowOf'[n][1]].time), Asked(defaultTime))]
  /\ color' = [n \in nodes' |-> "new"]
  /\ todo' = [n \in nodes' |-> {}]
  /\ rank' = [n \in nodes' |-> 0]
  /\ phase' = "check"
  /\ UNCHANGED <<path, ended, templates, defaultTime, family>>

BadInstance ==
  /\ TimesParse /\ DOMAIN family = DOMAIN templates /\ ~Instantiable
  /\ RefuseLoad

----
LoadInit ==
  /\ \E source \in Sources : templates = source.templates /\ defaultTime = source.time
  /\ family = <<>> /\ rowOf = <<>> /\ seconds = <<>>
  /\ nodes = {} /\ parents = <<>> /\ outputs = <<>>
  /\ phase = "load"
  /\ SearchInit

LoadStep ==
  \/ \E t \in DOMAIN templates :
       TimesParse /\ (ResolveByItself(t) \/ ResolveFromParents(t) \/ BadTemplate(t) \/ BadSuppliers(t))
  \/ TimesParse /\ PatternCycle
  \/ BadTime \/ Instantiate \/ BadInstance
  \/ CheckStep /\ UNCHANGED loadVars

LoadSpec == LoadInit /\ [][LoadStep]_vars

----
(* Properties                                                              *)

(* What the rest of yall-run takes for granted of a campaign's tasks: they *)
(* name each other, no set of tasks waits only for itself, and no output   *)
(* path has two owners.                                                    *)
AcceptedGraphSound ==
  phase = "accepted" =>
    /\ \A n \in nodes : parents[n] \subseteq nodes
    /\ \A S \in (SUBSET nodes) \ {{}} : \E n \in S : parents[n] \cap S = {}
    /\ \A n, m \in nodes : outputs[n] \cap outputs[m] # {} => n = m

(* Correlated, never a product (docs/YALLFILE.md, "Rows are correlated"):  *)
(* a family that inherits has exactly the rows of each parent it inherits  *)
(* from, among those its own @each lets through.  No row of a parent goes  *)
(* without a follower and no follower combines the rows of two parents.    *)
RowsCorrelated ==
  phase = "accepted" =>
    \A t \in DOMAIN templates : Missing(t) # {} =>
      \A p \in Suppliers(t) :
        LET common == Fields(t) \cap Fields(p)
            Shared(row) == [f \in common |-> row[f]]
        IN  {Shared(row) : row \in family[t]}
              = {Shared(q) : q \in {r \in family[p] : \E seed \in Seeds(t) : Agree(r, seed)}}

(* A task waits for its own lineage: of a parent template it waits for     *)
(* every task that agrees with its row, and for no other one, unless it    *)
(* names that one in full by a reference that is not the template.         *)
ParentsAreMatchingRows ==
  phase = "accepted" =>
    \A n \in nodes : \A p \in templates[rowOf[n][1]].parents \cap DOMAIN templates :
      LET row == rowOf[n][2]
          others == {q \in templates[rowOf[n][1]].parents \ {p} : Fields(q) \subseteq DOMAIN row}
          kin == {m \in nodes : rowOf[m][1] = p /\ Agree(rowOf[m][2], row)}
      IN  /\ kin \subseteq parents[n]
          /\ {m \in parents[n] : rowOf[m][1] = p} \subseteq kin \cup {Format(q, row) : q \in others}

(* The wall time of a task is one its author wrote, the task's own before  *)
(* the campaign's, and both kinds of job script ask for it to the second.  *)
WalltimeKept ==
  phase = "accepted" =>
    \A n \in nodes :
      LET own == templates[rowOf[n][1]].time
          asked == IF own = None THEN defaultTime ELSE own
      IN  /\ (asked = None) = (seconds[n] = None)
          /\ asked # None =>
               /\ ValidSeconds(seconds[n]) /\ ReadsBack(seconds[n])
               /\ Seconds(FormatWalltime(seconds[n], TRUE)) = Seconds(asked)
====
