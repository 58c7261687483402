---- MODULE GraphCheck ----
(***************************************************************************)
(* _validate_graph (model.py): the checks on the expanded tasks before a   *)
(* campaign is made.  The cycle check is a depth-first search; its         *)
(* recursion is the explicit path of tasks being visited here.             *)
(***************************************************************************)
EXTENDS Naturals, Sequences

VARIABLES
  nodes,    \* the names of the expanded tasks
  parents,  \* parents[n]: the names n comes after
  outputs,  \* outputs[n]: the output paths n declares
  phase,    \* "check" | "visit" | "owners" | "accepted" | "refused"
  color,    \* color[n]: the `state` of n in the search
  path,     \* the tasks whose visit is under way, outermost first
  todo,     \* todo[n]: the parents n's visit has still to look at
  rank,     \* history: rank[n] is n's place in the order visits ended
  ended     \* history: how many visits have ended

graphVars == <<nodes, parents, outputs>>
searchVars == <<color, path, todo, rank, ended>>
checkVars == <<graphVars, phase, searchVars>>

Color == {"new", "open", "done"}

(* The search before it begins, on any graph.                              *)
SearchInit ==
  /\ color = [n \in nodes |-> "new"]
  /\ path = <<>>
  /\ todo = [n \in nodes |-> {}]
  /\ rank = [n \in nodes |-> 0]
  /\ ended = 0

Refuse(from) ==
  /\ phase = from
  /\ phase' = "refused"

----
(* Parents that exist, and no task that is its own parent.                 *)

ParentsKnown == \A n \in nodes : parents[n] \subseteq nodes
NoSelfParent == \A n \in nodes : n \notin parents[n]

CheckParents ==
  /\ phase = "check"
  /\ ParentsKnown /\ NoSelfParent
  /\ phase' = "visit"
  /\ UNCHANGED <<graphVars, searchVars>>

BadParents ==
  /\ ~(ParentsKnown /\ NoSelfParent)
  /\ Refuse("check")
  /\ UNCHANGED <<graphVars, searchVars>>

----
(* visit                                                                   *)

Top == path[Len(path)]

Visit(n) ==
  /\ color' = [color EXCEPT ![n] = "open"]
  /\ path' = Append(path, n)
  /\ todo' = [todo EXCEPT ![n] = parents[n]]
  /\ UNCHANGED <<graphVars, phase, rank, ended>>

(* The loop over by_name.                                                  *)
VisitRoot(n) ==
  /\ phase = "visit" /\ path = <<>>
  /\ color[n] = "new"
  /\ Visit(n)

(* The loop over the parents of the task being visited.                    *)
VisitParent(p) ==
  /\ phase = "visit" /\ path # <<>>
  /\ p \in todo[Top] /\ color[p] = "new"
  /\ Visit(p)

PassParent(p) ==
  /\ phase = "visit" /\ path # <<>>
  /\ p \in todo[Top] /\ color[p] = "done"
  /\ todo' = [todo EXCEPT ![Top] = @ \ {p}]
  /\ UNCHANGED <<graphVars, phase, color, path, rank, ended>>

(* Mutant: a parent under visit is passed over like a finished one.        *)
FindCycle_Passed(p) ==
  /\ phase = "visit" /\ path # <<>>
  /\ p \in todo[Top] /\ color[p] = "open"
  /\ todo' = [todo EXCEPT ![Top] = @ \ {p}]
  /\ UNCHANGED <<graphVars, phase, color, path, rank, ended>>

FindCycle(p) ==
  /\ path # <<>>
  /\ p \in todo[Top] /\ color[p] = "open"
  /\ Refuse("visit")
  /\ UNCHANGED <<graphVars, searchVars>>

EndVisit ==
  /\ phase = "visit" /\ path # <<>>
  /\ todo[Top] = {}
  /\ color' = [color EXCEPT ![Top] = "done"]
  /\ path' = SubSeq(path, 1, Len(path) - 1)
  /\ ended' = ended + 1
  /\ rank' = [rank EXCEPT ![Top] = ended + 1]
  /\ UNCHANGED <<graphVars, phase, todo>>

AllVisited ==
  /\ phase = "visit" /\ path = <<>>
  /\ \A n \in nodes : color[n] = "done"
  /\ phase' = "owners"
  /\ UNCHANGED <<graphVars, searchVars>>

----
(* One owner for every output path.                                        *)

OneOwner == \A n, m \in nodes : n # m => outputs[n] \cap outputs[m] = {}

CheckOwners ==
  /\ phase = "owners"
  /\ phase' = IF OneOwner THEN "accepted" ELSE "refused"
  /\ UNCHANGED <<graphVars, searchVars>>

CheckStep ==
  \/ CheckParents \/ BadParents
  \/ \E n \in nodes : VisitRoot(n) \/ VisitParent(n) \/ PassParent(n) \/ FindCycle(n)
  \/ EndVisit \/ AllVisited \/ CheckOwners

(* The check on any tasks at all, with whatever parents they name.         *)
CheckInit ==
  /\ parents = [n \in nodes |-> parents[n]]
  /\ phase = "check"
  /\ SearchInit

CheckSpec == CheckInit /\ [][CheckStep]_checkVars

----
(* Properties                                                              *)

(* What the check leaves to the rest of yall-run: an order in which every  *)
(* task comes after its parents, and one owner for every output path.      *)
Ordered == \A n \in nodes : \A p \in parents[n] : rank[p] < rank[n]

AcceptedSound == phase = "accepted" => Ordered /\ OneOwner

(* The search refuses for a reason: the path it was on closes a cycle.     *)
CycleFound ==
  /\ \A i \in 1 .. Len(path) - 1 : path[i + 1] \in parents[path[i]]
  /\ \E i \in 1 .. Len(path) : path[i] \in parents[Top]
====
