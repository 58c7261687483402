---- MODULE MCCondor ----
(* A wrapped task and one that comes after it and reads its output, as     *)
(* nodes of a DAG that is submitted once and resumed.                      *)
EXTENDS CondorProperties, TLC

CONSTANTS p1, r1, r2, a, b, fa

MCDag == 1 .. 3
MCSubmitter == {p1}
MCResumer == {r1, r2}
MCProc == MCSubmitter \cup MCResumer \cup MCDag
MCTask == {a, b}
MCFile == {fa}
MCParents == a :> {} @@ b :> {a}
MCInputs == a :> {} @@ b :> {fa}
MCOutputs == a :> {fa} @@ b :> {}
MCRetries == a :> 1 @@ b :> 0
MCStartupRetries == a :> 1 @@ b :> 0
MCInitialFiles == {{}}
ResumerSymmetry == Permutations(MCResumer)
====
