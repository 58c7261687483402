---- MODULE MCRecovery ----
(* A task and one that comes after it and reads its output, submitted once *)
(* and resumed by two processes.                                           *)
EXTENDS RecoveryProperties, TLC

CONSTANTS p1, r1, r2, a, b, fa

MCJob == 1 .. 4
MCSubmitter == {p1}
MCResumer == {r1, r2}
MCProc == MCSubmitter \cup MCResumer \cup MCJob
MCTask == {a, b}
MCFile == {fa}
MCTaskOrder == <<a, b>>
MCParents == a :> {} @@ b :> {a}
MCInputs == a :> {} @@ b :> {fa}
MCOutputs == a :> {fa} @@ b :> {}
MCRetries == a :> 0 @@ b :> 0
MCInitialFiles == {{}}
ResumerSymmetry == Permutations(MCResumer)
====
