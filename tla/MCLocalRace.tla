---- MODULE MCLocalRace ----
(* Two processes whose commands overlap, on a chain of two tasks.          *)
EXTENDS LocalProperties, TLC

CONSTANTS p1, p2, a, b, fb

MCProc == {p1, p2}
MCTask == {a, b}
MCFile == {fb}
MCTaskOrder == <<a, b>>
MCParents == a :> {} @@ b :> {a}
MCInputs == a :> {} @@ b :> {}
MCOutputs == a :> {} @@ b :> {fb}
MCRetries == a :> 1 @@ b :> 0
MCNoRetries == a :> 0 @@ b :> 0
MCInitialFiles == {{}}
ProcSymmetry == Permutations(MCProc)
====
