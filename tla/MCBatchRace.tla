---- MODULE MCBatchRace ----
(* Two submitters of one task, which the postflight job comes after.       *)
EXTENDS BatchProperties, TLC

CONSTANTS p1, p2, a

MCJob == 1 .. 4
MCSubmitter == {p1, p2}
MCProc == MCSubmitter \cup MCJob
MCTask == {a}
MCTaskOrder == <<a>>
MCParents == a :> {}
MCNothing == a :> {}
MCRetries == a :> 0
MCInitialFiles == {{}}
SubmitterSymmetry == Permutations(MCSubmitter)
====
