---- MODULE MCBatch ----
(* One submitter of a task and one that comes after it, declared first,    *)
(* followed by postflight.                                                 *)
EXTENDS BatchProperties, TLC

CONSTANTS p1, a, b, fa

MCJob == 1 .. 6
MCSubmitter == {p1}
MCProc == MCSubmitter \cup MCJob
MCTask == {a, b}
MCFile == {fa}
MCTaskOrder == <<b, a>>
MCParents == a :> {} @@ b :> {a}
MCInputs == a :> {} @@ b :> {fa}
MCOutputs == a :> {fa} @@ b :> {}
MCRetries == a :> 1 @@ b :> 0
MCInitialFiles == {{}, {fa}}
====
