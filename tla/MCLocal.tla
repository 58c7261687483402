---- MODULE MCLocal ----
(* Two roots, a task that joins them and one after it, declared first: the *)
(* order of a Yallfile need not follow the dependencies.                   *)
EXTENDS LocalProperties, TLC

CONSTANTS p1, a, b, c, d, fa, fc

MCProc == {p1}
MCTask == {a, b, c, d}
MCFile == {fa, fc}
MCTaskOrder == <<d, a, b, c>>
MCParents == a :> {} @@ b :> {} @@ c :> {a, b} @@ d :> {c}
MCInputs == a :> {} @@ b :> {} @@ c :> {fa} @@ d :> {}
MCOutputs == a :> {fa} @@ b :> {} @@ c :> {fc} @@ d :> {}
MCRetries == a :> 1 @@ b :> 0 @@ c :> 0 @@ d :> 0
MCInitialFiles == {{}, {fc}}
====
