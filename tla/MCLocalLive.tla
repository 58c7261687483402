---- MODULE MCLocalLive ----
(* Two processes whose commands overlap on a chain of two tasks, without   *)
(* declared files.                                                         *)
EXTENDS LocalProperties, TLC

CONSTANTS p1, p2, a, b

MCProc == {p1, p2}
MCTask == {a, b}
MCTaskOrder == <<a, b>>
MCParents == a :> {} @@ b :> {a}
MCNothing == a :> {} @@ b :> {}
MCNoRetries == a :> 0 @@ b :> 0
MCInitialFiles == {{}}
====
