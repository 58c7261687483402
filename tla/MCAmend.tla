---- MODULE MCAmend ----
(* Two amends, sequential or overlapping, that compare the tasks a and b   *)
(* one after the other, against the workers of both.                       *)
EXTENDS Amendment, TLC

CONSTANTS p1, q1, q2, a, b, fa

MCProc == {p1}
MCAmender == {q1, q2}
MCTask == {a, b}
MCNothing == a :> {} @@ b :> {}
MCOutputs == a :> {fa} @@ b :> {}
MCFrozen == a :> "c1" @@ b :> "c1"
MCSymmetry == Permutations(MCAmender)
====
