---- MODULE MCWorker ----
(* Three processes run the task a, concurrently and repeatedly; its input  *)
(* may or may not exist, and its output may exist before the first attempt *)
(* and is not to be overwritten.                                           *)
EXTENDS Worker, TLC

CONSTANTS p1, p2, p3, a, fin, fa

MCProc == {p1, p2, p3}
MCTask == {a}
MCFile == {fin, fa}
MCParents == a :> {}
MCInputs == a :> {fin}
MCOutputs == a :> {fa}
ProcSymmetry == Permutations(MCProc)
====
