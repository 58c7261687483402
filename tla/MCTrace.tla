---- MODULE MCTrace ----
(* A job of the first submission, which can start twice, and one of a      *)
(* resume; two pieces of evidence can be lost or damaged.                  *)
EXTENDS ExecutionTrace, TLC

CONSTANTS j1, j2

MCJob == {j1, j2}
MCGenOf == j1 :> 0 @@ j2 :> 1
MCMaxEvents == j1 :> 5 @@ j2 :> 2
====
