---------------------------- MODULE MCTaskWalk -----------------------------
(* TaskWalk up to the exchange of the tasks that come and go.              *)
EXTENDS TaskWalk, TLC

Symmetry == Permutations(Tasks \ {init_task, current})
=============================================================================
