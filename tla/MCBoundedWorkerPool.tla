------------------------- MODULE MCBoundedWorkerPool -------------------------
(* Two workers and four tasks on a ring of two slots. *)
EXTENDS BoundedWorkerPool

CONSTANTS w1, w2, t1, t2, t3, t4

MCWorkers == {w1, w2}
MCTasks == {t1, t2, t3, t4}
==============================================================================
