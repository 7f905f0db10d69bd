----------------------------- MODULE MCJobQueue -----------------------------
(* Model-checking instance of JobQueue: the worker processes.              *)
EXTENDS JobQueue

CONSTANTS w1, w2

MCOneWorker  == {w1}
MCTwoWorkers == {w1, w2}
=============================================================================
