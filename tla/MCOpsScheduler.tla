--------------------------- MODULE MCOpsScheduler ---------------------------
(* Model-checking instances of OpsScheduler: two replicas, two tasks.      *)
EXTENDS OpsScheduler, TLC

CONSTANTS s1, s2, a, b

MCSchedulers == {s1, s2}
MCTasks      == {a, b}
MCSame       == (s1 :> {a, b}) @@ (s2 :> {a, b})
(* The second replica is of a release that does not know task b yet.       *)
MCUpgrade    == (s1 :> {a, b}) @@ (s2 :> {a})
MCInterval   == (a :> 1) @@ (b :> 2)
(* Task a has no timeout of its own: it may take the whole lease.          *)
MCTimeout    == (a :> 2) @@ (b :> 1)
=============================================================================
