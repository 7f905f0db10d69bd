----------------------------- MODULE MCAIBatch ------------------------------
(* Model-checking instances of AIBatch: which runs overlap.                *)
EXTENDS AIBatch, TLC

CONSTANTS p1, p2, p3, r1, r2, j1, j2

MCRuns      == {p1, p2}
MCThreeRuns == {p1, p2, p3}
MCReceipt   == {r1}
MCReceipts  == {r1, r2}
MCSlots     == {j1, j2}
(* Job rows are interchangeable.                                           *)
MCSymmetry  == Permutations(MCSlots)

(* Two replicas that both submit and collect; one resets stuck jobs too.   *)
MCOverlap   == (p1 :> {"submit", "collect"}) @@ (p2 :> {"submit", "collect", "reset"})

(* Each task in one replica at a time.                                     *)
MCOneEach   == (p1 :> {"submit"}) @@ (p2 :> {"collect"}) @@ (p3 :> {"reset"})
=============================================================================
