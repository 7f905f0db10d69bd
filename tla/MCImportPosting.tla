-------------------------- MODULE MCImportPosting ---------------------------
(* Model-checking instance of ImportPosting: two requests, two rows.       *)
EXTENDS ImportPosting, TLC

CONSTANTS p1, p2, a1, a2

MCPosters  == {p1, p2}
MCIndexes  == 1 .. 2
MCAmounts  == {0, 7}
MCAccounts == {a1, a2}
(* Requests are interchangeable, and so are accounts.                      *)
MCSymmetry == Permutations(MCPosters) \cup Permutations(MCAccounts)
=============================================================================
