------------------------------ MODULE MCLedger ------------------------------
(* Model-checking instance of Ledger: the nets of the batches, and who     *)
(* runs side by side.                                                      *)
EXTENDS Ledger

CONSTANTS p1, p2, r1

MCProcs    == {p1, p2}
MCReceipts == {r1}
MCNets     == {0, 1}
MCSetStatuses == {"queued"}
=============================================================================
