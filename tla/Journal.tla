------------------------------- MODULE Journal -------------------------------
(***************************************************************************)
(* What the books promise, whatever happens around them: transactions are  *)
(* only ever added, one at a time, each one balances, and a receipt backs  *)
(* at most one.                                                            *)
(***************************************************************************)
CONSTANTS
    NoReceipt,     \* the receipt of a transaction posted without one
    Balanced(_)    \* do the debits of these lines equal their credits?

VARIABLE journal   \* the transactions posted so far

Init == journal = {}

Backed(r) == \E t \in journal : t.receipt = r

Post(t) ==
    /\ Balanced(t.lines)
    /\ t.receipt = NoReceipt \/ ~ Backed(t.receipt)
    /\ journal' = journal \cup {t}

Next == \E t \in journal' \ journal : Post(t)

Spec == Init /\ [][Next]_journal
=============================================================================
