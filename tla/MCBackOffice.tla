----------------------------- MODULE MCBackOffice -----------------------------
(* Model-checking instance of BackOffice.  The parts share model values,   *)
(* as they share no state: w1 and w2 are the requests or workers of each   *)
(* part, x1 and x2 its users or vendor names, a1 and a2 its accounts.      *)
EXTENDS BackOffice, TLC

CONSTANTS w1, w2, x1, x2, a1, a2

MCHands  == {w1, w2}
MCNames  == {x1, x2}
MCThings == {a1, a2}

(* Amounts that agree, that are within the tolerance and that are not.     *)
MCExtracts ==
    [parsed : BOOLEAN, sure : BOOLEAN, wellFormed : BOOLEAN, total : Maybe({0, 3}),
     subtotal : Maybe({-1, 2, 3}), tax : Maybe({1, 4}), items : Maybe({3, 9})]

MCRowLists == [1 .. 2 -> [cents : {0, 1, 2}, account : Maybe({"rent", "cash"}), inflow : BOOLEAN]]

MCYears == 2023 .. 2028

MCPosting(cents, inPeriod, vendor) ==
    [debit : TypesSpelled, credit : TypesSpelled, cents : {cents}, inPeriod : inPeriod, vendor : vendor]

MCBooks == {<<s, t>> : s \in MCPosting(1, BOOLEAN, BOOLEAN), t \in MCPosting(2, {TRUE}, {TRUE})}

(* Requests, users and vendor names are interchangeable.                   *)
MCSymmetry == {f @@ g : f \in Permutations(MCHands), g \in Permutations(MCNames)}
=============================================================================
