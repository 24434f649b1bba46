-------------------------- MODULE MCOrderSettlement --------------------------
(* Small instances of OrderSettlement for TLC.                              *)
EXTENDS OrderSettlement, TLC

CONSTANTS d1, d2, e1, e2, k1, k2

\* d1 and e1 post the same charge, once on each path; the others are rivals.
Charges == [a \in Tenders |-> CASE a \in {d1, e1} -> "one"
                                [] a = d2         -> "other card"
                                [] OTHER          -> "other cash"]

\* Every charge pays for half of the order.
Halves == [a \in Tenders |-> 5]
\* A charge that pays for the whole, and one that pays for half of it.
AllOrHalf == [a \in Tenders |-> IF a = e2 THEN 5 ELSE 10]

OneDish == [k \in Rounds |-> 4]
=============================================================================
