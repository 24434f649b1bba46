------------------------------ MODULE MCRefunds ------------------------------
(* Small instances of Refunds for TLC.                                      *)
EXTENDS Refunds, TLC

CONSTANTS card, cash, tacos, refund1, refund2, refund3

\* An order of nine cents, three tacos of five cents among them, was paid with two payments.
TwoPayments == card :> 6 @@ cash :> 3
CardTip == card :> 3 @@ cash :> 0

\* Or it was of seven, and of one.
OnePayment == card :> 7
NoTip == card :> 0

Three == tacos :> 3
FiveCents == tacos :> 5

\* Nothing tells one call from another.
RefundSymmetry == Permutations(Refunds)
=============================================================================
