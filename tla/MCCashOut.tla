------------------------------ MODULE MCCashOut ------------------------------
(* A small instance of CashOut for TLC.                                     *)
EXTENDS CashOut, TLC

CONSTANTS s1, s2, p1

\* Two sales of one promoter, who withdraws twice.
InOrder == (s1 :> 1) @@ (s2 :> 2)
OneSeller == [s \in Sales |-> p1]
OneOwner == [w \in Withdrawals |-> p1]
=============================================================================
