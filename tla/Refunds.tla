------------------------------- MODULE Refunds -------------------------------
(***************************************************************************)
(* Refunds of the payments of one order, from a terminal and from the      *)
(* back office.  Each refund is a payment of its own with a negative sale  *)
(* and tip; the original payment keeps a total and a list of its refunds.  *)
(*                                                                         *)
(* A terminal reads the original, and later locks it, checks the total     *)
(* once more and writes it.  The back office reads, checks and writes      *)
(* under one lock.  Both return stock after their transaction.             *)
(* Money is in cents.                                                      *)
(***************************************************************************)
EXTENDS Integers, FiniteSets, FiniteSetsExt, Functions

CONSTANTS
  Payments,   \* completed payments of the order
  Amount,     \* sale portion of each
  Tip,        \* tip of each
  OrderTotal,
  Items,      \* lines of the order that track inventory
  Qty,        \* units of each
  LineTotal,  \* what all the units of a line cost
  Refunds,    \* refund calls; one sent twice is two, they have no idempotency key
  Asked       \* bound on the amounts that a call asks for

NoPayment == "no payment"
Proportional == -1   \* tipRefundCents is not given

ASSUME RefundsAssumption ==
  /\ IsFiniteSet(Refunds) /\ IsFiniteSet(Items)
  /\ Amount \in [Payments -> Nat \ {0}] /\ Tip \in [Payments -> Nat] /\ OrderTotal \in Nat
  /\ Qty \in [Items -> Nat \ {0}] /\ LineTotal \in [Items -> Nat]
  /\ Asked \subseteq Nat \ {0}
  /\ NoPayment \notin Payments

VARIABLES
  row,        \* the REFUND payment that each call has created
  processed,  \* processorData of each original payment
  restocked,  \* units of each line that each call has returned to stock
  seen,       \* the split of a terminal's refund, and the processorData it has read
  at          \* where each call stands

vars == <<row, processed, restocked, seen, at>>

None == [i \in Items |-> 0]

\* A row that names no lines.
AmountRow(p, sale, tip, processor) ==
  [payment |-> p, sale |-> sale, tip |-> tip, units |-> None, cents |-> None,
   processor |-> processor]

NoRow == AmountRow(NoPayment, 0, 0, "none")
NoSplit == [payment |-> NoPayment, sale |-> 0, tip |-> 0, refunded |-> 0, listed |-> {}]

Init ==
  /\ row = [r \in Refunds |-> NoRow]
  /\ processed = [p \in Payments |-> [refunded |-> 0, listed |-> {}]]
  /\ restocked = [r \in Refunds |-> None]
  /\ seen = [r \in Refunds |-> NoSplit]
  /\ at = [r \in Refunds |-> "new"]

-----------------------------------------------------------------------------
RefundsOf(p) == {r \in Refunds : row[r].payment = p}
Rows == {r \in Refunds : row[r].payment # NoPayment}

SaleOf(S) == SumFunctionOnSet([r \in Refunds |-> row[r].sale], S)
TipOf(S) == SumFunctionOnSet([r \in Refunds |-> row[r].tip], S)
UnitsOf(S, i) == SumFunctionOnSet([r \in Refunds |-> row[r].units[i]], S)
CentsOf(S, i) == SumFunctionOnSet([r \in Refunds |-> row[r].cents[i]], S)

Total(p) == Amount[p] + Tip[p]

\* Math.round
Rounded(n, d) == (2 * n + d) \div (2 * d)

\* Mutant of OverrideFits: a tip may exceed the refund that it is part of.
OverrideFitsThePayment(p, cents, tip) == tip <= Tip[p] /\ cents - tip <= Amount[p]

\* A tip that was asked for has to fit the tip of the payment, and what is left its sale.
OverrideFits(p, cents, tip) == tip <= cents /\ tip <= Tip[p] /\ cents - tip <= Amount[p]

\* The tip of a refund without items.  The sale that does not fit goes back to the tip.
TipPart(p, cents, tip) ==
  IF tip # Proportional THEN tip
  ELSE LET share == Min({Rounded(cents * Tip[p], Total(p)), Tip[p]})
       IN  share + Max({0, cents - share - Amount[p]})

Splits(p, cents, tip) ==
  IF tip # Proportional /\ ~ OverrideFits(p, cents, tip) THEN {}
  ELSE {[payment |-> p, sale |-> cents - TipPart(p, cents, tip), tip |-> TipPart(p, cents, tip),
         refunded |-> processed[p].refunded, listed |-> processed[p].listed]}

-----------------------------------------------------------------------------
(* Terminal: recordRefund                                                   *)

TpvRead(r, p, cents, tip) ==
  /\ at[r] = "new"
  /\ cents <= Total(p) - processed[p].refunded
  /\ \E split \in Splits(p, cents, tip) : seen' = [seen EXCEPT ![r] = split]
  /\ at' = [at EXCEPT ![r] = "read"]
  /\ UNCHANGED <<row, processed, restocked>>

\* Mutant of LockedRemaining: the second check is against what the first one read.
UnlockedRemaining(p) == Total(p)

\* The remainder that is checked under the lock.
LockedRemaining(p) == Total(p) - processed[p].refunded

\* What is written is what was read before the lock, and this refund.
TpvCommit(r) ==
  LET mine == seen[r]
      cents == mine.sale + mine.tip
  IN
  /\ at[r] = "read"
  /\ IF cents <= LockedRemaining(mine.payment)
     THEN /\ row' = [row EXCEPT ![r] = AmountRow(mine.payment, mine.sale, mine.tip, "blumon")]
          /\ processed' = [processed EXCEPT ![mine.payment] =
                             [refunded |-> mine.refunded + cents, listed |-> mine.listed \cup {r}]]
          /\ at' = [at EXCEPT ![r] = "committed"]
     ELSE /\ at' = [at EXCEPT ![r] = "refused"]
          /\ UNCHANGED <<row, processed>>
  /\ seen' = [seen EXCEPT ![r] = NoSplit]
  /\ UNCHANGED restocked

\* Mutant of Crossed: the sum does not see the row of this refund.
CrossedWithoutItself(r) ==
  /\ OrderTotal > 0
  /\ SaleOf(Rows \ {r}) - row[r].sale < OrderTotal - 1
  /\ SaleOf(Rows \ {r}) >= OrderTotal - 1

\* The refunds of all the payments of the order, the sale without the tips, reach its
\* total, and did not without this one.  A cent is let go.
Crossed(r) ==
  /\ OrderTotal > 0
  /\ SaleOf(Rows) - row[r].sale < OrderTotal - 1
  /\ SaleOf(Rows) >= OrderTotal - 1

\* Every line is returned in full; one that fails is left out.
TpvRestock(r) ==
  /\ row[r].processor = "blumon" /\ at[r] = "committed"
  /\ IF Crossed(r)
     THEN /\ \E done \in SUBSET Items :
               restocked' = [restocked EXCEPT ![r] = [i \in Items |-> IF i \in done THEN Qty[i] ELSE 0]]
          /\ at' = [at EXCEPT ![r] = "restocked"]
     ELSE at' = [at EXCEPT ![r] = "done"] /\ UNCHANGED restocked
  /\ UNCHANGED <<row, processed, seen>>

-----------------------------------------------------------------------------
(* Back office: issueRefund                                                 *)

\* The sale of the refunds of the payment; their tips are not counted.
AlreadyRefunded(p) == SaleOf(RefundsOf(p))

\* The row, and the processorData that the lock covers.
Issue(r, p, new) ==
  LET cents == new.sale + new.tip IN
  /\ cents > 0 /\ cents <= Total(p) - AlreadyRefunded(p)
  /\ row' = [row EXCEPT ![r] = new]
  /\ processed' = [processed EXCEPT ![p] = [refunded |-> AlreadyRefunded(p) + cents,
                                            listed |-> @.listed \cup {r}]]
  /\ at' = [at EXCEPT ![r] = "committed"]
  /\ UNCHANGED <<restocked, seen>>

IssueAmount(r, p, cents, tip) ==
  /\ at[r] = "new"
  /\ \E split \in Splits(p, cents, tip) :
       Issue(r, p, AmountRow(p, split.sale, split.tip, "dashboard"))

\* Mutant of UnitRefundCents: every refund starts with the dearer units.
UnitRefundFromZero(total, quantity, offset, count) ==
  (total \div quantity) * count + Min({total % quantity, count})

\* getUnitRefundCents: the units from offset on, the first of which cost a cent more when the
\* line does not divide.
UnitRefundCents(total, quantity, offset, count) ==
  (total \div quantity) * count
    + Min({total % quantity, offset + count}) - Min({total % quantity, offset})

AlreadyReturned(p, i) == UnitsOf(RefundsOf(p), i)

\* What the units cost; what does not fit the sale of the payment is taken from its tip,
\* unless the request has named a tip, of which nothing else is read.
IssueItems(r, p, units, named) ==
  LET cents == [i \in Items |->
                  UnitRefundCents(LineTotal[i], Qty[i], AlreadyReturned(p, i), units[i])]
      all == SumFunctionOnSet(cents, Items)
      excess == IF named THEN 0 ELSE Max({0, all - Amount[p]})
  IN
  /\ at[r] = "new"
  /\ \A i \in Items : AlreadyReturned(p, i) + units[i] <= Qty[i]
  /\ Issue(r, p, [payment |-> p, sale |-> all - excess, tip |-> excess, units |-> units,
                  cents |-> cents, processor |-> "dashboard"])

\* The lines that were asked for, of those that this refund returned.
DashboardRestock(r) ==
  /\ row[r].processor = "dashboard" /\ at[r] = "committed"
  /\ \E done \in SUBSET {i \in Items : row[r].units[i] > 0} :
       restocked' = [restocked EXCEPT ![r] =
                       [i \in Items |-> IF i \in done THEN row[r].units[i] ELSE 0]]
  /\ at' = [at EXCEPT ![r] = "done"]
  /\ UNCHANGED <<row, processed, seen>>

\* The process dies after the commit, or the sum cannot be read.
Stop(r) ==
  /\ at[r] = "committed"
  /\ at' = [at EXCEPT ![r] = "stopped"]
  /\ UNCHANGED <<row, processed, restocked, seen>>

-----------------------------------------------------------------------------
\* Units of each line, none of a line that is not returned.
Returns == [Items -> UNION {0..Qty[i] : i \in Items}]

Next == \E r \in Refunds :
  \/ \E p \in Payments, cents \in Asked, tip \in Asked \cup {0, Proportional} :
       TpvRead(r, p, cents, tip) \/ IssueAmount(r, p, cents, tip)
  \/ TpvCommit(r) \/ TpvRestock(r)
  \/ \E p \in Payments, units \in Returns, named \in BOOLEAN : IssueItems(r, p, units, named)
  \/ DashboardRestock(r) \/ Stop(r)

Spec == Init /\ [][Next]_vars

-----------------------------------------------------------------------------
\* Every variable has its type, and a call has a row from its commit on and not before.
TypeOK ==
  /\ row \in [Refunds -> [payment : Payments \cup {NoPayment}, sale : Nat, tip : Nat,
                         units : [Items -> Nat], cents : [Items -> Nat],
                         processor : {"none", "blumon", "dashboard"}]]
  /\ processed \in [Payments -> [refunded : Nat, listed : SUBSET Refunds]]
  /\ restocked \in [Refunds -> [Items -> Nat]]
  /\ seen \in [Refunds -> [payment : Payments \cup {NoPayment}, sale : Nat, tip : Nat,
                          refunded : Nat, listed : SUBSET Refunds]]
  /\ at \in [Refunds -> {"new", "read", "committed", "restocked", "done", "refused", "stopped"}]
  /\ Rows = {r \in Refunds : at[r] \in {"committed", "restocked", "done", "stopped"}}

\* A refund of an amount takes from the sale and from the tip of its payment no more than
\* each was, whatever split is asked for and wherever the rounding falls.
SplitFits ==
  \A r \in {r \in Rows : row[r].units = None} :
    /\ 0 <= row[r].sale /\ row[r].sale <= Amount[row[r].payment]
    /\ 0 <= row[r].tip /\ row[r].tip <= Tip[row[r].payment]

\* What the original says was refunded was refunded: a lost update can only forget refunds.
NeverOverstated ==
  \A p \in Payments : /\ processed[p].refunded <= SaleOf(RefundsOf(p)) + TipOf(RefundsOf(p))
                      /\ processed[p].listed \subseteq RefundsOf(p)

\* The units of a line come back once through each payment, and returned one by one or all
\* together they pay exactly what the line cost.
LinesAreExact ==
  \A p \in Payments, i \in Items :
    /\ AlreadyReturned(p, i) <= Qty[i]
    /\ AlreadyReturned(p, i) = Qty[i] => CentsOf(RefundsOf(p), i) = LineTotal[i]

\* A payment without a tip is not refunded beyond its amount by any number of calls of the
\* back office and one of a terminal, though that one writes what it read before the lock.
OneTerminalFits ==
  \A p \in Payments :
    Tip[p] = 0 /\ Cardinality({r \in RefundsOf(p) : row[r].processor = "blumon"}) <= 1
      => SaleOf(RefundsOf(p)) <= Amount[p]

\* However a refund is split or rounded, what it pays back was paid, to the cent.
PaysBackExactly == SplitFits /\ LinesAreExact

\* The totals of both sides, who count in different ways, neither invent refunds nor let one
\* terminal and the back office refund too much.
TotalsAgree == NeverOverstated /\ OneTerminalFits

\* If terminals have refunded the order to its total, no more, and none of them died, one
\* of them has returned the stock, in whatever order they committed and summed.  (Refunds
\* of one cent are as large as what is let go.)
ReversedIsRestocked ==
  /\ \A r \in Rows : row[r].processor = "blumon" /\ at[r] \in {"restocked", "done"} /\ row[r].sale > 1
  /\ SaleOf(Rows) = OrderTotal /\ OrderTotal > 0
  => \E r \in Rows : at[r] = "restocked"

-----------------------------------------------------------------------------
\* refund.tpv.service.ts: concurrent refunds cannot pass the check with stale data.
RefundsFit == \A p \in Payments : SaleOf(RefundsOf(p)) + TipOf(RefundsOf(p)) <= Total(p)
=============================================================================
