--------------------------- MODULE OrderSettlement ---------------------------
(***************************************************************************)
(* How the tenders of one order are recorded and how they settle it.       *)
(*                                                                         *)
(* A card tender goes through recordOrderPayment: the Payment is committed *)
(* in a transaction, and updateOrderTotalsForStandalonePayment then reads  *)
(* the order and its payments, writes the totals, and deducts the stock,   *)
(* each in a round trip of its own.  A cash tender goes through            *)
(* payCashOrder: a transaction that compares and sets the order's version, *)
(* tried again when it loses.  Rounds of items are added by                *)
(* addItemsToOrder, which compares and sets the same version.              *)
(*                                                                         *)
(* Amounts are cents.  Tips add the same to what is due and what is paid,  *)
(* and are left out.                                                       *)
(***************************************************************************)
EXTENDS Integers, FiniteSets, Functions

CONSTANTS
  Tenders,        \* HTTP calls that record a payment
  Cards,          \* those that came to recordOrderPayment; the others to payCashOrder
  ChargeOf,       \* the charge a call is for: its retries carry the same one
  Keyed,          \* tenders that carry their charge as idempotencyKey
  AmountOf,       \* cents a tender collects
  Rounds,         \* calls of addItemsToOrder
  PriceOf,        \* cents of the rows a round creates
  Ordered,        \* cents of the rows the order starts with
  ServiceCharge,  \* Order.serviceChargeAmount
  MaxFaults       \* bound: crashes and failed database calls

ASSUME TendersAssumption ==
  /\ IsFiniteSet(Tenders)
  /\ Cards \subseteq Tenders /\ Keyed \subseteq Tenders
  /\ AmountOf \in [Tenders -> Nat]
  /\ \A a, b \in Tenders : ChargeOf[a] = ChargeOf[b] => AmountOf[a] = AmountOf[b]

ASSUME OrderAssumption ==
  /\ IsFiniteSet(Rounds)
  /\ PriceOf \in [Rounds -> Nat]
  /\ Ordered \in Nat /\ ServiceCharge \in Nat /\ MaxFaults \in Nat

Cash == Tenders \ Cards

\* MAX_PAYMENT_CAS_ATTEMPTS
MaxCasAttempts == 3

VARIABLES
  payStatus,   \* Order.paymentStatus
  paidAmount,  \* Order.paidAmount
  version,     \* Order.version
  billed,      \* rounds whose rows are counted in Order.subtotal
  items,       \* rounds whose OrderItem rows exist
  payments,    \* tenders whose Payment row is committed
  deducted,    \* tenders that took the order's stock
  at,          \* where each tender stands
  seen,        \* what a tender read of the order and its payments
  losses,      \* compare-and-sets a cash tender lost
  round,       \* where each round stands
  roundSeen,   \* the version a round read, then the rows it summed
  faults       \* crashes and failed calls so far

orderVars == <<payStatus, paidAmount, version, billed>>
roundVars == <<items, round, roundSeen>>
tenderVars == <<at, seen, losses>>
vars == <<orderVars, roundVars, tenderVars, payments, deducted, faults>>

-----------------------------------------------------------------------------
Collected(tenders) == SumFunctionOnSet(AmountOf, tenders)

\* Order.subtotal: the sum of the rows of the order that were counted.
Subtotal(rounds) == Ordered + SumFunctionOnSet(PriceOf, rounds)

\* remaining <= 0.01
Settles(paid, due) == due - paid <= 1

CardSteps == {"new", "record", "totals", "write", "deduct", "rollback", "done"}
CashSteps == {"new", "read", "cas", "lost", "stock", "done"}

View == [status : {"PENDING", "PARTIAL", "PAID"}, paid : Nat, due : Nat, version : Nat]

ControlTypeOK ==
  /\ version \in Nat
  /\ billed \subseteq Rounds /\ items \subseteq Rounds
  /\ payments \subseteq Tenders /\ deducted \subseteq Tenders
  /\ at \in [Tenders -> CardSteps \cup CashSteps]
  /\ \A a \in Tenders : at[a] \in IF a \in Cards THEN CardSteps ELSE CashSteps
  /\ round \in [Rounds -> {"new", "rows", "sum", "cas", "accepted", "refused"}]
  /\ roundSeen \in [Rounds -> [version : Nat, rows : SUBSET Rounds]]

\* What depends on the amounts.
AmountTypeOK ==
  /\ payStatus \in {"PENDING", "PARTIAL", "PAID"}
  /\ paidAmount \in Nat
  /\ seen \in [Tenders -> View]
  /\ losses \in [Tenders -> 0..MaxCasAttempts]
  /\ faults \in 0..MaxFaults

TypeOK == ControlTypeOK /\ AmountTypeOK

Init ==
  /\ payStatus = "PENDING" /\ paidAmount = 0 /\ version = 1
  /\ billed = {} /\ items = {} /\ payments = {} /\ deducted = {}
  /\ at = [a \in Tenders |-> "new"]
  /\ seen = [a \in Tenders |-> [status |-> "PENDING", paid |-> 0, due |-> 0, version |-> 0]]
  /\ losses = [a \in Tenders |-> 0]
  /\ round = [k \in Rounds |-> "new"]
  /\ roundSeen = [k \in Rounds |-> [version |-> 0, rows |-> {}]]
  /\ faults = 0

Advance(a, step) == at' = [at EXCEPT ![a] = step]

Return(a) == Advance(a, "done")

\* A payment with the tender's idempotency key is on record.
SameKey(a) == a \in Keyed /\ \E b \in payments \cap Keyed : ChargeOf[b] = ChargeOf[a]

\* A card payment with the tender's reference number is on record.
SameReference(a) == \E b \in payments \cap Cards : ChargeOf[b] = ChargeOf[a]

\* Variant: the index on (venueId, idempotencyKey) is not unique.
KeyTakenNever(a) == FALSE

\* The unique index on (venueId, idempotencyKey): rows without a key are outside it.
KeyTaken(a) == SameKey(a)

-----------------------------------------------------------------------------
(* recordOrderPayment.                                                      *)

\* The idempotency key, then the reference number, look for an earlier payment of the
\* charge.  The split type or the stock may refuse the tender; otherwise it goes on.
RecordCheck(a) ==
  /\ a \in Cards /\ at[a] = "new"
  /\ IF SameKey(a) \/ SameReference(a) THEN Return(a)
     ELSE Return(a) \/ Advance(a, "record")
  /\ UNCHANGED <<orderVars, roundVars, seen, losses, payments, deducted, faults>>

\* The transaction: the Payment, its allocation, the shift.  P2002 on the key answers the
\* payment that won, without touching the order.
RecordCommit(a) ==
  /\ at[a] = "record"
  /\ IF KeyTaken(a)
     THEN Return(a) /\ UNCHANGED payments
     ELSE Advance(a, "totals") /\ payments' = payments \cup {a}
  /\ UNCHANGED <<orderVars, roundVars, seen, losses, deducted, faults>>

\* The other payments of the order, and this one.
PaidWith(a) == Collected(payments \ {a}) + AmountOf[a]

\* updateOrderTotalsForStandalonePayment reads the order and the payments.
TotalsRead(a) ==
  /\ at[a] = "totals"
  /\ Advance(a, "write")
  /\ seen' = [seen EXCEPT ![a] = [status |-> payStatus, paid |-> PaidWith(a),
                                  due |-> Subtotal(billed), version |-> version]]
  /\ UNCHANGED <<orderVars, roundVars, losses, payments, deducted, faults>>

\* Variant: the remainder is computed from the payments to the total.
SettledByReversed(a) == Settles(seen[a].due, seen[a].paid)

SettledBy(a) == Settles(seen[a].paid, seen[a].due)

\* Variant: paymentStatus is given the value that Order.status gets.
newPaymentStatusOfOrder(a) ==
  CASE SettledBy(a)                       -> "COMPLETED"
    [] ~SettledBy(a) /\ seen[a].paid > 0  -> "PARTIAL"
    [] OTHER                              -> seen[a].status

newPaymentStatus(a) ==
  CASE SettledBy(a)                       -> "PAID"
    [] ~SettledBy(a) /\ seen[a].paid > 0  -> "PARTIAL"
    [] OTHER                              -> seen[a].status

\* The totals are written over whatever the row holds by now, and the version stays.
TotalsWrite(a) ==
  /\ at[a] = "write"
  /\ paidAmount' = seen[a].paid
  /\ payStatus' = newPaymentStatus(a)
  /\ Advance(a, IF SettledBy(a) THEN "deduct" ELSE "done")
  /\ UNCHANGED <<version, billed, roundVars, seen, losses, payments, deducted, faults>>

\* The stock of every row of the order is deducted.
Deduct(a) ==
  /\ at[a] = "deduct"
  /\ Return(a)
  /\ deducted' = deducted \cup {a}
  /\ UNCHANGED <<orderVars, roundVars, seen, losses, payments, faults>>

\* A row cannot be deducted: those that were are restocked, if the restock works.
DeductFails(a) ==
  /\ at[a] = "deduct" /\ faults < MaxFaults
  /\ faults' = faults + 1
  /\ Advance(a, "rollback")
  /\ deducted' \in {deducted, deducted \cup {a}}
  /\ UNCHANGED <<orderVars, roundVars, seen, losses, payments>>

\* The order goes back to PARTIAL.  The payment stays, and the call answers an error.
Rollback(a) ==
  /\ at[a] = "rollback"
  /\ Return(a)
  /\ payStatus' = "PARTIAL"
  /\ UNCHANGED <<paidAmount, version, billed, roundVars, seen, losses, payments, deducted,
                 faults>>

-----------------------------------------------------------------------------
(* payCashOrder.                                                            *)

\* A key already on record answers its payment; a tender without a key is not checked.
CashCheck(a) ==
  /\ a \in Cash /\ at[a] = "new"
  /\ IF SameKey(a) THEN Return(a) ELSE Advance(a, "read")
  /\ UNCHANGED <<orderVars, roundVars, seen, losses, payments, deducted, faults>>

CashDue == Subtotal(billed) + ServiceCharge

\* Variant: a retry keeps the version that the first try read.
CashVersionOnce(a) == IF losses[a] = 0 THEN version ELSE seen[a].version

CashVersion(a) == version

\* The transaction reads the order and the payments.  A PAID order is refused.
CashRead(a) ==
  /\ at[a] = "read"
  /\ IF payStatus = "PAID"
     THEN Return(a) /\ UNCHANGED seen
     ELSE /\ Advance(a, "cas")
          /\ seen' = [seen EXCEPT ![a] =
               [status |-> payStatus, paid |-> Collected(payments) + AmountOf[a],
                due |-> CashDue, version |-> CashVersion(a)]]
  /\ UNCHANGED <<orderVars, roundVars, losses, payments, deducted, faults>>

\* Variant: the order is named by its id and its status.
CasWinsOnStatus(a) == payStatus \in {"PENDING", "PARTIAL"}

\* updateMany where version and paymentStatus are the expected ones.
CasWins(a) == version = seen[a].version /\ payStatus \in {"PENDING", "PARTIAL"}

\* The order's totals and the Payment commit together.  A key taken meanwhile rolls both
\* back and answers the payment that won.
CashCommit(a) ==
  /\ at[a] = "cas" /\ CasWins(a)
  /\ IF KeyTaken(a)
     THEN Return(a) /\ UNCHANGED <<payStatus, paidAmount, version, payments>>
     ELSE /\ Advance(a, IF SettledBy(a) THEN "stock" ELSE "done")
          /\ payStatus' = IF SettledBy(a) THEN "PAID" ELSE "PARTIAL"
          /\ paidAmount' = seen[a].paid
          /\ version' = version + 1
          /\ payments' = payments \cup {a}
  /\ UNCHANGED <<billed, roundVars, seen, losses, deducted, faults>>

CashLoses(a) ==
  /\ at[a] = "cas" /\ ~CasWins(a)
  /\ Advance(a, "lost")
  /\ losses' = [losses EXCEPT ![a] = @ + 1]
  /\ UNCHANGED <<orderVars, roundVars, seen, payments, deducted, faults>>

\* A lost try looks for a payment with its own key, then starts again, three times at most.
CashRetry(a) ==
  /\ at[a] = "lost"
  /\ IF SameKey(a) \/ losses[a] = MaxCasAttempts THEN Return(a) ELSE Advance(a, "read")
  /\ UNCHANGED <<orderVars, roundVars, seen, losses, payments, deducted, faults>>

\* Fire-and-forget: the stock is deducted, or the failure is logged.
CashStock(a) ==
  /\ at[a] = "stock"
  /\ Return(a)
  /\ deducted' \in {deducted, deducted \cup {a}}
  /\ UNCHANGED <<orderVars, roundVars, seen, losses, payments, faults>>

-----------------------------------------------------------------------------
(* addItemsToOrder.                                                         *)

Step(k, step) == round' = [round EXCEPT ![k] = step]

\* The order is read, and a PAID one is refused: `Cannot add items to a paid order'.  The
\* caller's version may be an old one, which also refuses the round.
RoundRead(k) ==
  /\ round[k] = "new"
  /\ \/ Step(k, "refused") /\ UNCHANGED roundSeen
     \/ /\ payStatus # "PAID"
        /\ Step(k, "rows")
        /\ roundSeen' = [roundSeen EXCEPT ![k].version = version]
  /\ UNCHANGED <<orderVars, items, tenderVars, payments, deducted, faults>>

\* The rows are created before the compare-and-set, and stay whatever it decides.
RoundRows(k) ==
  /\ round[k] = "rows"
  /\ Step(k, "sum")
  /\ items' = items \cup {k}
  /\ UNCHANGED <<orderVars, roundSeen, tenderVars, payments, deducted, faults>>

\* All the rows of the order are read again for the new subtotal.
RoundSum(k) ==
  /\ round[k] = "sum"
  /\ Step(k, "cas")
  /\ roundSeen' = [roundSeen EXCEPT ![k].rows = items]
  /\ UNCHANGED <<orderVars, items, tenderVars, payments, deducted, faults>>

\* Variant: the order is named by its id alone, a blind increment.
RoundWinsBlind(k) == TRUE

\* updateMany where version is the one read.
RoundWins(k) == version = roundSeen[k].version

RoundCommit(k) ==
  /\ round[k] = "cas"
  /\ IF RoundWins(k)
     THEN /\ Step(k, "accepted")
          /\ billed' = roundSeen[k].rows
          /\ version' = version + 1
     ELSE Step(k, "refused") /\ UNCHANGED <<billed, version>>
  /\ UNCHANGED <<payStatus, paidAmount, items, roundSeen, tenderVars, payments, deducted,
                 faults>>

-----------------------------------------------------------------------------
(* Failures.                                                                *)

\* A database call of a tender fails.  What it committed stays; a failure past the
\* Payment is logged and the call answers success, or the payment's error.
TenderFails(a) ==
  /\ at[a] \notin {"new", "deduct", "done"} /\ faults < MaxFaults
  /\ faults' = faults + 1
  /\ Return(a)
  /\ UNCHANGED <<orderVars, roundVars, seen, losses, payments, deducted>>

\* A database call of a round fails: the rows it created stay.
RoundFails(k) ==
  /\ round[k] \in {"rows", "sum", "cas"} /\ faults < MaxFaults
  /\ faults' = faults + 1
  /\ Step(k, "refused")
  /\ UNCHANGED <<orderVars, items, roundSeen, tenderVars, payments, deducted>>

\* The process dies with every call in progress.
Crash ==
  /\ faults < MaxFaults
  /\ faults' = faults + 1
  /\ at' = [a \in Tenders |-> IF at[a] = "new" THEN "new" ELSE "done"]
  /\ round' = [k \in Rounds |-> IF round[k] \in {"rows", "sum", "cas"} THEN "refused"
                                ELSE round[k]]
  /\ UNCHANGED <<orderVars, items, roundSeen, seen, losses, payments, deducted>>

CardStep(a) == \/ RecordCheck(a) \/ RecordCommit(a) \/ TotalsRead(a) \/ TotalsWrite(a)
               \/ Deduct(a) \/ DeductFails(a) \/ Rollback(a)

CashStep(a) == \/ CashCheck(a) \/ CashRead(a) \/ CashCommit(a) \/ CashLoses(a)
               \/ CashRetry(a) \/ CashStock(a)

RoundStep(k) == \/ RoundRead(k) \/ RoundRows(k) \/ RoundSum(k) \/ RoundCommit(k)
                \/ RoundFails(k)

Next ==
  \/ \E a \in Tenders : CardStep(a) \/ CashStep(a) \/ TenderFails(a)
  \/ \E k \in Rounds : RoundStep(k)
  \/ Crash

Spec == Init /\ [][Next]_vars

-----------------------------------------------------------------------------
(* Properties.                                                              *)

\* However often a keyed charge is posted, and however its calls interleave or die, one
\* Payment is recorded for it.
ChargeRecordedOnce ==
  \A a, b \in payments \cap Keyed : ChargeOf[a] = ChargeOf[b] => a = b

\* An order is not closed, nor its stock taken, for less than the order started with:
\* however stale the payments a tender read, none is counted twice, and paidAmount claims
\* no money that no Payment row backs.
PaidIsBacked ==
  /\ (payStatus = "PAID" \/ deducted # {}) => Settles(Collected(payments), Ordered)
  /\ paidAmount <= Collected(payments)

\* While every tender is cash, paidAmount is the sum of the payments: no update is lost.
CashIsExact == payments \subseteq Cash => paidAmount = Collected(payments)

\* A cash payment is never recorded on an order that is already PAID, whoever paid it and
\* whatever the tender read before.
CashOnlyOnOpenOrder ==
  [][\A a \in Cash : a \in payments' \ payments => payStatus # "PAID"]_vars

\* An order that only cash has paid is PAID only if its payments cover every row it bills
\* and the service charge, the rounds added while the tenders ran included.
CashCoversTheBill ==
  (payStatus = "PAID" /\ payments \subseteq Cash)
    => Settles(Collected(payments), Subtotal(billed) + ServiceCharge)

\* What only cash has paid is right to the cent, and closed only when all of it is paid.
CashPaysTheBill == CashIsExact /\ CashCoversTheBill

\* A cash tender loses a compare-and-set only to a payment or a round that went through:
\* its retries never fight its own stale read.
LosesOnlyToProgress ==
  \A a \in Cash : losses[a] <= Cardinality(payments \ {a}) + Cardinality(billed)

\* A round that was accepted stays in the subtotal: no later round overwrites it with a sum
\* that ignored its rows.
AcceptedRoundIsBilled == \A k \in Rounds : round[k] = "accepted" => k \in billed

\* The inductive invariant behind AcceptedRoundIsBilled: a round that may still win its
\* compare-and-set has read every row that is billed.
RoundsInv ==
  /\ billed \subseteq items
  /\ \A k \in Rounds :
       /\ round[k] \in {"sum", "cas", "accepted"} => k \in items
       /\ roundSeen[k].version <= version
       /\ round[k] = "cas" =>
            /\ k \in roundSeen[k].rows /\ roundSeen[k].rows \subseteq items
            /\ RoundWins(k) => billed \subseteq roundSeen[k].rows
  /\ AcceptedRoundIsBilled

\* When no tender is running, paidAmount is the sum of the payments on record.
PaidAmountAgrees ==
  (\A a \in Tenders : at[a] \in {"new", "done"}) => paidAmount = Collected(payments)
=============================================================================
