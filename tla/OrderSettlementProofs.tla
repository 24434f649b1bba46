------------------------ MODULE OrderSettlementProofs ------------------------
(***************************************************************************)
(* What holds of the tenders of an order for any number of them, of any    *)
(* amounts: one Payment for each keyed charge, no cash on a PAID order, no *)
(* accepted round lost from the subtotal, nothing settled that no payment  *)
(* backs, cash right to the cent, and no compare-and-set lost to nobody.   *)
(***************************************************************************)
EXTENDS OrderSettlement, Sums

-----------------------------------------------------------------------------
(* Types.                                                                   *)

\* The order starts with nobody tendering.
LEMMA ControlTypeInit == Init => ControlTypeOK
BY TendersAssumption DEF Init, ControlTypeOK, CardSteps, CashSteps

\* A card tender moves along the steps of recordOrderPayment.
LEMMA CardTypeStep ==
  ASSUME ControlTypeOK, NEW a \in Tenders, CardStep(a)
  PROVE  ControlTypeOK'
<1> USE TendersAssumption DEF ControlTypeOK, CardSteps, CashSteps, Return, Advance, orderVars, roundVars
<1>1. CASE RecordCheck(a)
  BY <1>1 DEF RecordCheck
<1>2. CASE RecordCommit(a)
  BY <1>2 DEF RecordCommit
<1>3. CASE TotalsRead(a)
  BY <1>3 DEF TotalsRead
<1>4. CASE TotalsWrite(a)
  BY <1>4 DEF TotalsWrite
<1>5. CASE Deduct(a)
  BY <1>5 DEF Deduct
<1>6. CASE DeductFails(a)
  BY <1>6 DEF DeductFails
<1>7. CASE Rollback(a)
  BY <1>7 DEF Rollback
<1> QED
  BY <1>1, <1>2, <1>3, <1>4, <1>5, <1>6, <1>7 DEF CardStep

\* A cash tender moves along the steps of payCashOrder.
LEMMA CashTypeStep ==
  ASSUME ControlTypeOK, NEW a \in Tenders, CashStep(a)
  PROVE  ControlTypeOK'
<1> USE TendersAssumption DEF ControlTypeOK, CardSteps, CashSteps, Return, Advance, orderVars, roundVars
<1>1. CASE CashCheck(a)
  BY <1>1 DEF CashCheck, Cash
<1>2. CASE CashRead(a)
  BY <1>2 DEF CashRead
<1>3. CASE CashCommit(a)
  BY <1>3 DEF CashCommit
<1>4. CASE CashLoses(a)
  BY <1>4 DEF CashLoses
<1>5. CASE CashRetry(a)
  BY <1>5 DEF CashRetry
<1>6. CASE CashStock(a)
  BY <1>6 DEF CashStock
<1> QED
  BY <1>1, <1>2, <1>3, <1>4, <1>5, <1>6 DEF CashStep

\* A round moves along the steps of addItemsToOrder.
LEMMA RoundTypeStep ==
  ASSUME ControlTypeOK, NEW k \in Rounds, RoundStep(k)
  PROVE  ControlTypeOK'
<1> USE DEF ControlTypeOK, Step, orderVars, tenderVars
<1>1. CASE RoundRead(k)
  BY <1>1 DEF RoundRead
<1>2. CASE RoundRows(k)
  BY <1>2 DEF RoundRows
<1>3. CASE RoundSum(k)
  BY <1>3 DEF RoundSum
<1>4. CASE RoundCommit(k)
  BY <1>4 DEF RoundCommit
<1>5. CASE RoundFails(k)
  BY <1>5 DEF RoundFails
<1> QED
  BY <1>1, <1>2, <1>3, <1>4, <1>5 DEF RoundStep

LEMMA ControlTypeStep == ControlTypeOK /\ [Next]_vars => ControlTypeOK'
<1> SUFFICES ASSUME ControlTypeOK, [Next]_vars PROVE ControlTypeOK'
  OBVIOUS
<1>1. ASSUME NEW a \in Tenders, TenderFails(a) PROVE ControlTypeOK'
  BY <1>1 DEF TenderFails, ControlTypeOK, CardSteps, CashSteps, Return, Advance, orderVars, roundVars
<1>2. CASE Crash
  BY <1>2 DEF Crash, ControlTypeOK, CardSteps, CashSteps, orderVars
<1>3. CASE UNCHANGED vars
  BY <1>3 DEF ControlTypeOK, vars, orderVars, roundVars, tenderVars
<1> QED
  BY CardTypeStep, CashTypeStep, RoundTypeStep, <1>1, <1>2, <1>3 DEF Next

\* Every tender is at a step of its own path, and the sets of rows are sets of those of the
\* order: the part of TypeOK that no amount enters.
THEOREM ControlTyping == Spec => []ControlTypeOK
BY ControlTypeInit, ControlTypeStep, PTL DEF Spec

-----------------------------------------------------------------------------
(* One payment for each charge, and cash on an open order only.             *)

\* Only two steps record a payment: a card's commit, and a cash commit that won its
\* compare-and-set.  Both meet the unique index.
LEMMA PaymentStep ==
  ASSUME ControlTypeOK, [Next]_vars
  PROVE  \/ payments' = payments
         \/ \E a \in Tenders : /\ payments' = payments \cup {a}
                               /\ ~KeyTaken(a)
                               /\ a \in Cash => CasWins(a)
<1> USE DEF orderVars, roundVars, tenderVars
<1>1. ASSUME NEW a \in Tenders, CardStep(a)
      PROVE  \/ payments' = payments
             \/ payments' = payments \cup {a} /\ ~KeyTaken(a) /\ a \in Cards
  <2>1. CASE RecordCommit(a)
    <3>1. a \in Cards
      BY <2>1 DEF RecordCommit, ControlTypeOK, CashSteps
    <3> QED
      BY <2>1, <3>1 DEF RecordCommit
  <2>2. CASE ~RecordCommit(a)
    BY <1>1, <2>2
       DEF CardStep, RecordCheck, TotalsRead, TotalsWrite, Deduct, DeductFails, Rollback
  <2> QED
    BY <2>1, <2>2
<1>2. ASSUME NEW a \in Tenders, CashStep(a)
      PROVE  \/ payments' = payments
             \/ payments' = payments \cup {a} /\ ~KeyTaken(a) /\ CasWins(a)
  BY <1>2 DEF CashStep, CashCheck, CashRead, CashCommit, CashLoses, CashRetry, CashStock
<1>3. ASSUME NEW a \in Tenders, TenderFails(a) PROVE payments' = payments
  BY <1>3 DEF TenderFails
<1>4. ASSUME NEW k \in Rounds, RoundStep(k) PROVE payments' = payments
  BY <1>4 DEF RoundStep, RoundRead, RoundRows, RoundSum, RoundCommit, RoundFails
<1>5. CASE Crash
  BY <1>5 DEF Crash
<1>6. CASE UNCHANGED vars
  BY <1>6 DEF vars
<1> QED
  BY <1>1, <1>2, <1>3, <1>4, <1>5, <1>6 DEF Next, Cash

\* A keyed charge is recorded at most once, over any number of calls on either path.
THEOREM OncePerCharge == Spec => []ChargeRecordedOnce
<1>1. Init => ChargeRecordedOnce
  BY DEF Init, ChargeRecordedOnce
<1>2. ControlTypeOK /\ ChargeRecordedOnce /\ [Next]_vars => ChargeRecordedOnce'
  BY PaymentStep DEF ChargeRecordedOnce, KeyTaken, SameKey
<1> QED
  BY <1>1, <1>2, ControlTyping, PTL DEF Spec

\* A cash payment is recorded only on an order that is not PAID at that moment.
THEOREM NoCashOnPaid == Spec => CashOnlyOnOpenOrder
<1>1. ControlTypeOK /\ [Next]_vars
        => [\A a \in Cash : a \in payments' \ payments => payStatus # "PAID"]_vars
  <2> SUFFICES ASSUME ControlTypeOK, [Next]_vars, NEW a \in Cash, a \in payments' \ payments
               PROVE  payStatus # "PAID"
    OBVIOUS
  <2>1. CasWins(a)
    BY PaymentStep
  <2> QED
    BY <2>1 DEF CasWins
<1> QED
  BY <1>1, ControlTyping, PTL DEF Spec, CashOnlyOnOpenOrder

-----------------------------------------------------------------------------
(* Rounds.                                                                  *)

\* What the version, the bill and the rounds become when the step is not one of a round.
LEMMA NoRoundStep ==
  ASSUME ControlTypeOK, [Next]_vars, \A k \in Rounds : ~RoundStep(k)
  PROVE  /\ UNCHANGED <<billed, items, roundSeen>>
         /\ version' \in {version, version + 1}
         /\ \A k \in Rounds : round'[k] \in {round[k], "refused"}
<1> USE DEF orderVars, roundVars, ControlTypeOK
<1>1. ASSUME NEW a \in Tenders, CardStep(a) PROVE UNCHANGED <<version, billed, roundVars>>
  BY <1>1 DEF CardStep, RecordCheck, RecordCommit, TotalsRead, TotalsWrite, Deduct,
              DeductFails, Rollback
<1>2. ASSUME NEW a \in Tenders, CashStep(a)
      PROVE  UNCHANGED <<billed, roundVars>> /\ version' \in {version, version + 1}
  BY <1>2 DEF CashStep, CashCheck, CashRead, CashCommit, CashLoses, CashRetry, CashStock
<1>3. ASSUME NEW a \in Tenders, TenderFails(a) PROVE UNCHANGED <<version, billed, roundVars>>
  BY <1>3 DEF TenderFails
<1>4. CASE Crash
  BY <1>4 DEF Crash
<1>5. CASE UNCHANGED vars
  BY <1>5 DEF vars
<1> QED
  BY <1>1, <1>2, <1>3, <1>4, <1>5 DEF Next

\* A step of a round keeps what the rounds rely on.
LEMMA RoundKeepsInv ==
  ASSUME ControlTypeOK, RoundsInv, NEW k \in Rounds, RoundStep(k)
  PROVE  RoundsInv'
<1> USE DEF RoundsInv, AcceptedRoundIsBilled, RoundWins, ControlTypeOK, Step, orderVars
<1>1. CASE RoundRead(k)
  BY <1>1 DEF RoundRead
<1>2. CASE RoundRows(k)
  BY <1>2 DEF RoundRows
<1>3. CASE RoundSum(k)
  BY <1>3 DEF RoundSum
<1>4. CASE RoundCommit(k)
  <2>1. CASE RoundWins(k)
    <3>1. /\ round' = [round EXCEPT ![k] = "accepted"]
          /\ billed' = roundSeen[k].rows /\ version' = version + 1
          /\ UNCHANGED <<items, roundSeen>>
      BY <1>4, <2>1 DEF RoundCommit
    <3>2. billed \subseteq billed' /\ k \in billed' /\ billed' \subseteq items
      BY <1>4, <2>1, <3>1 DEF RoundCommit
    <3>3. \A j \in Rounds : roundSeen[j].version < version'
      BY <3>1
    <3> QED
      BY <3>1, <3>2, <3>3
  <2>2. CASE ~RoundWins(k)
    BY <1>4, <2>2 DEF RoundCommit
  <2> QED
    BY <2>1, <2>2
<1>5. CASE RoundFails(k)
  BY <1>5 DEF RoundFails
<1> QED
  BY <1>1, <1>2, <1>3, <1>4, <1>5 DEF RoundStep

LEMMA RoundsInvStep == ControlTypeOK /\ RoundsInv /\ [Next]_vars => RoundsInv'
<1> SUFFICES ASSUME ControlTypeOK, RoundsInv, [Next]_vars PROVE RoundsInv'
  OBVIOUS
<1>1. CASE \E k \in Rounds : RoundStep(k)
  BY <1>1, RoundKeepsInv
<1>2. CASE \A k \in Rounds : ~RoundStep(k)
  BY <1>2, NoRoundStep DEF RoundsInv, AcceptedRoundIsBilled, RoundWins, ControlTypeOK
<1> QED
  BY <1>1, <1>2

\* No accepted round is ever lost from the subtotal, however many rounds and cash tenders
\* compete for the version: the invariant behind it, and what it gives.
THEOREM RoundsCompete == Spec => []RoundsInv
<1>1. Init => RoundsInv
  BY DEF Init, RoundsInv, AcceptedRoundIsBilled
<1> QED
  BY <1>1, RoundsInvStep, ControlTyping, PTL DEF Spec

THEOREM AcceptedIsBilled == Spec => []AcceptedRoundIsBilled
BY RoundsCompete, PTL DEF RoundsInv

-----------------------------------------------------------------------------
(* Amounts.                                                                 *)

\* What is collected is an amount, and more payments collect no less.
LEMMA CollectedType ==
  ASSUME NEW S \in SUBSET Tenders
  PROVE  Summable(AmountOf, S) /\ Collected(S) \in Nat
<1>1. Summable(AmountOf, S)
  BY TendersAssumption, FS_Subset DEF Summable
<1> QED
  BY <1>1, SumType DEF Collected

LEMMA CollectedGrows ==
  ASSUME NEW T \in SUBSET Tenders, NEW S \in SUBSET T
  PROVE  Collected(S) <= Collected(T)
<1>1. Summable(AmountOf, S) /\ Summable(AmountOf, T)
  BY CollectedType
<1>2. \A a \in S : AmountOf[a] <= AmountOf[a]
  BY TendersAssumption
<1> QED
  BY <1>1, <1>2, SumLeq DEF Collected

\* One more payment collects its amount more.
LEMMA CollectedWith ==
  ASSUME NEW S \in SUBSET Tenders, NEW a \in Tenders \ S
  PROVE  Collected(S \cup {a}) = Collected(S) + AmountOf[a]
BY TendersAssumption, CollectedType, SumAdd DEF Collected

\* What updateOrderTotalsForStandalonePayment adds up is what is collected.
LEMMA CollectedSplit ==
  ASSUME NEW S \in SUBSET Tenders, NEW a \in S
  PROVE  Collected(S \ {a}) + AmountOf[a] = Collected(S)
<1>1. Collected(S) = AmountOf[a] + Collected(S \ {a})
  BY CollectedType, SumRemove DEF Collected
<1>2. Collected(S \ {a}) \in Nat /\ AmountOf[a] \in Nat
  BY CollectedType, TendersAssumption
<1> QED
  BY <1>1, <1>2

\* The subtotal is no less than what the order started with.
LEMMA SubtotalType ==
  ASSUME NEW R \in SUBSET Rounds
  PROVE  Subtotal(R) \in Nat /\ Subtotal(R) >= Ordered
<1>1. Summable(PriceOf, R)
  BY OrderAssumption, FS_Subset DEF Summable
<1>2. SumFunctionOnSet(PriceOf, R) \in Nat
  BY <1>1, SumType
<1> QED
  BY <1>2, OrderAssumption DEF Subtotal

\* A cash tender that may still try has lost fewer compare-and-sets than it is given tries.
RetriesLeft ==
  \A a \in Cash : at[a] \in {"new", "read", "cas"} => losses[a] < MaxCasAttempts

LEMMA CardAmountStep ==
  ASSUME TypeOK, RetriesLeft, NEW a \in Tenders, CardStep(a)
  PROVE  (AmountTypeOK /\ RetriesLeft)'
<1> USE DEF TypeOK, AmountTypeOK, ControlTypeOK, RetriesLeft, Cash, Return, Advance, orderVars
<1>0. a \in Cards \/ a \in Cash
  BY DEF Cash
<1>1. CASE RecordCheck(a)
  BY <1>1 DEF RecordCheck, Cash
<1>2. CASE RecordCommit(a)
  <2>1. at' \in {[at EXCEPT ![a] = "done"], [at EXCEPT ![a] = "totals"]}
    BY <1>2 DEF RecordCommit
  <2>2. UNCHANGED <<payStatus, paidAmount, seen, losses, faults>>
    BY <1>2 DEF RecordCommit
  <2> QED
    BY <1>2, <2>1, <2>2
<1>3. CASE TotalsRead(a)
  <2>1. PaidWith(a) \in Nat
    BY CollectedType, TendersAssumption DEF PaidWith
  <2>2. Subtotal(billed) \in Nat
    BY SubtotalType
  <2>3. [status |-> payStatus, paid |-> PaidWith(a), due |-> Subtotal(billed),
         version |-> version] \in View
    BY <2>1, <2>2 DEF View
  <2> QED
    BY <1>3, <2>3 DEF TotalsRead
<1>4. CASE TotalsWrite(a)
  <2>1. seen[a] \in View
    OBVIOUS
  <2>2. newPaymentStatus(a) \in {"PENDING", "PARTIAL", "PAID"} /\ seen[a].paid \in Nat
    BY <2>1 DEF View, newPaymentStatus
  <2> QED
    BY <1>4, <2>2 DEF TotalsWrite
<1>5. CASE Deduct(a)
  BY <1>5 DEF Deduct
<1>6. CASE DeductFails(a)
  BY <1>6, OrderAssumption DEF DeductFails
<1>7. CASE Rollback(a)
  BY <1>7 DEF Rollback
<1> QED
  BY <1>1, <1>2, <1>3, <1>4, <1>5, <1>6, <1>7 DEF CardStep

LEMMA CashAmountStep ==
  ASSUME TypeOK, RetriesLeft, NEW a \in Tenders, CashStep(a)
  PROVE  (AmountTypeOK /\ RetriesLeft)'
<1> USE DEF TypeOK, AmountTypeOK, ControlTypeOK, RetriesLeft, Cash, Return, Advance, orderVars,
            MaxCasAttempts
<1>1. CASE CashCheck(a)
  <2>1. at' \in {[at EXCEPT ![a] = "done"], [at EXCEPT ![a] = "read"]}
    BY <1>1 DEF CashCheck
  <2>2. losses[a] < MaxCasAttempts
    BY <1>1 DEF CashCheck
  <2>3. UNCHANGED <<payStatus, paidAmount, seen, losses, faults>>
    BY <1>1 DEF CashCheck
  <2> QED
    BY <2>1, <2>2, <2>3
<1>2. CASE CashRead(a)
  <2>1. Collected(payments) + AmountOf[a] \in Nat
    BY CollectedType, TendersAssumption
  <2>2. CashDue \in Nat
    BY SubtotalType, OrderAssumption DEF CashDue
  <2>3. [status |-> payStatus, paid |-> Collected(payments) + AmountOf[a], due |-> CashDue,
         version |-> CashVersion(a)] \in View
    BY <2>1, <2>2 DEF View, CashVersion
  <2>4. at' \in {[at EXCEPT ![a] = "done"], [at EXCEPT ![a] = "cas"]}
    BY <1>2 DEF CashRead
  <2>5. a \in Cash => losses[a] < MaxCasAttempts
    BY <1>2 DEF CashRead
  <2>6. seen' \in [Tenders -> View]
    BY <1>2, <2>3 DEF CashRead
  <2>7. UNCHANGED <<payStatus, paidAmount, losses, faults>>
    BY <1>2 DEF CashRead
  <2> QED
    BY <2>4, <2>5, <2>6, <2>7
<1>3. CASE CashCommit(a)
  <2>1. seen[a].paid \in Nat
    BY DEF View
  <2>2. at' \in {[at EXCEPT ![a] = "done"], [at EXCEPT ![a] = "stock"]}
    BY <1>3 DEF CashCommit
  <2>3. paidAmount' \in Nat /\ payStatus' \in {"PENDING", "PARTIAL", "PAID"}
    BY <1>3, <2>1 DEF CashCommit
  <2>4. UNCHANGED <<seen, losses, faults>>
    BY <1>3 DEF CashCommit
  <2> QED
    BY <2>2, <2>3, <2>4
<1>4. CASE CashLoses(a)
  <2>1. a \in Cash
    BY <1>4 DEF CashLoses, CardSteps, Cash
  <2>2. losses[a] + 1 \in 0..MaxCasAttempts
    BY <1>4, <2>1 DEF CashLoses
  <2> QED
    BY <1>4, <2>2 DEF CashLoses
<1>5. CASE CashRetry(a)
  <2>1. \/ at' = [at EXCEPT ![a] = "done"]
        \/ at' = [at EXCEPT ![a] = "read"] /\ losses[a] # MaxCasAttempts
    BY <1>5 DEF CashRetry
  <2>2. UNCHANGED <<payStatus, paidAmount, seen, losses, faults>>
    BY <1>5 DEF CashRetry
  <2> QED
    BY <2>1, <2>2
<1>6. CASE CashStock(a)
  BY <1>6 DEF CashStock
<1> QED
  BY <1>1, <1>2, <1>3, <1>4, <1>5, <1>6 DEF CashStep

LEMMA AmountTypeStep == TypeOK /\ RetriesLeft /\ [Next]_vars => (AmountTypeOK /\ RetriesLeft)'
<1> SUFFICES ASSUME TypeOK, RetriesLeft, [Next]_vars PROVE (AmountTypeOK /\ RetriesLeft)'
  OBVIOUS
<1> USE DEF TypeOK, AmountTypeOK, ControlTypeOK, RetriesLeft, Cash, Return, Advance, orderVars,
            tenderVars
<1>1. ASSUME NEW a \in Tenders, TenderFails(a) PROVE (AmountTypeOK /\ RetriesLeft)'
  BY <1>1, OrderAssumption DEF TenderFails
<1>2. ASSUME NEW k \in Rounds, RoundStep(k) PROVE (AmountTypeOK /\ RetriesLeft)'
  BY <1>2, OrderAssumption
     DEF RoundStep, RoundRead, RoundRows, RoundSum, RoundCommit, RoundFails
<1>3. CASE Crash
  BY <1>3, OrderAssumption DEF Crash, Cash
<1>4. CASE UNCHANGED vars
  BY <1>4 DEF vars
<1> QED
  BY CardAmountStep, CashAmountStep, <1>1, <1>2, <1>3, <1>4 DEF Next

\* The amounts are amounts whatever the payments sum to, and payCashOrder tries
\* MAX_PAYMENT_CAS_ATTEMPTS times and no more.
THEOREM Typing == Spec => [](TypeOK /\ RetriesLeft)
<1>1. Init => TypeOK /\ RetriesLeft
  BY ControlTypeInit, OrderAssumption
     DEF Init, TypeOK, AmountTypeOK, View, RetriesLeft, MaxCasAttempts, Cash
<1>2. TypeOK /\ RetriesLeft /\ [Next]_vars => (TypeOK /\ RetriesLeft)'
  BY ControlTypeStep, AmountTypeStep DEF TypeOK
<1> QED
  BY <1>1, <1>2, PTL DEF Spec

-----------------------------------------------------------------------------
(* Lost compare-and-sets.                                                   *)

\* What the place of a tender says of its payment and of the version it read.
RecordInv ==
  /\ \A a \in Cards : at[a] \in {"totals", "write", "deduct", "rollback"} => a \in payments
  /\ \A a \in Cash : at[a] \in {"new", "read", "cas", "lost"} => a \notin payments
  /\ \A a \in Tenders : seen[a].version <= version

LEMMA RecordStep ==
  ASSUME TypeOK, RecordInv, [Next]_vars
  PROVE  RecordInv'
<1> USE TendersAssumption
        DEF TypeOK, ControlTypeOK, AmountTypeOK, RecordInv, Cash, CardSteps, CashSteps, View,
            Return, Advance, orderVars, roundVars, tenderVars
<1>1. ASSUME NEW a \in Tenders, CardStep(a) PROVE RecordInv'
  <2>1. CASE RecordCheck(a)
    BY <2>1 DEF RecordCheck
  <2>2. CASE RecordCommit(a)
    BY <2>2 DEF RecordCommit
  <2>3. CASE TotalsRead(a)
    BY <2>3 DEF TotalsRead
  <2>4. CASE TotalsWrite(a)
    BY <2>4 DEF TotalsWrite
  <2>5. CASE Deduct(a)
    BY <2>5 DEF Deduct
  <2>6. CASE DeductFails(a)
    BY <2>6 DEF DeductFails
  <2>7. CASE Rollback(a)
    BY <2>7 DEF Rollback
  <2> QED
    BY <1>1, <2>1, <2>2, <2>3, <2>4, <2>5, <2>6, <2>7 DEF CardStep
<1>2. ASSUME NEW a \in Tenders, CashStep(a) PROVE RecordInv'
  <2>1. CASE CashCheck(a)
    BY <2>1 DEF CashCheck
  <2>2. CASE CashRead(a)
    BY <2>2 DEF CashRead, CashVersion
  <2>3. CASE CashCommit(a)
    BY <2>3 DEF CashCommit
  <2>4. CASE CashLoses(a)
    BY <2>4 DEF CashLoses
  <2>5. CASE CashRetry(a)
    BY <2>5 DEF CashRetry
  <2>6. CASE CashStock(a)
    BY <2>6 DEF CashStock
  <2> QED
    BY <1>2, <2>1, <2>2, <2>3, <2>4, <2>5, <2>6 DEF CashStep
<1>3. ASSUME NEW a \in Tenders, TenderFails(a) PROVE RecordInv'
  BY <1>3 DEF TenderFails
<1>4. ASSUME NEW k \in Rounds, RoundStep(k) PROVE RecordInv'
  BY <1>4 DEF RoundStep, RoundRead, RoundRows, RoundSum, RoundCommit, RoundFails
<1>5. CASE Crash
  BY <1>5 DEF Crash
<1>6. CASE UNCHANGED vars
  BY <1>6 DEF vars
<1> QED
  BY <1>1, <1>2, <1>3, <1>4, <1>5, <1>6 DEF Next

\* What has gone through: the version counts the cash payments and the rounds, and each
\* card tender has written the order's totals once.
Written == {a \in payments \cap Cards : at[a] \in {"deduct", "rollback", "done"}}

Progress == version - 1 + Cardinality(Written)

\* A step that moves the version, or closes the order, is progress; none undoes any.
LEMMA ProgressStep ==
  ASSUME TypeOK, RecordInv, [Next]_vars
  PROVE  /\ Progress \in Int /\ Progress' \in Int /\ Progress <= Progress'
         /\ version' # version \/ (payStatus' = "PAID" /\ payStatus # "PAID")
              => Progress < Progress'
<1> USE TendersAssumption DEF TypeOK, ControlTypeOK, AmountTypeOK
<1> DEFINE Forward ==
             /\ Written \subseteq Written' /\ version' \in {version, version + 1}
             /\ payStatus' = "PAID" /\ payStatus # "PAID" /\ version' = version
                  => \E a \in Tenders : a \in Written' \ Written
<1>1. Forward
  <2> USE DEF Written, Return, Advance, Cash, RecordInv, CardSteps, CashSteps, orderVars,
              roundVars, tenderVars
  <2>1. ASSUME NEW a \in Tenders, CardStep(a) PROVE Forward
    <3>1. CASE TotalsWrite(a)
      <4>1. a \in Cards /\ a \in payments
        BY <3>1 DEF TotalsWrite
      <4>2. a \in Written' \ Written
        BY <3>1, <4>1 DEF TotalsWrite
      <4> QED
        BY <3>1, <4>2 DEF TotalsWrite
    <3>2. CASE ~TotalsWrite(a)
      BY <2>1, <3>2
         DEF CardStep, RecordCheck, RecordCommit, TotalsRead, Deduct, DeductFails, Rollback
    <3> QED
      BY <3>1, <3>2
  <2>2. ASSUME NEW a \in Tenders, CashStep(a) PROVE Forward
    BY <2>2 DEF CashStep, CashCheck, CashRead, CashCommit, CashLoses, CashRetry, CashStock
  <2>3. ASSUME NEW a \in Tenders, TenderFails(a) PROVE Forward
    BY <2>3 DEF TenderFails
  <2>4. ASSUME NEW k \in Rounds, RoundStep(k) PROVE Forward
    BY <2>4 DEF RoundStep, RoundRead, RoundRows, RoundSum, RoundCommit, RoundFails
  <2>5. CASE Crash
    BY <2>5 DEF Crash
  <2>6. CASE UNCHANGED vars
    BY <2>6 DEF vars
  <2> QED
    BY <2>1, <2>2, <2>3, <2>4, <2>5, <2>6 DEF Next
<1>2. Written' \in SUBSET Tenders
  BY ControlTypeStep DEF Written
<1>3. IsFiniteSet(Written') /\ Cardinality(Written') \in Nat
  BY <1>2, FS_Subset, FS_CardinalityType
<1>4. /\ Cardinality(Written) \in Nat /\ Cardinality(Written) <= Cardinality(Written')
      /\ Written # Written' => Cardinality(Written) < Cardinality(Written')
  BY <1>1, <1>3, FS_Subset, FS_CardinalityType
<1> QED
  BY <1>1, <1>3, <1>4 DEF Progress

\* A cash tender that may win its compare-and-set has lost no more of them than went
\* through; a round that may win has rows that are not billed yet.
LossInv ==
  /\ \A a \in Cash :
       /\ losses[a] <= Progress
       /\ at[a] = "cas" /\ ~CasWins(a) => losses[a] < Progress
       /\ a \in payments => losses[a] < Progress
  /\ version - 1 <= Cardinality(payments \cap Cash) + Cardinality(billed)
  /\ \A k \in Rounds :
       /\ round[k] \in {"new", "rows"} => k \notin items
       /\ round[k] \in {"sum", "cas"} /\ RoundWins(k) => k \notin billed

\* How one step changes what a cash tender lost, what it holds, and whether it is recorded.
LEMMA CashMoves ==
  ASSUME TypeOK, [Next]_vars, NEW c \in Cash
  PROVE  /\ \/ losses'[c] = losses[c]
            \/ losses'[c] = losses[c] + 1 /\ at[c] = "cas" /\ ~CasWins(c) /\ at'[c] = "lost"
         /\ at'[c] = "cas" =>
              \/ at[c] = "cas" /\ seen'[c] = seen[c]
              \/ CasWins(c)'
         /\ c \in payments' \ payments => version' = version + 1 /\ losses'[c] = losses[c]
<1> DEFINE Moves ==
      /\ \/ losses'[c] = losses[c]
         \/ losses'[c] = losses[c] + 1 /\ at[c] = "cas" /\ ~CasWins(c) /\ at'[c] = "lost"
      /\ at'[c] = "cas" => (at[c] = "cas" /\ seen'[c] = seen[c]) \/ CasWins(c)'
      /\ c \in payments' \ payments => version' = version + 1 /\ losses'[c] = losses[c]
<1> USE TendersAssumption
        DEF TypeOK, ControlTypeOK, AmountTypeOK, Cash, CardSteps, CashSteps, View, Return, Advance,
            orderVars, roundVars, tenderVars
<1>1. ASSUME NEW a \in Tenders, CardStep(a) PROVE Moves
  BY <1>1 DEF CardStep, RecordCheck, RecordCommit, TotalsRead, TotalsWrite, Deduct,
              DeductFails, Rollback
<1>2. ASSUME NEW a \in Tenders, CashStep(a) PROVE Moves
  <2>1. CASE CashCheck(a)
    BY <2>1 DEF CashCheck
  <2>2. CASE CashRead(a)
    BY <2>2 DEF CashRead, CashVersion, CasWins
  <2>3. CASE CashCommit(a)
    BY <2>3 DEF CashCommit
  <2>4. CASE CashLoses(a)
    BY <2>4 DEF CashLoses
  <2>5. CASE CashRetry(a)
    BY <2>5 DEF CashRetry
  <2>6. CASE CashStock(a)
    BY <2>6 DEF CashStock
  <2> QED
    BY <1>2, <2>1, <2>2, <2>3, <2>4, <2>5, <2>6 DEF CashStep
<1>3. ASSUME NEW a \in Tenders, TenderFails(a) PROVE Moves
  BY <1>3 DEF TenderFails
<1>4. ASSUME NEW k \in Rounds, RoundStep(k) PROVE Moves
  BY <1>4 DEF RoundStep, RoundRead, RoundRows, RoundSum, RoundCommit, RoundFails
<1>5. CASE Crash
  BY <1>5 DEF Crash
<1>6. CASE UNCHANGED vars
  BY <1>6 DEF vars
<1> QED
  BY <1>1, <1>2, <1>3, <1>4, <1>5, <1>6 DEF Next

\* The version moves with one more cash payment, or with a round whose rows it bills.
LEMMA VersionMoves ==
  ASSUME TypeOK, RecordInv, RoundsInv, LossInv, [Next]_vars
  PROVE  \/ version' = version /\ billed' = billed /\ payments \subseteq payments'
         \/ /\ version' = version + 1 /\ billed' = billed
            /\ \E a \in Cash \ payments : payments' = payments \cup {a}
         \/ /\ version' = version + 1 /\ payments' = payments /\ billed \subseteq billed'
            /\ \E k \in Rounds \ billed : k \in billed'
<1> DEFINE Moves ==
      \/ version' = version /\ billed' = billed /\ payments \subseteq payments'
      \/ /\ version' = version + 1 /\ billed' = billed
         /\ \E a \in Cash \ payments : payments' = payments \cup {a}
      \/ /\ version' = version + 1 /\ payments' = payments /\ billed \subseteq billed'
         /\ \E k \in Rounds \ billed : k \in billed'
<1> USE DEF TypeOK, ControlTypeOK, Cash, orderVars, roundVars, tenderVars
<1>1. ASSUME NEW a \in Tenders, CardStep(a) PROVE Moves
  BY <1>1 DEF CardStep, RecordCheck, RecordCommit, TotalsRead, TotalsWrite, Deduct,
              DeductFails, Rollback
<1>2. ASSUME NEW a \in Tenders, CashStep(a) PROVE Moves
  <2>1. CASE CashCommit(a)
    <3>1. a \in Cash \ payments
      BY <2>1 DEF CashCommit, RecordInv, CardSteps
    <3> QED
      BY <2>1, <3>1 DEF CashCommit
  <2>2. CASE ~CashCommit(a)
    BY <1>2, <2>2 DEF CashStep, CashCheck, CashRead, CashLoses, CashRetry, CashStock
  <2> QED
    BY <2>1, <2>2
<1>3. ASSUME NEW a \in Tenders, TenderFails(a) PROVE Moves
  BY <1>3 DEF TenderFails
<1>4. ASSUME NEW k \in Rounds, RoundStep(k) PROVE Moves
  <2>1. CASE RoundCommit(k)
    <3>1. CASE RoundWins(k)
      BY <2>1, <3>1 DEF RoundCommit, RoundsInv, LossInv
    <3>2. CASE ~RoundWins(k)
      BY <2>1, <3>2 DEF RoundCommit
    <3> QED
      BY <3>1, <3>2
  <2>2. CASE ~RoundCommit(k)
    BY <1>4, <2>2 DEF RoundStep, RoundRead, RoundRows, RoundSum, RoundFails
  <2> QED
    BY <2>1, <2>2
<1>5. CASE Crash
  BY <1>5 DEF Crash
<1>6. CASE UNCHANGED vars
  BY <1>6 DEF vars
<1> QED
  BY <1>1, <1>2, <1>3, <1>4, <1>5, <1>6 DEF Next

\* The rows of a round that may still win are not billed before it does.
LEMMA UnbilledStep ==
  ASSUME TypeOK, RoundsInv, LossInv, [Next]_vars, NEW k \in Rounds
  PROVE  /\ round'[k] \in {"new", "rows"} => k \notin items'
         /\ round'[k] \in {"sum", "cas"} /\ RoundWins(k)' => k \notin billed'
<1> DEFINE Unbilled ==
      /\ round'[k] \in {"new", "rows"} => k \notin items'
      /\ round'[k] \in {"sum", "cas"} /\ RoundWins(k)' => k \notin billed'
<1> USE DEF TypeOK, ControlTypeOK, RoundsInv, LossInv, RoundWins, Step, orderVars, tenderVars
<1>1. ASSUME NEW j \in Rounds, RoundStep(j) PROVE Unbilled
  <2>1. CASE RoundRead(j)
    BY <2>1 DEF RoundRead
  <2>2. CASE RoundRows(j)
    BY <2>2 DEF RoundRows
  <2>3. CASE RoundSum(j)
    BY <2>3 DEF RoundSum
  <2>4. CASE RoundCommit(j)
    BY <2>4 DEF RoundCommit
  <2>5. CASE RoundFails(j)
    BY <2>5 DEF RoundFails
  <2> QED
    BY <1>1, <2>1, <2>2, <2>3, <2>4, <2>5 DEF RoundStep
<1>2. CASE \A j \in Rounds : ~RoundStep(j)
  BY <1>2, NoRoundStep
<1> QED
  BY <1>1, <1>2

LEMMA LossStep ==
  ASSUME TypeOK, RetriesLeft, RecordInv, RoundsInv, LossInv, [Next]_vars
  PROVE  LossInv'
<1> USE DEF TypeOK, ControlTypeOK, AmountTypeOK
<1>1. ASSUME NEW c \in Cash
      PROVE  /\ losses'[c] <= Progress'
             /\ at'[c] = "cas" /\ ~CasWins(c)' => losses'[c] < Progress'
             /\ c \in payments' => losses'[c] < Progress'
  <2>1. /\ losses[c] \in Int /\ Progress \in Int /\ Progress' \in Int /\ Progress <= Progress'
        /\ losses[c] <= Progress
    BY <1>1, ProgressStep DEF LossInv, Cash
  <2>2. losses'[c] <= Progress'
    BY <2>1, CashMoves DEF LossInv
  <2>3. ASSUME at'[c] = "cas", ~CasWins(c)' PROVE losses'[c] < Progress'
    <3>1. at[c] = "cas" /\ seen'[c] = seen[c] /\ losses'[c] = losses[c]
      BY <2>3, CashMoves
    <3>2. CASE ~CasWins(c)
      BY <2>1, <3>1, <3>2 DEF LossInv
    <3>3. CASE CasWins(c)
      <4>1. payStatus' \in {"PENDING", "PARTIAL", "PAID"}
        BY AmountTypeStep
      <4>2. version' # version \/ (payStatus' = "PAID" /\ payStatus # "PAID")
        BY <2>3, <3>1, <3>3, <4>1 DEF CasWins
      <4> QED
        BY <2>1, <3>1, <4>2, ProgressStep
    <3> QED
      BY <3>2, <3>3
  <2>4. ASSUME c \in payments' PROVE losses'[c] < Progress'
    <3>1. CASE c \in payments
      <4>1. losses'[c] = losses[c]
        BY <3>1, CashMoves DEF RecordInv
      <4> QED
        BY <2>1, <3>1, <4>1 DEF LossInv
    <3>2. CASE c \notin payments
      <4>1. version' # version /\ losses'[c] = losses[c]
        BY <2>4, <3>2, CashMoves
      <4> QED
        BY <2>1, <4>1, ProgressStep
    <3> QED
      BY <3>1, <3>2
  <2> QED
    BY <2>2, <2>3, <2>4
<1>2. version' - 1 <= Cardinality(payments' \cap Cash) + Cardinality(billed')
  <2>1. payments' \cap Cash \in SUBSET Tenders /\ billed' \in SUBSET Rounds
    BY ControlTypeStep
  <2>2. /\ IsFiniteSet(payments' \cap Cash) /\ Cardinality(payments' \cap Cash) \in Nat
        /\ IsFiniteSet(billed') /\ Cardinality(billed') \in Nat
    BY <2>1, TendersAssumption, OrderAssumption, FS_Subset, FS_CardinalityType
  <2>3. /\ payments \cap Cash \subseteq payments' \cap Cash /\ billed \subseteq billed'
        /\ \/ version' = version
           \/ /\ version' = version + 1
              /\ payments \cap Cash # payments' \cap Cash \/ billed # billed'
    BY VersionMoves
  <2> DEFINE C == payments \cap Cash
             D == payments' \cap Cash
  <2>4. IsFiniteSet(D) /\ C \subseteq D
    BY <2>2, <2>3
  <2> HIDE DEF C, D
  <2>5. /\ Cardinality(C) \in Nat /\ Cardinality(C) <= Cardinality(D)
        /\ C # D => Cardinality(C) < Cardinality(D)
    BY <2>4, FS_Subset, FS_CardinalityType
  <2>6. /\ Cardinality(payments \cap Cash) \in Nat
        /\ Cardinality(payments \cap Cash) <= Cardinality(payments' \cap Cash)
        /\ payments \cap Cash # payments' \cap Cash
             => Cardinality(payments \cap Cash) < Cardinality(payments' \cap Cash)
    BY <2>5 DEF C, D
  <2>7. /\ Cardinality(billed) \in Nat /\ Cardinality(billed) <= Cardinality(billed')
        /\ billed # billed' => Cardinality(billed) < Cardinality(billed')
    BY <2>2, <2>3, FS_Subset, FS_CardinalityType
  <2> QED
    BY <2>2, <2>3, <2>6, <2>7 DEF LossInv
<1> QED
  BY <1>1, <1>2, UnbilledStep DEF LossInv

\* Losing costs somebody else's success: a cash tender loses a compare-and-set only to a
\* payment or to a round, each of which it loses to once.
THEOREM LossesAreProgress == Spec => []LosesOnlyToProgress
<1>1. Init => RecordInv
  BY TendersAssumption DEF Init, RecordInv, Cash
<1>2. Init => LossInv
  <2> SUFFICES ASSUME Init PROVE LossInv
    OBVIOUS
  <2>1. Written = {} /\ payments \cap Cash = {} /\ billed = {}
    BY DEF Init, Written
  <2>2. Cardinality({}) = 0
    BY FS_EmptySet
  <2>3. Progress = 0
    BY <2>1, <2>2 DEF Init, Progress
  <2> QED
    BY <2>1, <2>2, <2>3 DEF Init, LossInv, Cash
<1>3. TypeOK /\ RecordInv /\ RoundsInv /\ LossInv => LosesOnlyToProgress
  <2> SUFFICES ASSUME TypeOK, RecordInv, RoundsInv, LossInv, NEW a \in Cash
               PROVE  losses[a] <= Cardinality(payments \ {a}) + Cardinality(billed)
    BY DEF LosesOnlyToProgress
  <2> DEFINE C == payments \cap Cash
             P == payments
             W == Written
             D == billed
  <2>1. IsFiniteSet(P) /\ IsFiniteSet(D) /\ C \subseteq P /\ W \subseteq P /\ C \cap W = {}
    BY TendersAssumption, OrderAssumption, FS_Subset
       DEF TypeOK, ControlTypeOK, Written, Cash
  <2>2. /\ losses[a] <= version - 1 + Cardinality(W) /\ version - 1 <= Cardinality(C) + Cardinality(D)
        /\ a \in P => losses[a] < version - 1 + Cardinality(W)
        /\ losses[a] \in Int /\ version \in Int
    BY DEF LossInv, Progress, TypeOK, ControlTypeOK, AmountTypeOK, Cash
  <2> HIDE DEF C, P, W, D
  <2>3. IsFiniteSet(C) /\ IsFiniteSet(W)
    BY <2>1, FS_Subset
  <2>4. Cardinality(C) + Cardinality(W) <= Cardinality(P)
    <3>1. C \cup W \in SUBSET P /\ Cardinality(C \cap W) = 0
      BY <2>1, FS_EmptySet
    <3>2. Cardinality(C \cup W) <= Cardinality(P)
      BY <2>1, <3>1, FS_Subset
    <3>3. Cardinality(C \cup W) = Cardinality(C) + Cardinality(W) - 0
      BY <2>3, <3>1, FS_Union
    <3>4. Cardinality(C) \in Nat /\ Cardinality(W) \in Nat
      BY <2>3, FS_CardinalityType
    <3> QED
      BY <3>2, <3>3, <3>4
  <2>5. /\ Cardinality(C) \in Nat /\ Cardinality(W) \in Nat /\ Cardinality(P) \in Nat
        /\ Cardinality(D) \in Nat
    BY <2>1, <2>3, FS_CardinalityType
  <2>6. Cardinality(P \ {a}) = IF a \in P THEN Cardinality(P) - 1 ELSE Cardinality(P)
    BY <2>1, FS_RemoveElement
  <2>7. losses[a] <= Cardinality(P \ {a}) + Cardinality(D)
    BY <2>2, <2>4, <2>5, <2>6
  <2> QED
    BY <2>7 DEF P, D
<1> QED
  BY <1>1, <1>2, <1>3, RecordStep, LossStep, Typing, RoundsCompete, PTL DEF Spec

-----------------------------------------------------------------------------
(* What settles the order.                                                  *)

\* What is collected never shrinks.
LEMMA CollectedStep ==
  ASSUME TypeOK, [Next]_vars
  PROVE  /\ Collected(payments) \in Nat /\ Collected(payments') \in Nat
         /\ Collected(payments) <= Collected(payments')
<1>1. payments \subseteq payments'
  BY PaymentStep DEF TypeOK
<1>2. payments' \in SUBSET Tenders
  BY ControlTypeStep DEF TypeOK, ControlTypeOK
<1> QED
  BY <1>1, <1>2, CollectedType, CollectedGrows

Backed == Settles(Collected(payments), Ordered)

\* What a tender carries is backed by the payments on record, with its own.
CarriesBacked(a) ==
  /\ at[a] \in {"write", "cas"} => seen[a].due >= Ordered
  /\ at[a] = "write" =>
       /\ seen[a].paid <= Collected(payments)
       /\ seen[a].status = "PAID" => Backed
  /\ at[a] = "cas" => seen[a].paid <= Collected(payments) + AmountOf[a]
  /\ at[a] \in {"deduct", "rollback", "stock"} => Backed

OrderBacked ==
  /\ payStatus = "PAID" \/ deducted # {} => Backed
  /\ paidAmount <= Collected(payments)

BackedInv == OrderBacked /\ \A a \in Tenders : CarriesBacked(a)

\* A tender that settles with what is backed has backed the order.
LEMMA SettledIsBacked ==
  ASSUME NEW paid \in Nat, NEW due \in Nat, NEW total \in Nat,
         paid <= total, due >= Ordered, Settles(paid, due)
  PROVE  Settles(total, Ordered)
BY OrderAssumption DEF Settles

\* What a tender carries stays backed while it waits.
LEMMA CarriesKept ==
  ASSUME TypeOK, [Next]_vars, NEW a \in Tenders, CarriesBacked(a),
         \/ at'[a] = at[a] /\ seen'[a] = seen[a]
         \/ at'[a] \in {"new", "record", "totals", "read", "lost", "done"}
  PROVE  CarriesBacked(a)'
<1>1. Backed => Backed'
  BY CollectedStep, OrderAssumption DEF Backed, Settles
<1>2. seen[a].paid \in Nat /\ AmountOf[a] \in Nat
  BY TendersAssumption DEF TypeOK, AmountTypeOK, View
<1> QED
  BY <1>1, <1>2, CollectedStep DEF CarriesBacked

LEMMA OrderKept ==
  ASSUME TypeOK, [Next]_vars, OrderBacked, UNCHANGED <<payStatus, paidAmount, deducted>>
  PROVE  OrderBacked'
<1>1. Backed => Backed'
  BY CollectedStep, OrderAssumption DEF Backed, Settles
<1> QED
  BY <1>1, CollectedStep DEF OrderBacked, TypeOK, AmountTypeOK

LEMMA BackedCardStep ==
  ASSUME TypeOK, RecordInv, BackedInv, NEW a \in Tenders, CardStep(a)
  PROVE  BackedInv'
<1>0. [Next]_vars
  BY DEF Next
<1>1. /\ Collected(payments) \in Nat /\ Collected(payments') \in Nat
      /\ Collected(payments) <= Collected(payments')
      /\ Backed => Backed'
      /\ seen[a].paid \in Nat /\ seen[a].due \in Nat
  BY <1>0, CollectedStep, OrderAssumption DEF Backed, Settles, TypeOK, AmountTypeOK, View
<1>2. (SettledBy(a) /\ at[a] = "write") => Backed
  BY <1>1, SettledIsBacked DEF BackedInv, CarriesBacked, SettledBy, Backed
<1> USE <1>0, <1>1, CarriesKept, OrderKept
        DEF BackedInv, Return, Advance, orderVars, TypeOK, ControlTypeOK
<1>3. CASE RecordCheck(a)
  BY <1>3 DEF RecordCheck
<1>4. CASE RecordCommit(a)
  BY <1>4 DEF RecordCommit
<1>5. CASE TotalsRead(a)
  <2>1. a \in payments
    BY <1>5 DEF TotalsRead, RecordInv, Cash, CashSteps
  <2>2. PaidWith(a) = Collected(payments)
    BY <2>1, CollectedSplit DEF PaidWith
  <2>3. Subtotal(billed) >= Ordered
    BY SubtotalType
  <2>4. CarriesBacked(a)'
    BY <1>5, <2>2, <2>3 DEF TotalsRead, CarriesBacked, OrderBacked, AmountTypeOK
  <2> QED
    BY <1>5, <2>4 DEF TotalsRead
<1>6. CASE TotalsWrite(a)
  <2>1. UNCHANGED <<payments, deducted, seen>> /\ at[a] = "write"
    BY <1>6 DEF TotalsWrite
  <2>2. OrderBacked'
    <3>1. paidAmount' <= Collected(payments')
      BY <1>6 DEF TotalsWrite, CarriesBacked
    <3>2. payStatus' = "PAID" => Backed'
      BY <1>2, <1>6 DEF TotalsWrite, newPaymentStatus, CarriesBacked
    <3> QED
      BY <2>1, <3>1, <3>2 DEF OrderBacked
  <2>3. CarriesBacked(a)'
    BY <1>2, <1>6, <2>1 DEF TotalsWrite, CarriesBacked
  <2> QED
    BY <1>6, <2>2, <2>3 DEF TotalsWrite
<1>7. CASE Deduct(a)
  BY <1>7 DEF Deduct, OrderBacked, CarriesBacked
<1>8. CASE DeductFails(a)
  <2>1. Backed /\ UNCHANGED <<payStatus, paidAmount, payments>>
    BY <1>8 DEF DeductFails, CarriesBacked
  <2>2. CarriesBacked(a)'
    BY <1>8, <2>1 DEF DeductFails, CarriesBacked
  <2> QED
    BY <1>8, <2>1, <2>2 DEF DeductFails, OrderBacked
<1>9. CASE Rollback(a)
  BY <1>9 DEF Rollback, OrderBacked
<1> QED
  BY <1>3, <1>4, <1>5, <1>6, <1>7, <1>8, <1>9 DEF CardStep

LEMMA BackedCashStep ==
  ASSUME TypeOK, RecordInv, BackedInv, NEW a \in Tenders, CashStep(a)
  PROVE  BackedInv'
<1>0. [Next]_vars
  BY DEF Next
<1>1. /\ Collected(payments) \in Nat /\ Collected(payments') \in Nat
      /\ Collected(payments) <= Collected(payments')
      /\ Backed => Backed'
      /\ seen[a].paid \in Nat /\ seen[a].due \in Nat
  BY <1>0, CollectedStep, OrderAssumption DEF Backed, Settles, TypeOK, AmountTypeOK, View
<1> USE <1>0, <1>1, CarriesKept, OrderKept
        DEF BackedInv, Return, Advance, orderVars, TypeOK, ControlTypeOK
<1>2. CASE CashCheck(a)
  BY <1>2 DEF CashCheck
<1>3. CASE CashRead(a)
  <2>1. CashDue >= Ordered
    BY SubtotalType, OrderAssumption DEF CashDue
  <2>2. CarriesBacked(a)'
    BY <1>3, <2>1, TendersAssumption DEF CashRead, CarriesBacked, AmountTypeOK
  <2>3. \A b \in Tenders \ {a} : at'[b] = at[b] /\ seen'[b] = seen[b]
    BY <1>3 DEF CashRead, AmountTypeOK
  <2>4. UNCHANGED <<payStatus, paidAmount, deducted>>
    BY <1>3 DEF CashRead
  <2> QED
    BY <2>2, <2>3, <2>4
<1>4. CASE CashCommit(a)
  <2>1. CASE KeyTaken(a)
    BY <1>4, <2>1 DEF CashCommit
  <2>2. CASE ~KeyTaken(a)
    <3>1. /\ payments' = payments \cup {a} /\ paidAmount' = seen[a].paid
          /\ payStatus' = IF SettledBy(a) THEN "PAID" ELSE "PARTIAL"
          /\ at' = [at EXCEPT ![a] = IF SettledBy(a) THEN "stock" ELSE "done"]
          /\ at[a] = "cas" /\ UNCHANGED <<seen, deducted>>
      BY <1>4, <2>2 DEF CashCommit
    <3>2. a \notin payments
      BY <3>1 DEF RecordInv, CardSteps, Cash
    <3>3. seen[a].paid <= Collected(payments')
      BY <3>1, <3>2, CollectedWith DEF CarriesBacked
    <3>4. SettledBy(a) => Backed'
      BY <3>1, <3>3, SettledIsBacked DEF SettledBy, Backed, CarriesBacked
    <3>5. OrderBacked'
      BY <3>1, <3>3, <3>4 DEF OrderBacked
    <3>6. CarriesBacked(a)'
      BY <3>1, <3>4 DEF CarriesBacked
    <3> QED
      BY <3>1, <3>5, <3>6
  <2> QED
    BY <2>1, <2>2
<1>5. CASE CashLoses(a)
  BY <1>5 DEF CashLoses
<1>6. CASE CashRetry(a)
  BY <1>6 DEF CashRetry
<1>7. CASE CashStock(a)
  BY <1>7 DEF CashStock, OrderBacked, CarriesBacked
<1> QED
  BY <1>2, <1>3, <1>4, <1>5, <1>6, <1>7 DEF CashStep

LEMMA BackedStep ==
  ASSUME TypeOK, RecordInv, BackedInv, [Next]_vars
  PROVE  BackedInv'
<1> USE CarriesKept, OrderKept DEF BackedInv, Return, Advance, orderVars, roundVars, tenderVars,
                                   TypeOK, ControlTypeOK
<1>1. ASSUME NEW a \in Tenders, TenderFails(a) PROVE BackedInv'
  BY <1>1 DEF TenderFails
<1>2. ASSUME NEW k \in Rounds, RoundStep(k) PROVE BackedInv'
  BY <1>2 DEF RoundStep, RoundRead, RoundRows, RoundSum, RoundCommit, RoundFails
<1>3. CASE Crash
  BY <1>3 DEF Crash
<1>4. CASE UNCHANGED vars
  BY <1>4 DEF vars
<1> QED
  BY BackedCardStep, BackedCashStep, <1>1, <1>2, <1>3, <1>4 DEF Next

\* However stale the payments a tender read, an order is closed and its stock taken only
\* when the payments on record cover what it started with, and paidAmount never claims more
\* than they are.
THEOREM NothingUnbacked == Spec => []PaidIsBacked
<1>1. Init => RecordInv /\ BackedInv
  <2> SUFFICES ASSUME Init PROVE RecordInv /\ BackedInv
    OBVIOUS
  <2>1. Collected({}) = 0
    BY SumEmpty DEF Collected
  <2> QED
    BY <2>1, TendersAssumption DEF Init, RecordInv, BackedInv, OrderBacked, CarriesBacked, Cash
<1>2. BackedInv => PaidIsBacked
  BY DEF BackedInv, OrderBacked, Backed, PaidIsBacked
<1> QED
  BY <1>1, <1>2, RecordStep, BackedStep, Typing, PTL DEF Spec

-----------------------------------------------------------------------------
(* What only cash has paid.                                                 *)

\* A cash tender that may still win has read all that the order has and owes, and a round
\* that may still win has read an order that is open.
CashReads(a) ==
  at[a] = "cas" /\ seen[a].version = version =>
    seen[a].paid = Collected(payments) + AmountOf[a] /\ seen[a].due = CashDue

OpenForRounds ==
  \A k \in Rounds : round[k] \in {"rows", "sum", "cas"} /\ RoundWins(k) => payStatus # "PAID"

CashInv ==
  payments \subseteq Cash =>
    CashPaysTheBill /\ (\A a \in Cash : CashReads(a)) /\ OpenForRounds

\* The steps of a card neither settle nor unsettle an order that only cash has paid.
LEMMA CashCardStep ==
  ASSUME TypeOK, RecordInv, CashInv, NEW a \in Tenders, CardStep(a)
  PROVE  CashInv'
<1> SUFFICES ASSUME payments' \subseteq Cash
             PROVE  (CashPaysTheBill /\ (\A c \in Cash : CashReads(c)) /\ OpenForRounds)'
  BY DEF CashInv
<1>1. a \in Cards
  BY DEF CardStep, RecordCheck, RecordCommit, TotalsRead, TotalsWrite, Deduct, DeductFails,
         Rollback, TypeOK, ControlTypeOK, CashSteps
<1>2. a \notin payments'
  BY <1>1 DEF Cash
<1>3. payments' = payments /\ at[a] \notin {"totals", "write", "deduct", "rollback"}
  BY <1>1, <1>2
     DEF CardStep, RecordCheck, RecordCommit, TotalsRead, TotalsWrite, Deduct, DeductFails,
         Rollback, RecordInv
<1>4. /\ UNCHANGED <<payStatus, paidAmount, version, billed, round, roundSeen, seen>>
      /\ \A c \in Cash : at'[c] = at[c]
  BY <1>1, <1>3
     DEF CardStep, RecordCheck, RecordCommit, TotalsRead, TotalsWrite, Deduct, DeductFails,
         Rollback, Return, Advance, orderVars, roundVars, Cash, TypeOK, ControlTypeOK
<1> QED
  BY <1>3, <1>4
     DEF CashInv, CashPaysTheBill, CashIsExact, CashCoversTheBill, CashReads, CashDue,
         OpenForRounds, RoundWins

LEMMA CashCashStep ==
  ASSUME TypeOK, RecordInv, RoundsInv, CashInv, NEW a \in Tenders, CashStep(a)
  PROVE  CashInv'
<1> SUFFICES ASSUME payments' \subseteq Cash
             PROVE  (CashPaysTheBill /\ (\A c \in Cash : CashReads(c)) /\ OpenForRounds)'
  BY DEF CashInv
<1> USE DEF CashInv, CashPaysTheBill, CashIsExact, CashCoversTheBill, CashReads, CashDue,
            OpenForRounds, RoundWins, Return, Advance, orderVars, roundVars, TypeOK, ControlTypeOK,
            AmountTypeOK
<1>1. CASE CashRead(a)
  <2>1. \/ UNCHANGED seen /\ at'[a] = "done"
        \/ /\ seen'[a].paid = Collected(payments) + AmountOf[a] /\ seen'[a].due = CashDue
           /\ \A c \in Tenders \ {a} : seen'[c] = seen[c]
    BY <1>1 DEF CashRead
  <2>2. /\ UNCHANGED <<payStatus, paidAmount, version, billed, payments, round, roundSeen>>
        /\ \A c \in Tenders \ {a} : at'[c] = at[c]
    BY <1>1 DEF CashRead
  <2> QED
    BY <2>1, <2>2 DEF Cash
<1>2. CASE CashCommit(a) /\ ~KeyTaken(a)
  <2>1. /\ payments' = payments \cup {a} /\ paidAmount' = seen[a].paid
        /\ payStatus' = IF SettledBy(a) THEN "PAID" ELSE "PARTIAL"
        /\ version' = version + 1 /\ version = seen[a].version
        /\ at[a] = "cas" /\ UNCHANGED <<seen, billed, round, roundSeen>>
    BY <1>2 DEF CashCommit, CasWins
  <2>2. a \in Cash /\ a \notin payments
    BY <2>1 DEF RecordInv, CardSteps, Cash
  <2>3. /\ seen[a].paid = Collected(payments) + AmountOf[a] /\ seen[a].due = CashDue
        /\ Collected(payments') = seen[a].paid
    BY <2>1, <2>2, CollectedWith
  <2>4. CashPaysTheBill'
    BY <2>1, <2>3 DEF SettledBy
  <2>5. \A c \in Cash : seen'[c].version # version'
    BY <2>1 DEF RecordInv, View, Cash
  <2>6. \A k \in Rounds : roundSeen'[k].version # version'
    BY <2>1 DEF RoundsInv
  <2> QED
    BY <2>4, <2>5, <2>6
<1>3. CASE ~CashRead(a) /\ ~(CashCommit(a) /\ ~KeyTaken(a))
  <2>1. /\ UNCHANGED <<payStatus, paidAmount, version, billed, payments, round, roundSeen, seen>>
        /\ \A c \in Tenders : at'[c] = at[c] \/ at'[c] # "cas"
    BY <1>3 DEF CashStep, CashCheck, CashCommit, CashLoses, CashRetry, CashStock
  <2> QED
    BY <2>1 DEF Cash
<1> QED
  BY <1>1, <1>2, <1>3

LEMMA CashRoundStep ==
  ASSUME TypeOK, RecordInv, RoundsInv, CashInv, NEW k \in Rounds, RoundStep(k)
  PROVE  CashInv'
<1> SUFFICES ASSUME payments' \subseteq Cash
             PROVE  (CashPaysTheBill /\ (\A c \in Cash : CashReads(c)) /\ OpenForRounds)'
  BY DEF CashInv
<1>1. UNCHANGED <<payStatus, paidAmount, payments, seen, at>>
  BY DEF RoundStep, RoundRead, RoundRows, RoundSum, RoundCommit, RoundFails, orderVars,
         tenderVars
<1> USE DEF CashInv, CashPaysTheBill, CashIsExact, CashCoversTheBill, CashReads, CashDue,
            OpenForRounds, RoundWins, Step, orderVars, TypeOK, ControlTypeOK
<1>2. CASE RoundCommit(k) /\ RoundWins(k)
  <2>1. version' = version + 1 /\ payStatus # "PAID"
    BY <1>2 DEF RoundCommit
  <2>2. \A c \in Cash : seen'[c].version # version'
    BY <1>1, <2>1 DEF RecordInv, AmountTypeOK, View, Cash
  <2> QED
    BY <1>1, <2>1, <2>2
<1>3. CASE ~(RoundCommit(k) /\ RoundWins(k))
  <2>1. UNCHANGED <<version, billed>>
    BY <1>3 DEF RoundStep, RoundRead, RoundRows, RoundSum, RoundCommit, RoundFails
  <2>2. OpenForRounds'
    BY <1>1, <1>3, <2>1
       DEF RoundStep, RoundRead, RoundRows, RoundSum, RoundCommit, RoundFails
  <2> QED
    BY <1>1, <2>1, <2>2
<1> QED
  BY <1>2, <1>3

LEMMA CashInvStep ==
  ASSUME TypeOK, RecordInv, RoundsInv, CashInv, [Next]_vars
  PROVE  CashInv'
<1> USE DEF CashInv, CashPaysTheBill, CashIsExact, CashCoversTheBill, CashReads, CashDue,
            OpenForRounds, RoundWins, Return, Advance, orderVars, roundVars, tenderVars, TypeOK,
            ControlTypeOK, Cash
<1>1. ASSUME NEW a \in Tenders, TenderFails(a) PROVE CashInv'
  BY <1>1 DEF TenderFails
<1>2. CASE Crash
  BY <1>2 DEF Crash
<1>3. CASE UNCHANGED vars
  BY <1>3 DEF vars
<1> QED
  BY CashCardStep, CashCashStep, CashRoundStep, <1>1, <1>2, <1>3 DEF Next

\* While only cash has paid, no update of paidAmount is lost and the order closes only when
\* every row it bills is paid, whatever rounds compete with the tenders for its version.
THEOREM CashIsRight == Spec => []CashPaysTheBill
<1>1. Init => RecordInv /\ CashInv
  <2> SUFFICES ASSUME Init PROVE RecordInv /\ CashInv
    OBVIOUS
  <2>1. Collected({}) = 0
    BY SumEmpty DEF Collected
  <2> QED
    BY <2>1, TendersAssumption
       DEF Init, RecordInv, CashInv, CashPaysTheBill, CashIsExact, CashCoversTheBill, CashReads,
           OpenForRounds, Cash
<1>2. CashInv => CashPaysTheBill
  BY DEF CashInv, CashPaysTheBill, CashIsExact, CashCoversTheBill
<1> QED
  BY <1>1, <1>2, RecordStep, CashInvStep, Typing, RoundsCompete, PTL DEF Spec
=============================================================================
