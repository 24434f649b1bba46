---------------------------- MODULE RefundsProofs ----------------------------
(***************************************************************************)
(* Proofs about Refunds: for any number of payments, lines and calls, and  *)
(* any amounts.                                                            *)
(***************************************************************************)
EXTENDS Refunds, Sums

-----------------------------------------------------------------------------
(* Arithmetic.                                                              *)

\* A part of a whole, rounded, is no more than the whole.
LEMMA RoundedPart ==
  ASSUME NEW cents \in Nat, NEW part \in Nat, NEW whole \in Nat \ {0}, part <= whole
  PROVE  Rounded(cents * part, whole) \in 0..cents
<1> DEFINE n == 2 * (cents * part) + whole
           d == 2 * whole
<1>1. cents * part \in Nat /\ cents * part <= cents * whole
  OBVIOUS
<1>2. n \in Nat /\ d \in Nat \ {0} /\ n < d * (cents + 1)
  BY <1>1
<1> HIDE DEF n, d
<1>3. n \div d \in Nat /\ n \div d < cents + 1
  BY <1>2
<1> QED
  BY <1>3 DEF Rounded, n, d

\* What the first `count' units of a line cost.
LineCents(i, count) ==
  (LineTotal[i] \div Qty[i]) * count + Min({LineTotal[i] % Qty[i], count})

LEMMA LineCentsType ==
  ASSUME NEW i \in Items, NEW m \in Nat, NEW n \in Nat
  PROVE  /\ LineCents(i, m) \in Nat
         /\ LineCents(i, m) <= LineCents(i, m + n)
         /\ UnitRefundCents(LineTotal[i], Qty[i], m, n) = LineCents(i, m + n) - LineCents(i, m)
         /\ LineCents(i, 0) = 0
         /\ LineCents(i, Qty[i]) = LineTotal[i]
<1> DEFINE t == LineTotal[i]
           q == Qty[i]
<1>1. t \in Nat /\ q \in Nat \ {0}
  BY RefundsAssumption
<1> HIDE DEF t, q
<1> DEFINE each == t \div q
           odd == t % q
<1>2. each \in Nat /\ odd \in Nat /\ odd < q /\ q * each + odd = t
  BY <1>1
<1> HIDE DEF each, odd
<1>3. \A k \in Nat : LineCents(i, k) = each * k + (IF odd <= k THEN odd ELSE k)
  BY <1>2, MinOfTwo DEF LineCents, each, odd, t, q
<1>4. UnitRefundCents(LineTotal[i], Qty[i], m, n)
        = each * n + (IF odd <= m + n THEN odd ELSE m + n) - (IF odd <= m THEN odd ELSE m)
  <2>1. /\ Min({odd, m + n}) = IF odd <= m + n THEN odd ELSE m + n
        /\ Min({odd, m}) = IF odd <= m THEN odd ELSE m
    BY <1>2, MinOfTwo
  <2>2. UnitRefundCents(t, q, m, n) = each * n + Min({odd, m + n}) - Min({odd, m})
    BY DEF UnitRefundCents, each, odd
  <2> QED
    BY <2>1, <2>2 DEF t, q
<1>5. /\ each * (m + n) = each * m + each * n /\ each * m \in Nat /\ each * n \in Nat
      /\ each * 0 = 0 /\ each * q = q * each
  BY <1>1, <1>2
<1>6. LineCents(i, m) \in Nat /\ LineCents(i, m) <= LineCents(i, m + n)
  BY <1>2, <1>3, <1>5
<1>7. UnitRefundCents(LineTotal[i], Qty[i], m, n) = LineCents(i, m + n) - LineCents(i, m)
  BY <1>2, <1>3, <1>4, <1>5
<1>8. LineCents(i, 0) = 0
  BY <1>2, <1>3, <1>5
<1>9. LineCents(i, q) = t
  BY <1>1, <1>2, <1>3, <1>5
<1> QED
  BY <1>6, <1>7, <1>8, <1>9 DEF t, q

\* A split is one of its payment, gives no part back twice, and fits if the refund does.
LEMMA SplitParts ==
  ASSUME NEW p \in Payments, NEW cents \in Nat, NEW tip \in Nat \cup {Proportional},
         NEW split \in Splits(p, cents, tip)
  PROVE  /\ split.payment = p /\ split.refunded = processed[p].refunded
         /\ split.listed = processed[p].listed
         /\ split.sale \in Int /\ split.tip \in Nat /\ split.sale + split.tip = cents
         /\ cents <= Total(p) =>
              split.sale \in Nat /\ split.sale <= Amount[p] /\ split.tip <= Tip[p]
<1>1. Amount[p] \in Nat \ {0} /\ Tip[p] \in Nat /\ Total(p) = Amount[p] + Tip[p]
  BY RefundsAssumption DEF Total
<1>2. split = [payment |-> p, sale |-> cents - TipPart(p, cents, tip),
               tip |-> TipPart(p, cents, tip), refunded |-> processed[p].refunded,
               listed |-> processed[p].listed]
  BY DEF Splits
<1> DEFINE part == TipPart(p, cents, tip)
<1>3. part \in Nat /\ (cents <= Total(p) => part <= cents /\ cents - part <= Amount[p] /\ part <= Tip[p])
  <2>1. CASE tip # Proportional
    BY <2>1, <1>1 DEF Splits, TipPart, OverrideFits
  <2>2. CASE tip = Proportional
    <3> DEFINE share == Min({Rounded(cents * Tip[p], Total(p)), Tip[p]})
               rest == Max({0, cents - share - Amount[p]})
    <3>1. Rounded(cents * Tip[p], Total(p)) \in 0..cents
      BY <1>1, RoundedPart
    <3>2. share \in Nat /\ share <= cents /\ share <= Tip[p]
      BY <1>1, <3>1, MinOfTwo
    <3> HIDE DEF share
    <3>3. rest = IF cents - share - Amount[p] > 0 THEN cents - share - Amount[p] ELSE 0
      BY <1>1, <3>2, MaxOfTwo
    <3> HIDE DEF rest
    <3>4. part = share + rest
      BY <2>2 DEF TipPart, share, rest
    <3> HIDE DEF part
    <3> QED
      BY <1>1, <3>2, <3>3, <3>4
  <2> QED
    BY <2>1, <2>2
<1> HIDE DEF part
<1>4. split.sale = cents - part /\ split.tip = part
  BY <1>2 DEF part
<1> QED
  BY <1>1, <1>2, <1>3, <1>4

-----------------------------------------------------------------------------
(* Rows and their sums.                                                     *)

RowType == [payment : Payments \cup {NoPayment}, sale : Nat, tip : Nat, units : [Items -> Nat],
            cents : [Items -> Nat], processor : {"none", "blumon", "dashboard"}]

\* The sums over any refunds are amounts.
LEMMA SumsAreNat ==
  ASSUME TypeOK, NEW S \in SUBSET Refunds
  PROVE  /\ SaleOf(S) \in Nat /\ TipOf(S) \in Nat
         /\ \A i \in Items : UnitsOf(S, i) \in Nat /\ CentsOf(S, i) \in Nat
<1>1. IsFiniteSet(S)
  BY RefundsAssumption, FS_Subset
<1>2. \A r \in S : row[r] \in RowType
  BY DEF TypeOK, RowType
<1>3. /\ Summable([r \in Refunds |-> row[r].sale], S)
      /\ Summable([r \in Refunds |-> row[r].tip], S)
  BY <1>1, <1>2 DEF Summable, RowType
<1>4. ASSUME NEW i \in Items
      PROVE  /\ Summable([r \in Refunds |-> row[r].units[i]], S)
             /\ Summable([r \in Refunds |-> row[r].cents[i]], S)
  BY <1>1, <1>2, <1>4 DEF Summable, RowType
<1> QED
  BY <1>3, <1>4, SumType DEF SaleOf, TipOf, UnitsOf, CentsOf

\* What a commit adds to the rows.
Records(r, new) ==
  /\ r \in Refunds \ Rows
  /\ new \in RowType /\ new.payment \in Payments
  /\ row' = [row EXCEPT ![r] = new]

\* A new row is a refund of its payment, and adds what it holds to the sums of the rows that
\* it joins.
LEMMA RowJoins ==
  ASSUME TypeOK, NEW r, NEW new, Records(r, new)
  PROVE  /\ Rows' = Rows \cup {r}
         /\ SaleOf(Rows)' = SaleOf(Rows) + new.sale
         /\ RefundsOf(new.payment)' = RefundsOf(new.payment) \cup {r}
         /\ SaleOf(RefundsOf(new.payment))' = SaleOf(RefundsOf(new.payment)) + new.sale
         /\ TipOf(RefundsOf(new.payment))' = TipOf(RefundsOf(new.payment)) + new.tip
         /\ \A i \in Items :
              /\ AlreadyReturned(new.payment, i)' = AlreadyReturned(new.payment, i) + new.units[i]
              /\ CentsOf(RefundsOf(new.payment), i)'
                   = CentsOf(RefundsOf(new.payment), i) + new.cents[i]
<1> USE DEF TypeOK
<1>1. /\ r \in Refunds /\ r \notin Rows /\ row'[r] = new /\ new \in RowType
      /\ new.payment \in Payments
      /\ row \in [Refunds -> RowType] /\ \A q \in Refunds \ {r} : row'[q] = row[q]
  BY DEF Records, RowType
<1>2. Rows' = Rows \cup {r} /\ RefundsOf(new.payment)' = RefundsOf(new.payment) \cup {r}
  BY <1>1, RefundsAssumption DEF Rows, RefundsOf
<1>3. r \notin RefundsOf(new.payment)
  BY <1>1, RefundsAssumption DEF Rows, RefundsOf
<1>4. ASSUME NEW S \in SUBSET (Refunds \ {r})
      PROVE  /\ SumFunctionOnSet([q \in Refunds |-> row'[q].sale], S \cup {r}) = SaleOf(S) + new.sale
             /\ SumFunctionOnSet([q \in Refunds |-> row'[q].tip], S \cup {r}) = TipOf(S) + new.tip
             /\ \A i \in Items :
                  /\ SumFunctionOnSet([q \in Refunds |-> row'[q].units[i]], S \cup {r})
                       = UnitsOf(S, i) + new.units[i]
                  /\ SumFunctionOnSet([q \in Refunds |-> row'[q].cents[i]], S \cup {r})
                       = CentsOf(S, i) + new.cents[i]
  <2>1. IsFiniteSet(S) /\ r \notin S
    BY RefundsAssumption, FS_Subset
  <2>2. SumFunctionOnSet([q \in Refunds |-> row'[q].sale], S \cup {r}) = SaleOf(S) + new.sale
    <3> DEFINE f == [q \in Refunds |-> row[q].sale]
               g == [q \in Refunds |-> row'[q].sale]
    <3>1. Summable(f, S) /\ (\A q \in S : g[q] = f[q]) /\ new.sale \in Nat /\ g[r] = new.sale
      BY <1>1, <2>1 DEF Summable, RowType
    <3> HIDE DEF f, g
    <3>2. SumFunctionOnSet(g, S \cup {r}) = SumFunctionOnSet(f, S) + new.sale
      BY <2>1, <3>1, SumExtend
    <3> QED
      BY <3>2 DEF SaleOf, f, g
  <2>3. SumFunctionOnSet([q \in Refunds |-> row'[q].tip], S \cup {r}) = TipOf(S) + new.tip
    <3> DEFINE f == [q \in Refunds |-> row[q].tip]
               g == [q \in Refunds |-> row'[q].tip]
    <3>1. Summable(f, S) /\ (\A q \in S : g[q] = f[q]) /\ new.tip \in Nat /\ g[r] = new.tip
      BY <1>1, <2>1 DEF Summable, RowType
    <3> HIDE DEF f, g
    <3>2. SumFunctionOnSet(g, S \cup {r}) = SumFunctionOnSet(f, S) + new.tip
      BY <2>1, <3>1, SumExtend
    <3> QED
      BY <3>2 DEF TipOf, f, g
  <2>4. ASSUME NEW i \in Items
        PROVE  SumFunctionOnSet([q \in Refunds |-> row'[q].units[i]], S \cup {r})
                 = UnitsOf(S, i) + new.units[i]
    <3> DEFINE f == [q \in Refunds |-> row[q].units[i]]
               g == [q \in Refunds |-> row'[q].units[i]]
    <3>1. Summable(f, S) /\ (\A q \in S : g[q] = f[q]) /\ new.units[i] \in Nat /\ g[r] = new.units[i]
      BY <1>1, <2>1 DEF Summable, RowType
    <3> HIDE DEF f, g
    <3>2. SumFunctionOnSet(g, S \cup {r}) = SumFunctionOnSet(f, S) + new.units[i]
      BY <2>1, <3>1, SumExtend
    <3> QED
      BY <3>2 DEF UnitsOf, f, g
  <2>5. ASSUME NEW i \in Items
        PROVE  SumFunctionOnSet([q \in Refunds |-> row'[q].cents[i]], S \cup {r})
                 = CentsOf(S, i) + new.cents[i]
    <3> DEFINE f == [q \in Refunds |-> row[q].cents[i]]
               g == [q \in Refunds |-> row'[q].cents[i]]
    <3>1. Summable(f, S) /\ (\A q \in S : g[q] = f[q]) /\ new.cents[i] \in Nat /\ g[r] = new.cents[i]
      BY <1>1, <2>1 DEF Summable, RowType
    <3> HIDE DEF f, g
    <3>2. SumFunctionOnSet(g, S \cup {r}) = SumFunctionOnSet(f, S) + new.cents[i]
      BY <2>1, <3>1, SumExtend
    <3> QED
      BY <3>2 DEF CentsOf, f, g
  <2> QED
    BY <2>2, <2>3, <2>4, <2>5
<1> DEFINE P == RefundsOf(new.payment)
<1>5. /\ Rows \in SUBSET (Refunds \ {r}) /\ RefundsOf(new.payment) \in SUBSET (Refunds \ {r})
  BY <1>1, <1>3 DEF Rows, RefundsOf
<1>6. SaleOf(Rows)' = SaleOf(Rows) + new.sale
  BY <1>2, <1>4, <1>5 DEF SaleOf
<1>7. /\ SaleOf(RefundsOf(new.payment))' = SaleOf(RefundsOf(new.payment)) + new.sale
      /\ TipOf(RefundsOf(new.payment))' = TipOf(RefundsOf(new.payment)) + new.tip
  BY <1>2, <1>4, <1>5 DEF SaleOf, TipOf
<1>8. ASSUME NEW i \in Items
      PROVE  /\ UnitsOf(RefundsOf(new.payment), i)'
                   = UnitsOf(RefundsOf(new.payment), i) + new.units[i]
             /\ CentsOf(RefundsOf(new.payment), i)'
                   = CentsOf(RefundsOf(new.payment), i) + new.cents[i]
  BY <1>2, <1>4, <1>5, <1>8 DEF UnitsOf, CentsOf
<1> QED
  BY <1>2, <1>6, <1>7, <1>8 DEF AlreadyReturned

\* The sums of the refunds of the other payments stay.
LEMMA RowApart ==
  ASSUME TypeOK, NEW r, NEW new, Records(r, new), NEW p \in Payments, p # new.payment
  PROVE  /\ RefundsOf(p)' = RefundsOf(p)
         /\ SaleOf(RefundsOf(p))' = SaleOf(RefundsOf(p)) /\ TipOf(RefundsOf(p))' = TipOf(RefundsOf(p))
         /\ \A i \in Items :
              /\ AlreadyReturned(p, i)' = AlreadyReturned(p, i)
              /\ CentsOf(RefundsOf(p), i)' = CentsOf(RefundsOf(p), i)
<1> DEFINE S == RefundsOf(p)
<1>1. /\ r \in Refunds /\ r \notin S /\ row \in [Refunds -> RowType]
      /\ \A q \in Refunds \ {r} : row'[q] = row[q]
  BY RefundsAssumption DEF Records, RowType, TypeOK, Rows, RefundsOf
<1>2. S' = S
  BY <1>1 DEF Records, RefundsOf
<1>3. IsFiniteSet(S) /\ S \subseteq Refunds \ {r}
  BY <1>1, RefundsAssumption, FS_Subset DEF RefundsOf
<1> HIDE DEF S
<1>4. SaleOf(S)' = SaleOf(S) /\ TipOf(S)' = TipOf(S)
  <2>1. SaleOf(S)' = SaleOf(S)
    <3> DEFINE f == [q \in Refunds |-> row[q].sale]
               g == [q \in Refunds |-> row'[q].sale]
    <3>1. Summable(f, S) /\ \A q \in S : f[q] = g[q]
      BY <1>1, <1>3 DEF Summable, RowType
    <3> HIDE DEF f, g
    <3>2. SumFunctionOnSet(f, S) = SumFunctionOnSet(g, S)
      BY <3>1, SumSame
    <3> QED
      BY <1>2, <3>2 DEF SaleOf, f, g
  <2>2. TipOf(S)' = TipOf(S)
    <3> DEFINE f == [q \in Refunds |-> row[q].tip]
               g == [q \in Refunds |-> row'[q].tip]
    <3>1. Summable(f, S) /\ \A q \in S : f[q] = g[q]
      BY <1>1, <1>3 DEF Summable, RowType
    <3> HIDE DEF f, g
    <3>2. SumFunctionOnSet(f, S) = SumFunctionOnSet(g, S)
      BY <3>1, SumSame
    <3> QED
      BY <1>2, <3>2 DEF TipOf, f, g
  <2> QED
    BY <2>1, <2>2
<1>5. ASSUME NEW i \in Items PROVE UnitsOf(S, i)' = UnitsOf(S, i) /\ CentsOf(S, i)' = CentsOf(S, i)
  <2>1. UnitsOf(S, i)' = UnitsOf(S, i)
    <3> DEFINE f == [q \in Refunds |-> row[q].units[i]]
               g == [q \in Refunds |-> row'[q].units[i]]
    <3>1. Summable(f, S) /\ \A q \in S : f[q] = g[q]
      BY <1>1, <1>3 DEF Summable, RowType
    <3> HIDE DEF f, g
    <3>2. SumFunctionOnSet(f, S) = SumFunctionOnSet(g, S)
      BY <3>1, SumSame
    <3> QED
      BY <1>2, <3>2 DEF UnitsOf, f, g
  <2>2. CentsOf(S, i)' = CentsOf(S, i)
    <3> DEFINE f == [q \in Refunds |-> row[q].cents[i]]
               g == [q \in Refunds |-> row'[q].cents[i]]
    <3>1. Summable(f, S) /\ \A q \in S : f[q] = g[q]
      BY <1>1, <1>3 DEF Summable, RowType
    <3> HIDE DEF f, g
    <3>2. SumFunctionOnSet(f, S) = SumFunctionOnSet(g, S)
      BY <3>1, SumSame
    <3> QED
      BY <1>2, <3>2 DEF CentsOf, f, g
  <2> QED
    BY <2>1, <2>2
<1> QED
  BY <1>2, <1>4, <1>5 DEF S, AlreadyReturned

-----------------------------------------------------------------------------
(* What the steps do.                                                       *)

\* A terminal that has read holds a split that fits its payment.
ReadFits ==
  \A r \in Refunds : at[r] = "read" =>
    /\ seen[r].payment \in Payments
    /\ seen[r].sale <= Amount[seen[r].payment] /\ seen[r].tip <= Tip[seen[r].payment]

\* Either side creates a row, and rewrites the processorData of its payment.
Commits(r, new, refunded, listed) ==
  /\ Records(r, new)
  /\ processed' = [processed EXCEPT ![new.payment] =
                     [refunded |-> refunded + (new.sale + new.tip), listed |-> listed \cup {r}]]
  /\ at' = [at EXCEPT ![r] = "committed"]
  /\ restocked' = restocked

\* A terminal commits what it had read, if it fits what is left by now.
TerminalCommits(r, new) ==
  /\ at[r] = "read"
  /\ Commits(r, new, seen[r].refunded, seen[r].listed)
  /\ new.processor = "blumon" /\ new.units = None /\ new.cents = None
  /\ new.payment = seen[r].payment /\ new.sale = seen[r].sale /\ new.tip = seen[r].tip
  /\ new.sale + new.tip <= LockedRemaining(new.payment)
  /\ seen' = [seen EXCEPT ![r] = NoSplit]

\* The back office commits an amount that fits its payment, or units that have not come back.
OfficeCommits(r, new) ==
  /\ at[r] = "new"
  /\ Commits(r, new, AlreadyRefunded(new.payment), processed[new.payment].listed)
  /\ new.processor = "dashboard"
  /\ new.sale + new.tip <= Total(new.payment) - AlreadyRefunded(new.payment)
  /\ \/ /\ new.units = None /\ new.cents = None
        /\ new.sale <= Amount[new.payment] /\ new.tip <= Tip[new.payment]
     \/ /\ new.units # None
        /\ \A i \in Items :
             LET before == AlreadyReturned(new.payment, i)
                 after == before + new.units[i]
             IN  after <= Qty[i] /\ new.cents[i] = LineCents(i, after) - LineCents(i, before)
  /\ seen' = seen

TerminalRefused(r) ==
  /\ at[r] = "read"
  /\ at' = [at EXCEPT ![r] = "refused"]
  /\ seen' = [seen EXCEPT ![r] = NoSplit]
  /\ UNCHANGED <<row, processed, restocked>>

\* A call that has not committed has no row.
LEMMA NotCommitted ==
  ASSUME TypeOK, NEW r \in Refunds, at[r] \in {"new", "read"}
  PROVE  r \notin Rows
BY DEF TypeOK

LEMMA TpvCommitSteps ==
  ASSUME TypeOK, ReadFits, NEW r \in Refunds, TpvCommit(r)
  PROVE  TerminalRefused(r) \/ \E new \in RowType : TerminalCommits(r, new)
<1> DEFINE new == AmountRow(seen[r].payment, seen[r].sale, seen[r].tip, "blumon")
<1>1. CASE seen[r].sale + seen[r].tip <= LockedRemaining(seen[r].payment)
  <2>1. new = [payment |-> seen[r].payment, sale |-> seen[r].sale, tip |-> seen[r].tip,
               units |-> None, cents |-> None, processor |-> "blumon"]
    BY DEF AmountRow
  <2>2. seen[r].payment \in Payments /\ seen[r].sale \in Nat /\ seen[r].tip \in Nat
    BY DEF TypeOK, ReadFits, TpvCommit
  <2>3. new \in RowType
    BY <2>1, <2>2 DEF RowType, None
  <2>4. Records(r, new)
    BY <1>1, <2>1, <2>2, <2>3, NotCommitted DEF Records, TpvCommit
  <2> HIDE DEF new
  <2>5. TerminalCommits(r, new)
    BY <1>1, <2>1, <2>4 DEF TerminalCommits, Commits, TpvCommit
  <2> QED
    BY <2>3, <2>5
<1>2. CASE ~(seen[r].sale + seen[r].tip <= LockedRemaining(seen[r].payment))
  BY <1>2 DEF TpvCommit, TerminalRefused
<1> QED
  BY <1>1, <1>2

LEMMA IssueAmountSteps ==
  ASSUME TypeOK, NEW r \in Refunds, NEW p \in Payments, NEW cents \in Nat,
         NEW tip \in Nat \cup {Proportional}, IssueAmount(r, p, cents, tip)
  PROVE  \E new \in RowType : OfficeCommits(r, new)
<1>1. PICK split \in Splits(p, cents, tip) :
        Issue(r, p, AmountRow(p, split.sale, split.tip, "dashboard"))
  BY DEF IssueAmount
<1> DEFINE new == [payment |-> p, sale |-> split.sale, tip |-> split.tip, units |-> None,
                   cents |-> None, processor |-> "dashboard"]
<1>2. Issue(r, p, new)
  BY <1>1 DEF AmountRow
<1>3. /\ split.sale \in Int /\ split.tip \in Nat /\ split.sale + split.tip = cents
      /\ cents <= Total(p) => split.sale \in Nat /\ split.sale <= Amount[p] /\ split.tip <= Tip[p]
  BY SplitParts
<1>4. AlreadyRefunded(p) \in Nat /\ Total(p) \in Nat
  BY SumsAreNat, RefundsAssumption DEF AlreadyRefunded, RefundsOf, Total
<1>5. cents <= Total(p) - AlreadyRefunded(p)
  BY <1>2, <1>3 DEF Issue
<1>6. split.sale \in Nat /\ split.sale <= Amount[p] /\ split.tip <= Tip[p]
  BY <1>3, <1>4, <1>5
<1>7. new \in RowType
  BY <1>3, <1>6 DEF RowType, None
<1>8. at[r] = "new"
  BY DEF IssueAmount
<1>9. Records(r, new)
  BY <1>2, <1>7, <1>8, NotCommitted DEF Records, Issue
<1>10. OfficeCommits(r, new)
  BY <1>2, <1>3, <1>5, <1>6, <1>8, <1>9 DEF OfficeCommits, Commits, Issue
<1> QED
  BY <1>7, <1>10

LEMMA IssueItemsSteps ==
  ASSUME TypeOK, NEW r \in Refunds, NEW p \in Payments, NEW units \in [Items -> Nat],
         NEW named \in BOOLEAN, IssueItems(r, p, units, named)
  PROVE  \E new \in RowType : OfficeCommits(r, new)
<1> DEFINE cents == [i \in Items |->
                       UnitRefundCents(LineTotal[i], Qty[i], AlreadyReturned(p, i), units[i])]
           all == SumFunctionOnSet(cents, Items)
           excess == IF named THEN 0 ELSE Max({0, all - Amount[p]})
           new == [payment |-> p, sale |-> all - excess, tip |-> excess, units |-> units,
                   cents |-> cents, processor |-> "dashboard"]
<1>1. at[r] = "new" /\ Issue(r, p, new) /\ \A i \in Items : AlreadyReturned(p, i) + units[i] <= Qty[i]
  BY DEF IssueItems
<1>2. ASSUME NEW i \in Items
      PROVE  /\ AlreadyReturned(p, i) \in Nat /\ units[i] \in Nat /\ cents[i] \in Nat
             /\ cents[i] = LineCents(i, AlreadyReturned(p, i) + units[i])
                             - LineCents(i, AlreadyReturned(p, i))
             /\ units[i] = 0 => cents[i] = 0
  <2> DEFINE b == AlreadyReturned(p, i)
             m == units[i]
  <2>1. b \in Nat /\ m \in Nat
    BY SumsAreNat DEF AlreadyReturned, RefundsOf
  <2> HIDE DEF b, m
  <2>2. /\ LineCents(i, b) \in Nat /\ LineCents(i, b + m) \in Nat
        /\ LineCents(i, b) <= LineCents(i, b + m)
        /\ UnitRefundCents(LineTotal[i], Qty[i], b, m) = LineCents(i, b + m) - LineCents(i, b)
    BY <2>1, LineCentsType
  <2>3. m = 0 => LineCents(i, b + m) = LineCents(i, b)
    BY <2>1
  <2>4. cents[i] = UnitRefundCents(LineTotal[i], Qty[i], b, m)
    BY DEF b, m
  <2> HIDE DEF cents
  <2> QED
    BY <2>1, <2>2, <2>3, <2>4 DEF b, m
<1> HIDE DEF cents
<1>3. cents \in [Items -> Nat]
  BY <1>2 DEF cents
<1>4. all \in Nat
  BY <1>3, RefundsAssumption, SumType DEF Summable
<1>5. units = None => all = 0
  BY <1>2, RefundsAssumption, SumZero DEF None
<1> HIDE DEF all
<1>6. excess \in Nat /\ excess <= all
  BY <1>4, RefundsAssumption, MaxOfTwo
<1> HIDE DEF excess
<1>7. new \in RowType
  BY <1>3, <1>4, <1>6 DEF RowType
<1>8. Records(r, new)
  BY <1>1, <1>7, NotCommitted DEF Records, Issue
<1>9. (all - excess) + excess = all
  BY <1>4, <1>6
<1>10. units # None
  BY <1>1, <1>5, <1>9 DEF Issue
<1>11. OfficeCommits(r, new)
  BY <1>1, <1>2, <1>8, <1>10 DEF OfficeCommits, Commits, Issue
<1> QED
  BY <1>7, <1>11

\* Every step of the program is one of these.
StepOf(r) ==
  \/ \E p \in Payments, cents \in Asked, tip \in Asked \cup {0, Proportional} :
       TpvRead(r, p, cents, tip)
  \/ TerminalRefused(r)
  \/ \E new \in RowType : TerminalCommits(r, new) \/ OfficeCommits(r, new)
  \/ TpvRestock(r) \/ DashboardRestock(r) \/ Stop(r)

LEMMA Steps ==
  ASSUME TypeOK, ReadFits, [Next]_vars
  PROVE  UNCHANGED vars \/ \E r \in Refunds : StepOf(r)
<1>1. ASSUME NEW r \in Refunds, TpvCommit(r) PROVE StepOf(r)
  BY <1>1, TpvCommitSteps DEF StepOf
<1>2. ASSUME NEW r \in Refunds, NEW p \in Payments, NEW cents \in Asked,
             NEW tip \in Asked \cup {0, Proportional}, IssueAmount(r, p, cents, tip)
      PROVE  StepOf(r)
  <2>1. cents \in Nat /\ tip \in Nat \cup {Proportional}
    BY RefundsAssumption
  <2> QED
    BY <1>2, <2>1, IssueAmountSteps DEF StepOf
<1>3. ASSUME NEW r \in Refunds, NEW p \in Payments, NEW units \in Returns, NEW named \in BOOLEAN,
             IssueItems(r, p, units, named)
      PROVE  StepOf(r)
  <2>1. units \in [Items -> Nat]
    BY RefundsAssumption DEF Returns
  <2> QED
    BY <1>3, <2>1, IssueItemsSteps DEF StepOf
<1> QED
  BY <1>1, <1>2, <1>3 DEF Next, StepOf

-----------------------------------------------------------------------------
(* Types.                                                                   *)

SeenType == [payment : Payments \cup {NoPayment}, sale : Nat, tip : Nat, refunded : Nat,
             listed : SUBSET Refunds]

LEMMA NoSplitType == NoSplit \in SeenType
BY DEF NoSplit, SeenType

LEMMA CommitTypes ==
  ASSUME TypeOK, NEW r, NEW new, NEW refunded \in Nat, NEW listed \in SUBSET Refunds,
         Commits(r, new, refunded, listed), seen' \in {seen, [seen EXCEPT ![r] = NoSplit]}
  PROVE  TypeOK'
<1>1. new \in RowType /\ r \in Refunds /\ new.payment \in Payments
  BY DEF Commits, Records
<1>2. row' \in [Refunds -> RowType]
  BY <1>1 DEF Commits, Records, TypeOK, RowType
<1>3. new.sale + new.tip \in Nat
  BY <1>1 DEF RowType
<1>4. processed' \in [Payments -> [refunded : Nat, listed : SUBSET Refunds]]
  BY <1>1, <1>3 DEF Commits, TypeOK
<1>5. Rows' = Rows \cup {r}
  BY RowJoins DEF Commits
<1>6. /\ at' \in [Refunds -> {"new", "read", "committed", "restocked", "done", "refused", "stopped"}]
      /\ restocked' \in [Refunds -> [Items -> Nat]]
  BY <1>1 DEF Commits, TypeOK
<1>7. seen' \in [Refunds -> SeenType]
  BY NoSplitType DEF TypeOK, SeenType
<1>8. Rows' = {q \in Refunds : at'[q] \in {"committed", "restocked", "done", "stopped"}}
  BY <1>1, <1>5 DEF Commits, TypeOK
<1> QED
  BY <1>2, <1>4, <1>6, <1>7, <1>8 DEF TypeOK, RowType, SeenType

LEMMA TypeStep ==
  ASSUME TypeOK, ReadFits, [Next]_vars
  PROVE  (TypeOK /\ ReadFits)'
<1>1. ASSUME NEW r \in Refunds, NEW p \in Payments, NEW cents \in Asked,
             NEW tip \in Asked \cup {0, Proportional}, TpvRead(r, p, cents, tip)
      PROVE  (TypeOK /\ ReadFits)'
  <2>1. PICK split \in Splits(p, cents, tip) : seen' = [seen EXCEPT ![r] = split]
    BY <1>1 DEF TpvRead
  <2>2. cents \in Nat /\ tip \in Nat \cup {Proportional}
    BY RefundsAssumption
  <2>3. cents <= Total(p)
    BY <1>1, <2>2, RefundsAssumption DEF TpvRead, Total, TypeOK
  <2>4. /\ split \in SeenType /\ split.payment = p
        /\ split.sale <= Amount[p] /\ split.tip <= Tip[p]
    <3>1. /\ split.payment = p /\ split.refunded = processed[p].refunded
          /\ split.listed = processed[p].listed
          /\ split.sale \in Nat /\ split.tip \in Nat
          /\ split.sale <= Amount[p] /\ split.tip <= Tip[p]
      BY <2>2, <2>3, SplitParts
    <3>2. split = [payment |-> split.payment, sale |-> split.sale, tip |-> split.tip,
                   refunded |-> split.refunded, listed |-> split.listed]
      BY DEF Splits
    <3>3. processed[p].refunded \in Nat /\ processed[p].listed \in SUBSET Refunds
      BY DEF TypeOK
    <3>4. split \in SeenType
      BY <3>1, <3>2, <3>3 DEF SeenType
    <3> QED
      BY <3>1, <3>4
  <2>5. seen' \in [Refunds -> SeenType] /\ seen'[r] = split
    BY <2>1, <2>4 DEF TypeOK, SeenType
  <2>6. at' = [at EXCEPT ![r] = "read"] /\ at[r] = "new" /\ UNCHANGED <<row, processed, restocked>>
    BY <1>1 DEF TpvRead
  <2>7. Rows' = Rows
    BY <2>6 DEF Rows
  <2>8. TypeOK'
    BY <2>5, <2>6, <2>7 DEF TypeOK, SeenType
  <2>9. ReadFits'
    BY <2>1, <2>4, <2>5, <2>6 DEF ReadFits, TypeOK
  <2> QED
    BY <2>8, <2>9
<1>2. ASSUME NEW r \in Refunds, TerminalRefused(r) PROVE (TypeOK /\ ReadFits)'
  <2>1. Rows' = Rows
    BY <1>2 DEF TerminalRefused, Rows
  <2>2. seen' \in [Refunds -> SeenType]
    BY <1>2, NoSplitType DEF TerminalRefused, TypeOK, SeenType
  <2> QED
    BY <1>2, <2>1, <2>2 DEF TerminalRefused, TypeOK, ReadFits, SeenType
<1>3. ASSUME NEW r \in Refunds, NEW new \in RowType, TerminalCommits(r, new)
      PROVE  (TypeOK /\ ReadFits)'
  <2>1. seen[r].refunded \in Nat /\ seen[r].listed \in SUBSET Refunds
    BY DEF TypeOK
  <2>2. TypeOK'
    BY <1>3, <2>1, CommitTypes DEF TerminalCommits
  <2>3. ReadFits'
    BY <1>3 DEF TerminalCommits, Commits, ReadFits, TypeOK
  <2> QED
    BY <2>2, <2>3
<1>4. ASSUME NEW r \in Refunds, NEW new \in RowType, OfficeCommits(r, new)
      PROVE  (TypeOK /\ ReadFits)'
  <2>1. new.payment \in Payments
    BY <1>4 DEF OfficeCommits, Commits, Records
  <2>2. AlreadyRefunded(new.payment) \in Nat /\ processed[new.payment].listed \in SUBSET Refunds
    BY <2>1, SumsAreNat DEF AlreadyRefunded, RefundsOf, TypeOK
  <2>3. TypeOK'
    BY <1>4, <2>2, CommitTypes DEF OfficeCommits
  <2>4. ReadFits'
    BY <1>4 DEF OfficeCommits, Commits, ReadFits, TypeOK
  <2> QED
    BY <2>3, <2>4
<1>5. ASSUME NEW r \in Refunds, TpvRestock(r) PROVE (TypeOK /\ ReadFits)'
  <2>1. /\ UNCHANGED <<row, processed, seen>> /\ at[r] = "committed"
        /\ \/ at' = [at EXCEPT ![r] = "restocked"]
           \/ at' = [at EXCEPT ![r] = "done"]
    BY <1>5 DEF TpvRestock
  <2>2. restocked' \in [Refunds -> [Items -> Nat]]
    <3>1. \A done \in SUBSET Items : [i \in Items |-> IF i \in done THEN Qty[i] ELSE 0] \in [Items -> Nat]
      BY RefundsAssumption
    <3>2. \/ UNCHANGED restocked
          \/ \E back \in [Items -> Nat] : restocked' = [restocked EXCEPT ![r] = back]
      <4>1. CASE Crossed(r)
        <5>1. PICK done \in SUBSET Items :
                restocked' = [restocked EXCEPT ![r] = [i \in Items |-> IF i \in done THEN Qty[i] ELSE 0]]
          BY <1>5, <4>1 DEF TpvRestock
        <5> QED
          BY <3>1, <5>1
      <4>2. CASE ~Crossed(r)
        BY <1>5, <4>2 DEF TpvRestock
      <4> QED
        BY <4>1, <4>2
    <3> QED
      BY <3>2 DEF TypeOK
  <2>3. Rows' = Rows
    BY <2>1 DEF Rows
  <2> QED
    <3>1. TypeOK'
      BY <2>1, <2>2, <2>3 DEF TypeOK
    <3>2. ReadFits'
      BY <2>1 DEF ReadFits, TypeOK
    <3> QED
      BY <3>1, <3>2
<1>6. ASSUME NEW r \in Refunds, DashboardRestock(r) PROVE (TypeOK /\ ReadFits)'
  <2>1. /\ UNCHANGED <<row, processed, seen>> /\ at[r] = "committed"
        /\ at' = [at EXCEPT ![r] = "done"]
    BY <1>6 DEF DashboardRestock
  <2>2. restocked' \in [Refunds -> [Items -> Nat]]
    <3>1. \A done \in SUBSET Items :
            [i \in Items |-> IF i \in done THEN row[r].units[i] ELSE 0] \in [Items -> Nat]
      BY DEF TypeOK
    <3> QED
      BY <1>6, <3>1 DEF DashboardRestock, TypeOK
  <2>3. Rows' = Rows
    BY <2>1 DEF Rows
  <2> QED
    BY <2>1, <2>2, <2>3 DEF TypeOK, ReadFits
<1>7. ASSUME NEW r \in Refunds, Stop(r) PROVE (TypeOK /\ ReadFits)'
  <2>1. Rows' = Rows
    BY <1>7 DEF Stop, Rows
  <2> QED
    BY <1>7, <2>1 DEF Stop, TypeOK, ReadFits
<1>8. CASE UNCHANGED vars
  BY <1>8 DEF vars, TypeOK, ReadFits, Rows
<1> QED
  BY Steps, <1>1, <1>2, <1>3, <1>4, <1>5, <1>6, <1>7, <1>8 DEF StepOf

\* The rows have their types whatever is asked for, wherever a split rounds: no refund has
\* a negative sale or tip.
THEOREM Typing == Spec => [](TypeOK /\ ReadFits)
<1>1. Init => TypeOK /\ ReadFits
  <2> SUFFICES ASSUME Init PROVE TypeOK /\ ReadFits
    OBVIOUS
  <2>1. NoRow \in RowType /\ NoRow.payment = NoPayment
    BY DEF NoRow, AmountRow, RowType, None
  <2>2. Rows = {}
    BY <2>1 DEF Init, Rows
  <2>3. row \in [Refunds -> RowType] /\ seen \in [Refunds -> SeenType]
    BY <2>1, NoSplitType DEF Init
  <2> QED
    BY <2>2, <2>3 DEF Init, TypeOK, ReadFits, RowType, SeenType, None
<1> QED
  BY <1>1, TypeStep, PTL DEF Spec

\* Steps that create no row.
LEMMA NoCommit ==
  ASSUME TypeOK, ReadFits, [Next]_vars
  PROVE  \/ UNCHANGED <<row, processed>>
         \/ \E r \in Refunds : \E new \in RowType : TerminalCommits(r, new) \/ OfficeCommits(r, new)
BY Steps DEF StepOf, TpvRead, TerminalRefused, TpvRestock, DashboardRestock, Stop, vars

-----------------------------------------------------------------------------
(* What is paid back.                                                       *)

\* The lines of a payment have paid back what their units cost, however the calls that
\* returned them split them up.
LinesInv ==
  \A p \in Payments, i \in Items :
    /\ AlreadyReturned(p, i) <= Qty[i]
    /\ CentsOf(RefundsOf(p), i) = LineCents(i, AlreadyReturned(p, i))

LEMMA LinesCommit ==
  ASSUME TypeOK, LinesInv, NEW r \in Refunds, NEW new \in RowType,
         TerminalCommits(r, new) \/ OfficeCommits(r, new)
  PROVE  LinesInv'
<1> SUFFICES ASSUME NEW p \in Payments, NEW i \in Items
             PROVE  /\ AlreadyReturned(p, i)' <= Qty[i]
                    /\ CentsOf(RefundsOf(p), i)' = LineCents(i, AlreadyReturned(p, i)')
  BY DEF LinesInv
<1>1. Records(r, new)
  BY DEF TerminalCommits, OfficeCommits, Commits
<1>2. CASE p # new.payment
  BY <1>1, <1>2, RowApart DEF LinesInv
<1>3. CASE p = new.payment
  <2> DEFINE before == AlreadyReturned(p, i)
             after == before + new.units[i]
  <2>1. /\ before \in Nat /\ CentsOf(RefundsOf(p), i) \in Nat
        /\ new.units[i] \in Nat /\ new.cents[i] \in Nat
    BY SumsAreNat DEF AlreadyReturned, RefundsOf, RowType
  <2>2. /\ AlreadyReturned(p, i)' = after
        /\ CentsOf(RefundsOf(p), i)' = CentsOf(RefundsOf(p), i) + new.cents[i]
    BY <1>1, <1>3, RowJoins
  <2>3. CentsOf(RefundsOf(p), i) = LineCents(i, before) /\ before <= Qty[i]
    BY DEF LinesInv
  <2>4. CASE new.units = None /\ new.cents = None
    <3>1. after = before /\ CentsOf(RefundsOf(p), i)' = CentsOf(RefundsOf(p), i)
      BY <2>1, <2>2, <2>4 DEF None
    <3> QED
      BY <2>2, <2>3, <3>1
  <2>5. CASE after <= Qty[i] /\ new.cents[i] = LineCents(i, after) - LineCents(i, before)
    <3>0. before \in Nat /\ after \in Nat
      BY <2>1
    <3> HIDE DEF before, after
    <3>1. LineCents(i, before) \in Nat /\ LineCents(i, after) \in Nat
      BY <3>0, LineCentsType
    <3>2. CentsOf(RefundsOf(p), i)' = LineCents(i, after)
      BY <2>2, <2>3, <2>5, <3>1
    <3> QED
      BY <2>2, <2>5, <3>2
  <2> QED
    BY <1>3, <2>4, <2>5 DEF TerminalCommits, OfficeCommits
<1> QED
  BY <1>2, <1>3

LEMMA SplitFitsCommit ==
  ASSUME TypeOK, ReadFits, SplitFits, NEW r \in Refunds, NEW new \in RowType,
         TerminalCommits(r, new) \/ OfficeCommits(r, new)
  PROVE  SplitFits'
<1>1. /\ Records(r, new) /\ row' = [row EXCEPT ![r] = new]
  BY DEF TerminalCommits, OfficeCommits, Commits, Records
<1>2. Rows' = Rows \cup {r}
  BY <1>1, RowJoins
<1>3. row \in [Refunds -> RowType] /\ Rows \subseteq Refunds
  BY DEF TypeOK, RowType, Rows
<1>4. new.units = None => new.sale <= Amount[new.payment] /\ new.tip <= Tip[new.payment]
  BY DEF TerminalCommits, OfficeCommits, ReadFits
<1> QED
  BY <1>1, <1>2, <1>3, <1>4 DEF SplitFits, RowType

\* Whatever is asked for, by whom and in what order, no refund takes more from the sale or
\* the tip of its payment than each was, and the units of a line pay back what it cost.
THEOREM PaidBackExactly == Spec => []PaysBackExactly
<1>1. Init => SplitFits /\ LinesInv
  <2> SUFFICES ASSUME Init PROVE SplitFits /\ LinesInv
    OBVIOUS
  <2>1. \A r \in Refunds : row[r].payment = NoPayment
    BY DEF Init, NoRow, AmountRow
  <2>2. Rows = {} /\ \A p \in Payments : RefundsOf(p) = {}
    BY <2>1, RefundsAssumption DEF Rows, RefundsOf
  <2>3. \A p \in Payments, i \in Items : AlreadyReturned(p, i) = 0 /\ CentsOf(RefundsOf(p), i) = 0
    BY <2>2, SumEmpty DEF AlreadyReturned, UnitsOf, CentsOf
  <2>4. \A i \in Items : LineCents(i, 0) = 0
    BY LineCentsType
  <2> QED
    BY <2>2, <2>3, <2>4, RefundsAssumption DEF SplitFits, LinesInv
<1>2. TypeOK /\ ReadFits /\ SplitFits /\ LinesInv /\ [Next]_vars => (SplitFits /\ LinesInv)'
  <2> SUFFICES ASSUME TypeOK, ReadFits, SplitFits, LinesInv, [Next]_vars
               PROVE  (SplitFits /\ LinesInv)'
    OBVIOUS
  <2>1. CASE UNCHANGED row
    BY <2>1 DEF SplitFits, LinesInv, Rows, AlreadyReturned, UnitsOf, CentsOf, RefundsOf
  <2> QED
    BY <2>1, NoCommit, LinesCommit, SplitFitsCommit
<1>3. SplitFits /\ LinesInv => PaysBackExactly
  BY LineCentsType, RefundsAssumption DEF PaysBackExactly, LinesInv, LinesAreExact
<1> QED
  BY <1>1, <1>2, <1>3, Typing, PTL DEF Spec

-----------------------------------------------------------------------------
(* What each side counts.                                                   *)

\* Sale and tip of the refunds of a payment.
Refunded(p) == SaleOf(RefundsOf(p)) + TipOf(RefundsOf(p))

\* The processorData, and what a terminal has read of them, claim nothing that no row refunds.
ClaimsInv ==
  /\ \A p \in Payments :
       processed[p].refunded <= Refunded(p) /\ processed[p].listed \subseteq RefundsOf(p)
  /\ \A r \in Refunds, p \in Payments : at[r] = "read" /\ seen[r].payment = p =>
       seen[r].refunded <= Refunded(p) /\ seen[r].listed \subseteq RefundsOf(p)

LEMMA CommitRefunds ==
  ASSUME TypeOK, NEW r, NEW new, Records(r, new), NEW p \in Payments
  PROVE  /\ Refunded(p) \in Nat
         /\ RefundsOf(p)' = IF p = new.payment THEN RefundsOf(p) \cup {r} ELSE RefundsOf(p)
         /\ Refunded(p)' = Refunded(p) + (IF p = new.payment THEN new.sale + new.tip ELSE 0)
         /\ new.sale + new.tip \in Nat
<1>1. /\ SaleOf(RefundsOf(p)) \in Nat /\ TipOf(RefundsOf(p)) \in Nat
      /\ new.sale \in Nat /\ new.tip \in Nat
  BY SumsAreNat DEF RefundsOf, Records, RowType
<1>2. CASE p = new.payment
  <2>1. /\ SaleOf(RefundsOf(p))' = SaleOf(RefundsOf(p)) + new.sale
        /\ TipOf(RefundsOf(p))' = TipOf(RefundsOf(p)) + new.tip
        /\ RefundsOf(p)' = RefundsOf(p) \cup {r}
    BY <1>2, RowJoins
  <2>2. Refunded(p)' = Refunded(p) + (new.sale + new.tip)
    BY <1>1, <2>1 DEF Refunded
  <2> QED
    BY <1>1, <1>2, <2>1, <2>2 DEF Refunded
<1>3. CASE p # new.payment
  <2>1. /\ SaleOf(RefundsOf(p))' = SaleOf(RefundsOf(p))
        /\ TipOf(RefundsOf(p))' = TipOf(RefundsOf(p))
        /\ RefundsOf(p)' = RefundsOf(p)
    BY <1>3, RowApart
  <2> QED
    BY <1>1, <1>3, <2>1 DEF Refunded
<1> QED
  BY <1>2, <1>3

LEMMA ClaimsCommit ==
  ASSUME TypeOK, ReadFits, ClaimsInv, NEW r \in Refunds, NEW new \in RowType,
         TerminalCommits(r, new) \/ OfficeCommits(r, new)
  PROVE  ClaimsInv'
<1>1. Records(r, new) /\ new.payment \in Payments /\ at' = [at EXCEPT ![r] = "committed"]
  BY DEF TerminalCommits, OfficeCommits, Commits, Records
<1> DEFINE cents == new.sale + new.tip
<1>2. /\ cents \in Nat
      /\ \A p \in Payments :
           /\ Refunded(p) \in Nat /\ RefundsOf(p) \subseteq RefundsOf(p)'
           /\ Refunded(p)' = Refunded(p) + (IF p = new.payment THEN cents ELSE 0)
      /\ RefundsOf(new.payment)' = RefundsOf(new.payment) \cup {r}
  BY <1>1, CommitRefunds
<1>3. PICK refunded \in Nat, listed \in SUBSET Refunds :
        /\ processed' = [processed EXCEPT ![new.payment] =
                           [refunded |-> refunded + cents, listed |-> listed \cup {r}]]
        /\ refunded <= Refunded(new.payment) /\ listed \subseteq RefundsOf(new.payment)
  <2>1. CASE TerminalCommits(r, new)
    <3>1. at[r] = "read" /\ seen[r].payment = new.payment
      BY <2>1 DEF TerminalCommits
    <3>2. seen[r].refunded \in Nat /\ seen[r].listed \in SUBSET Refunds
      BY DEF TypeOK
    <3>3. seen[r].refunded <= Refunded(new.payment) /\ seen[r].listed \subseteq RefundsOf(new.payment)
      BY <1>1, <3>1 DEF ClaimsInv
    <3> QED
      BY <2>1, <3>2, <3>3 DEF TerminalCommits, Commits
  <2>2. CASE OfficeCommits(r, new)
    <3>1. /\ SaleOf(RefundsOf(new.payment)) \in Nat /\ TipOf(RefundsOf(new.payment)) \in Nat
      BY SumsAreNat DEF RefundsOf
    <3>2. /\ AlreadyRefunded(new.payment) \in Nat
          /\ AlreadyRefunded(new.payment) <= Refunded(new.payment)
      BY <3>1 DEF AlreadyRefunded, Refunded
    <3>3. /\ processed[new.payment].listed \in SUBSET Refunds
          /\ processed[new.payment].listed \subseteq RefundsOf(new.payment)
      BY <1>1 DEF ClaimsInv, TypeOK
    <3> QED
      BY <2>2, <3>2, <3>3 DEF OfficeCommits, Commits
  <2> QED
    BY <2>1, <2>2
<1>4. /\ refunded + cents <= Refunded(new.payment)'
      /\ listed \cup {r} \subseteq RefundsOf(new.payment)'
  <2> HIDE DEF cents
  <2> QED
    BY <1>1, <1>2, <1>3
<1>5. ASSUME NEW p \in Payments
      PROVE  processed'[p].refunded <= Refunded(p)' /\ processed'[p].listed \subseteq RefundsOf(p)'
  <2> HIDE DEF cents
  <2>1. CASE p = new.payment
    BY <1>3, <1>4, <2>1 DEF TypeOK
  <2>2. CASE p # new.payment
    BY <1>2, <1>3, <2>2 DEF TypeOK, ClaimsInv
  <2> QED
    BY <2>1, <2>2
<1>6. ASSUME NEW q \in Refunds, NEW p \in Payments, at'[q] = "read", seen'[q].payment = p
      PROVE  seen'[q].refunded <= Refunded(p)' /\ seen'[q].listed \subseteq RefundsOf(p)'
  <2>1. q # r /\ at[q] = "read" /\ seen'[q] = seen[q]
    BY <1>1, <1>6 DEF TypeOK, TerminalCommits, OfficeCommits
  <2>2. seen[q].refunded \in Nat /\ seen[q].refunded <= Refunded(p)
    BY <1>6, <2>1 DEF ClaimsInv, TypeOK
  <2>3. seen[q].listed \subseteq RefundsOf(p)
    BY <1>6, <2>1 DEF ClaimsInv
  <2> HIDE DEF cents
  <2> QED
    BY <1>2, <2>1, <2>2, <2>3
<1> QED
  BY <1>5, <1>6 DEF ClaimsInv

LEMMA ClaimsStep ==
  ASSUME TypeOK, ReadFits, ClaimsInv, [Next]_vars
  PROVE  ClaimsInv'
<1>1. CASE UNCHANGED <<row, processed>>
  <2>1. \A p \in Payments : RefundsOf(p)' = RefundsOf(p) /\ Refunded(p)' = Refunded(p)
    BY <1>1 DEF RefundsOf, Refunded, SaleOf, TipOf
  <2>2. ASSUME NEW q \in Refunds, at'[q] = "read"
        PROVE  \/ at[q] = "read" /\ seen'[q] = seen[q]
               \/ \E p \in Payments : /\ seen'[q].payment = p
                                     /\ seen'[q].refunded = processed[p].refunded
                                     /\ seen'[q].listed = processed[p].listed
    <3>1. ASSUME NEW r \in Refunds, NEW p \in Payments, NEW cents \in Asked,
                 NEW tip \in Asked \cup {0, Proportional}, TpvRead(r, p, cents, tip)
          PROVE  IF q = r
                 THEN /\ seen'[q].payment = p
                      /\ seen'[q].refunded = processed[p].refunded
                      /\ seen'[q].listed = processed[p].listed
                 ELSE at[q] = "read" /\ seen'[q] = seen[q]
      <4>1. PICK split \in Splits(p, cents, tip) : seen' = [seen EXCEPT ![r] = split]
        BY <3>1 DEF TpvRead
      <4>2. cents \in Nat /\ tip \in Nat \cup {Proportional}
        BY RefundsAssumption
      <4>3. /\ split.payment = p /\ split.refunded = processed[p].refunded
            /\ split.listed = processed[p].listed
        BY <4>2, SplitParts
      <4>4. at' = [at EXCEPT ![r] = "read"]
        BY <3>1 DEF TpvRead
      <4> QED
        BY <2>2, <4>1, <4>3, <4>4 DEF TypeOK
    <3>2. ASSUME NEW r \in Refunds, NEW new \in RowType, TerminalCommits(r, new) \/ OfficeCommits(r, new)
          PROVE  at[q] = "read" /\ seen'[q] = seen[q]
      BY <2>2, <3>2 DEF TerminalCommits, OfficeCommits, Commits, TypeOK
    <3>3. ASSUME NEW r \in Refunds,
                 TerminalRefused(r) \/ TpvRestock(r) \/ DashboardRestock(r) \/ Stop(r)
          PROVE  at[q] = "read" /\ seen'[q] = seen[q]
      BY <2>2, <3>3 DEF TerminalRefused, TpvRestock, DashboardRestock, Stop, TypeOK
    <3>4. CASE UNCHANGED vars
      BY <2>2, <3>4 DEF vars
    <3> QED
      BY Steps, <3>1, <3>2, <3>3, <3>4 DEF StepOf
  <2>3. ASSUME NEW q \in Refunds, NEW p \in Payments, at'[q] = "read", seen'[q].payment = p
        PROVE  seen'[q].refunded <= Refunded(p)' /\ seen'[q].listed \subseteq RefundsOf(p)'
    BY <2>1, <2>2, <2>3 DEF ClaimsInv
  <2> QED
    BY <1>1, <2>1, <2>3 DEF ClaimsInv
<1> QED
  BY <1>1, NoCommit, ClaimsCommit

-----------------------------------------------------------------------------
(* One terminal and the back office.                                        *)

Terminals(p) == {r \in RefundsOf(p) : row[r].processor = "blumon"}

\* While no terminal has refunded a payment its processorData cover the sale of its refunds,
\* so what the first one finds left under its lock is left.
TerminalInv ==
  \A p \in Payments :
    /\ Tip[p] = 0 /\ Cardinality(Terminals(p)) <= 1 => SaleOf(RefundsOf(p)) <= Amount[p]
    /\ Terminals(p) = {} => SaleOf(RefundsOf(p)) <= processed[p].refunded

\* A terminal that commits is one more; nothing else changes who has refunded.
LEMMA TerminalsOf ==
  ASSUME TypeOK, NEW r \in Refunds, NEW new \in RowType, Records(r, new), NEW p \in Payments
  PROVE  /\ IsFiniteSet(Terminals(p)) /\ r \notin Terminals(p)
         /\ Terminals(p)' = IF p = new.payment /\ new.processor = "blumon"
                            THEN Terminals(p) \cup {r} ELSE Terminals(p)
<1>1. IsFiniteSet(Terminals(p))
  BY RefundsAssumption, FS_Subset DEF Terminals, RefundsOf
<1>2. r \notin RefundsOf(p)
  BY RefundsAssumption DEF Records, Rows, RefundsOf
<1>3. /\ row \in [Refunds -> RowType] /\ row' = [row EXCEPT ![r] = new]
  BY DEF Records, TypeOK, RowType
<1> QED
  BY <1>1, <1>2, <1>3 DEF Terminals, RefundsOf

LEMMA TerminalCommit ==
  ASSUME TypeOK, ReadFits, TerminalInv, NEW r \in Refunds, NEW new \in RowType,
         TerminalCommits(r, new) \/ OfficeCommits(r, new)
  PROVE  TerminalInv'
<1> SUFFICES ASSUME NEW p \in Payments
             PROVE  /\ Tip[p] = 0 /\ Cardinality(Terminals(p)') <= 1
                          => SaleOf(RefundsOf(p))' <= Amount[p]
                    /\ Terminals(p)' = {} => SaleOf(RefundsOf(p))' <= processed'[p].refunded
  BY DEF TerminalInv
<1>1. Records(r, new) /\ new.payment \in Payments
  BY DEF TerminalCommits, OfficeCommits, Commits, Records
<1>2. /\ IsFiniteSet(Terminals(p)) /\ r \notin Terminals(p)
      /\ Terminals(p)' = IF p = new.payment /\ new.processor = "blumon"
                         THEN Terminals(p) \cup {r} ELSE Terminals(p)
  BY <1>1, TerminalsOf
<1>3. CASE p # new.payment
  <2>1. SaleOf(RefundsOf(p))' = SaleOf(RefundsOf(p))
    BY <1>1, <1>3, RowApart
  <2>2. processed'[p] = processed[p]
    BY <1>1, <1>3 DEF TerminalCommits, OfficeCommits, Commits, TypeOK
  <2> QED
    BY <1>2, <1>3, <2>1, <2>2 DEF TerminalInv
<1>4. CASE p = new.payment
  <2> DEFINE S == SaleOf(RefundsOf(p))
             cents == new.sale + new.tip
  <2>1. /\ S \in Nat /\ new.sale \in Nat /\ new.tip \in Nat /\ processed[p].refunded \in Nat
        /\ Amount[p] \in Nat /\ Tip[p] \in Nat /\ Total(p) = Amount[p] + Tip[p]
    BY SumsAreNat, RefundsAssumption DEF RefundsOf, RowType, TypeOK, Total
  <2>2. SaleOf(RefundsOf(p))' = S + new.sale
    BY <1>1, <1>4, RowJoins
  <2>3. CASE TerminalCommits(r, new)
    <3>1. Terminals(p)' = Terminals(p) \cup {r}
      BY <1>2, <1>4, <2>3 DEF TerminalCommits
    <3>2. Cardinality(Terminals(p)') = Cardinality(Terminals(p)) + 1
      BY <1>2, <3>1, FS_AddElement
    <3>3. Cardinality(Terminals(p)) \in Nat
      BY <1>2, FS_CardinalityType
    <3>4. Cardinality(Terminals(p)') <= 1 => Terminals(p) = {}
      BY <1>2, <3>2, <3>3, FS_EmptySet
    <3>5. Terminals(p) = {} => S <= processed[p].refunded
      BY DEF TerminalInv
    <3>6. cents <= Total(p) - processed[p].refunded
      BY <1>4, <2>3 DEF TerminalCommits, LockedRemaining
    <3> HIDE DEF S
    <3>7. Terminals(p) = {} /\ Tip[p] = 0 => S + new.sale <= Amount[p]
      BY <2>1, <3>5, <3>6
    <3> QED
      BY <2>2, <3>1, <3>4, <3>7
  <2>4. CASE OfficeCommits(r, new)
    <3>1. Terminals(p)' = Terminals(p)
      BY <1>2, <2>4 DEF OfficeCommits
    <3>2. cents <= Total(p) - S
      BY <1>4, <2>4 DEF OfficeCommits, AlreadyRefunded
    <3>3. processed'[p].refunded = S + cents
      BY <1>1, <1>4, <2>4 DEF OfficeCommits, Commits, AlreadyRefunded, TypeOK
    <3> HIDE DEF S
    <3>4. Tip[p] = 0 => S + new.sale <= Amount[p]
      BY <2>1, <3>2
    <3>5. S + new.sale <= S + cents
      BY <2>1
    <3> QED
      BY <2>2, <3>3, <3>4, <3>5
  <2> QED
    BY <2>3, <2>4
<1> QED
  BY <1>3, <1>4

\* No lost update lets the original claim a refund that was not made, nor one terminal and
\* any number of calls of the back office pay back more than a payment without a tip.
THEOREM TotalsOfBothSides == Spec => []TotalsAgree
<1>1. Init => ClaimsInv /\ TerminalInv
  <2> SUFFICES ASSUME Init PROVE ClaimsInv /\ TerminalInv
    OBVIOUS
  <2>1. \A r \in Refunds : row[r].payment = NoPayment
    BY DEF Init, NoRow, AmountRow
  <2>2. \A p \in Payments : RefundsOf(p) = {}
    BY <2>1, RefundsAssumption DEF RefundsOf
  <2>3. \A p \in Payments : SaleOf(RefundsOf(p)) = 0 /\ TipOf(RefundsOf(p)) = 0
    BY <2>2, SumEmpty DEF SaleOf, TipOf
  <2> QED
    BY <2>2, <2>3, RefundsAssumption DEF Init, ClaimsInv, TerminalInv, Refunded
<1>2. TypeOK /\ ReadFits /\ ClaimsInv /\ TerminalInv /\ [Next]_vars => (ClaimsInv /\ TerminalInv)'
  <2> SUFFICES ASSUME TypeOK, ReadFits, ClaimsInv, TerminalInv, [Next]_vars
               PROVE  (ClaimsInv /\ TerminalInv)'
    OBVIOUS
  <2>1. CASE UNCHANGED <<row, processed>>
    BY <2>1, ClaimsStep DEF TerminalInv, Terminals, RefundsOf, SaleOf
  <2> QED
    BY <2>1, NoCommit, ClaimsStep, TerminalCommit
<1>3. ClaimsInv /\ TerminalInv => TotalsAgree
  BY DEF ClaimsInv, TerminalInv, TotalsAgree, NeverOverstated, OneTerminalFits, Refunded, Terminals
<1> QED
  BY <1>1, <1>2, <1>3, Typing, PTL DEF Spec

-----------------------------------------------------------------------------
(* The stock of an order that was refunded.                                 *)

\* Terminals have refunded all of the order, in refunds larger than what is let go, and all
\* of them are still alive.
Reversed ==
  /\ \A r \in Rows : /\ row[r].processor = "blumon" /\ row[r].sale > 1
                     /\ at[r] \in {"committed", "restocked", "done"}
  /\ SaleOf(Rows) = OrderTotal /\ OrderTotal > 0

\* One of them has returned the stock, or has yet to sum: the last one to sum sees all the
\* rows, and that it was not needed to reach the total would make it a refund of a cent.
ReversedInv == Reversed => \E r \in Rows : at[r] \in {"committed", "restocked"}

LEMMA ReversedStep ==
  ASSUME TypeOK, ReadFits, ReversedInv, [Next]_vars
  PROVE  ReversedInv'
<1>1. ASSUME NEW r \in Refunds, NEW new \in RowType, TerminalCommits(r, new) \/ OfficeCommits(r, new)
      PROVE  ReversedInv'
  <2>1. Records(r, new) /\ at'[r] = "committed"
    BY <1>1 DEF TerminalCommits, OfficeCommits, Commits, TypeOK
  <2>2. r \in Rows'
    BY <2>1, RowJoins
  <2> QED
    BY <2>1, <2>2 DEF ReversedInv
<1>2. ASSUME NEW r \in Refunds, TpvRestock(r) PROVE ReversedInv'
  <2> SUFFICES ASSUME Reversed' PROVE \E q \in Rows' : at'[q] \in {"committed", "restocked"}
    BY DEF ReversedInv
  <2>1. row' = row /\ Rows' = Rows /\ SaleOf(Rows)' = SaleOf(Rows) /\ r \in Rows
    BY <1>2 DEF TpvRestock, Rows, SaleOf, TypeOK
  <2>2. SaleOf(Rows) = OrderTotal /\ OrderTotal > 0 /\ row[r].sale > 1
    BY <2>1 DEF Reversed
  <2>3. OrderTotal \in Nat /\ row[r].sale \in Nat
    BY RefundsAssumption DEF TypeOK
  <2>4. Crossed(r)
    BY <2>2, <2>3 DEF Crossed
  <2>5. at'[r] = "restocked"
    BY <1>2, <2>4 DEF TpvRestock, TypeOK
  <2> QED
    BY <2>1, <2>5
<1>3. ASSUME NEW r \in Refunds, DashboardRestock(r) \/ Stop(r) PROVE ReversedInv'
  <2>1. row' = row /\ Rows' = Rows /\ r \in Rows
    BY <1>3 DEF DashboardRestock, Stop, Rows, TypeOK
  <2>2. row'[r].processor = "dashboard" \/ at'[r] = "stopped"
    BY <1>3 DEF DashboardRestock, Stop, TypeOK
  <2>3. ~Reversed'
    BY <2>1, <2>2 DEF Reversed
  <2> QED
    BY <2>3 DEF ReversedInv
<1>4. ASSUME NEW r \in Refunds,
             \/ TerminalRefused(r)
             \/ \E p \in Payments, cents \in Asked, tip \in Asked \cup {0, Proportional} :
                  TpvRead(r, p, cents, tip)
      PROVE  ReversedInv'
  <2>1. /\ row' = row /\ at[r] \in {"new", "read"}
        /\ at' = [at EXCEPT ![r] = "refused"] \/ at' = [at EXCEPT ![r] = "read"]
    BY <1>4 DEF TpvRead, TerminalRefused
  <2>2. Rows' = Rows /\ SaleOf(Rows)' = SaleOf(Rows)
    BY <2>1 DEF Rows, SaleOf
  <2>3. \A q \in Rows : at'[q] = at[q]
    BY <2>1 DEF TypeOK
  <2>4. Reversed' => Reversed
    BY <2>1, <2>2, <2>3 DEF Reversed
  <2> QED
    BY <2>2, <2>3, <2>4 DEF ReversedInv
<1>5. CASE UNCHANGED vars
  BY <1>5 DEF vars, ReversedInv, Reversed, Rows, SaleOf
<1> QED
  BY Steps, <1>1, <1>2, <1>3, <1>4, <1>5 DEF StepOf

\* Any number of terminals, in any order: when they have refunded the order to its total
\* and none has died, one of them has returned the stock.
THEOREM ReversedOrdersRestock == Spec => []ReversedIsRestocked
<1>1. Init => ReversedInv
  <2> SUFFICES ASSUME Init PROVE ReversedInv
    OBVIOUS
  <2>1. Rows = {}
    BY DEF Init, Rows, NoRow, AmountRow
  <2>2. SaleOf(Rows) = 0
    BY <2>1, SumEmpty DEF SaleOf
  <2> QED
    BY <2>2 DEF ReversedInv, Reversed
<1>2. ReversedInv => ReversedIsRestocked
  BY DEF ReversedInv, Reversed, ReversedIsRestocked
<1> QED
  BY <1>1, <1>2, ReversedStep, Typing, PTL DEF Spec
=============================================================================
