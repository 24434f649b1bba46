----------------------- MODULE InterVenueTransferProofs -----------------------
(***************************************************************************)
(* Proofs about the transfers and the stock they move, for every set of    *)
(* transfers, items, materials and calls.  Each invariant adds to the one  *)
(* before:                                                                 *)
(*   RowInv      quantities and statuses; the transfers implement the      *)
(*               ledger, whatever the batches are                          *)
(*   RecordInv   the quantities are the sums of the recorded requests      *)
(*   ItemInv     allocations against quantities, losses against costs      *)
(*   BalanceInv  batches against allocations and receipts                  *)
(*   SerialInv   totals against batches, while only sales, purchases and   *)
(*               transfers touch them                                      *)
(* Between RowInv and ItemInv stand the lemmas on Draw and Price, and what *)
(* a call on the stock may do to a batch.                                  *)
(***************************************************************************)
EXTENDS InterVenueTransfer, Sums, SequenceTheorems

\* The rows of the transfers that the ledger and the quantities read.
rows == <<status, dispatched, received, resolved>>

\* What a dispatch does to those rows.
RowsSent(t, p) ==
  /\ Allowed(t, "DISPATCH")
  /\ \A i \in ItemsOf(t) : QuantitiesOk(i, p[i], 0, 0)
  /\ status' = [status EXCEPT ![t] = "IN_TRANSIT"]
  /\ dispatched' = [i \in Items |-> IF i \in ItemsOf(t) THEN p[i] ELSE dispatched[i]]
  /\ UNCHANGED <<received, resolved>>

\* What a receipt does to them.
RowsReceived(t, p) ==
  LET newReceived == [i \in Items |-> IF i \in DOMAIN p THEN received[i] + p[i] ELSE received[i]] IN
  /\ Allowed(t, "RECEIVE")
  /\ \A i \in DOMAIN p : QuantitiesOk(i, dispatched[i], newReceived[i], resolved[i])
  /\ received' = newReceived
  /\ status' = [status EXCEPT ![t] = DerivedStatus(t, newReceived, resolved)]
  /\ UNCHANGED <<dispatched, resolved>>

\* What a resolution does to them.
RowsResolved(t, p) ==
  LET newResolved == [i \in Items |-> IF i \in DOMAIN p THEN resolved[i] + p[i].quantity
                                      ELSE resolved[i]] IN
  /\ Allowed(t, "RESOLVE_VARIANCE")
  /\ \A i \in DOMAIN p : QuantitiesOk(i, dispatched[i], received[i], newResolved[i])
  /\ resolved' = newResolved
  /\ status' = [status EXCEPT ![t] = DerivedStatus(t, received, newResolved)]
  /\ UNCHANGED <<dispatched, received>>

-----------------------------------------------------------------------------
\* A request for quantities asks between one unit and all of the item's.
LEMMA RequestsAsked ==
  ASSUME NEW t, NEW p \in Requests(t, Asked)
  PROVE  /\ DOMAIN p \subseteq ItemsOf(t)
         /\ \A i \in DOMAIN p : p[i] \in 1..Requested[i]
  BY DEF Requests, Asked

\* So does a request for lines.
LEMMA RequestsLines ==
  ASSUME NEW t, NEW p \in Requests(t, Lines)
  PROVE  /\ DOMAIN p \subseteq ItemsOf(t)
         /\ \A i \in DOMAIN p : p[i].quantity \in 1..Requested[i]
  BY DEF Requests, Lines, Asked

\* A dispatch is a step of the rows.
LEMMA DispatchRows ==
  ASSUME NEW t, NEW p, NEW turn, Dispatch(t, p, turn)
  PROVE  RowsSent(t, p)
  BY DEF Dispatch, RowsSent

\* So is a receipt.
LEMMA ReceiveRows ==
  ASSUME NEW t, NEW k, NEW p, NEW turn, Receive(t, k, p, turn)
  PROVE  RowsReceived(t, p)
  BY DEF Receive, RowsReceived

\* So is a resolution.
LEMMA ResolveRows ==
  ASSUME NEW t, NEW k, NEW p, ResolveVariance(t, k, p)
  PROVE  RowsResolved(t, p)
  BY DEF ResolveVariance, RowsResolved

\* A change of status alone is a step of the rows.
LEMMA MoveRows ==
  ASSUME NEW t, NEW action, NEW to, Move(t, action, to)
  PROVE  /\ Allowed(t, action)
         /\ status' = [status EXCEPT ![t] = to]
         /\ UNCHANGED <<dispatched, received, resolved>>
  BY DEF Move

\* Every step leaves the rows alone, or is one of those.
RowsNext(t) ==
  \/ /\ \/ Allowed(t, "APPROVE") /\ status' = [status EXCEPT ![t] = "APPROVED"]
        \/ Allowed(t, "REJECT") /\ status' = [status EXCEPT ![t] = "REJECTED"]
        \/ Allowed(t, "CANCEL") /\ status' = [status EXCEPT ![t] = "CANCELLED"]
     /\ UNCHANGED <<dispatched, received, resolved>>
  \/ \E p : /\ DOMAIN p = ItemsOf(t)
            /\ \A i \in DOMAIN p : p[i] \in 1..Requested[i]
            /\ RowsSent(t, p)
  \/ \E p : /\ DOMAIN p \subseteq ItemsOf(t)
            /\ \A i \in DOMAIN p : p[i] \in 1..Requested[i]
            /\ RowsReceived(t, p)
  \/ \E p : /\ DOMAIN p \subseteq ItemsOf(t)
            /\ \A i \in DOMAIN p : p[i].quantity \in 1..Requested[i]
            /\ RowsResolved(t, p)

LEMMA NextRows ==
  ASSUME [Next]_vars
  PROVE  (\E t \in Transfers : RowsNext(t)) \/ UNCHANGED rows
<1>1. CASE \E t \in Transfers : TransferStep(t)
  <2> PICK t \in Transfers : TransferStep(t)
    BY <1>1
  <2> SUFFICES RowsNext(t)
    OBVIOUS
  <2>1. CASE Approve(t) \/ Reject(t) \/ Cancel(t)
    BY <2>1, MoveRows DEF Approve, Reject, Cancel, RowsNext
  <2>2. CASE \E p \in Requests(t, Asked) : \E turn \in Turns(DOMAIN p) :
                 DOMAIN p = ItemsOf(t) /\ Dispatch(t, p, turn)
    <3>1. PICK p \in Requests(t, Asked) :
            \E turn \in Turns(DOMAIN p) : DOMAIN p = ItemsOf(t) /\ Dispatch(t, p, turn)
      BY <2>2
    <3>2. PICK turn \in Turns(DOMAIN p) : DOMAIN p = ItemsOf(t) /\ Dispatch(t, p, turn)
      BY <3>1
    <3> QED
      BY <3>2, RequestsAsked, DispatchRows DEF RowsNext
  <2>3. CASE \E k \in Keys, p \in Requests(t, Asked) : \E turn \in Turns(DOMAIN p) :
                 Receive(t, k, p, turn)
    <3>1. PICK k \in Keys, p \in Requests(t, Asked) :
            \E turn \in Turns(DOMAIN p) : Receive(t, k, p, turn)
      BY <2>3
    <3>2. PICK turn \in Turns(DOMAIN p) : Receive(t, k, p, turn)
      BY <3>1
    <3> QED
      BY <3>2, RequestsAsked, ReceiveRows DEF RowsNext
  <2>4. CASE \E k \in Keys, p \in Requests(t, Lines) : ResolveVariance(t, k, p)
    <3> PICK k \in Keys, p \in Requests(t, Lines) : ResolveVariance(t, k, p)
      BY <2>4
    <3> QED
      BY RequestsLines, ResolveRows DEF RowsNext
  <2> QED
    BY <2>1, <2>2, <2>3, <2>4 DEF TransferStep
<1>2. CASE (\E c \in Calls : StockStep(c) /\ UNCHANGED transferVars) \/ UNCHANGED vars
  BY <1>2 DEF vars, transferVars, rows
<1> QED
  BY <1>1, <1>2 DEF Next

-----------------------------------------------------------------------------
\* Before it is dispatched a transfer has moved nothing.
Untouched ==
  \A i \in Items : status[TransferOf[i]] \notin {"IN_TRANSIT", "PARTIALLY_RECEIVED",
                                               "COMPLETED", "COMPLETED_WITH_VARIANCE"}
                    => dispatched[i] = 0 /\ received[i] = 0 /\ resolved[i] = 0

\* A dispatch checks only what it sends, so that the quantities stay within each other
\* because nothing was received or resolved before.
RowInv == RowTypeOK /\ Untouched

LEMMA InitRowInv == Init => RowInv
  BY TransfersAssumption
     DEF Init, TransferInit, RowInv, RowTypeOK, Untouched, Statuses, QuantitiesOk

\* The columns of an item that a step leaves alone.
Same(i) == dispatched'[i] = dispatched[i] /\ received'[i] = received[i] /\ resolved'[i] = resolved[i]

\* Each kind of step keeps the invariant: it checks the quantities of the items it touches.
LEMMA RowInvStep ==
  ASSUME RowInv, NEW t \in Transfers, RowsNext(t)
  PROVE  RowInv'
<1> USE TransfersAssumption DEF RowInv, RowTypeOK
<1>1. CASE /\ \/ Allowed(t, "APPROVE") /\ status' = [status EXCEPT ![t] = "APPROVED"]
              \/ Allowed(t, "REJECT") /\ status' = [status EXCEPT ![t] = "REJECTED"]
              \/ Allowed(t, "CANCEL") /\ status' = [status EXCEPT ![t] = "CANCELLED"]
           /\ UNCHANGED <<dispatched, received, resolved>>
  BY <1>1 DEF Statuses, Allowed, Untouched, QuantitiesOk
<1>2. ASSUME NEW p, DOMAIN p = ItemsOf(t), \A i \in DOMAIN p : p[i] \in 1..Requested[i],
             RowsSent(t, p)
      PROVE  RowInv'
  <2>1. status[t] = "APPROVED"
    BY <1>2 DEF RowsSent, Allowed
  <2>2. \A i \in ItemsOf(t) : received[i] = 0 /\ resolved[i] = 0
    BY <2>1 DEF ItemsOf, Untouched
  <2>3. \A i \in Items \ ItemsOf(t) : Same(i) /\ status'[TransferOf[i]] = status[TransferOf[i]]
    BY <1>2 DEF RowsSent, Same, ItemsOf
  <2>4. \A i \in ItemsOf(t) : /\ dispatched'[i] \in 1..Requested[i]
                               /\ received'[i] = 0 /\ resolved'[i] = 0
                               /\ status'[TransferOf[i]] = "IN_TRANSIT"
    BY <1>2, <2>2 DEF RowsSent, ItemsOf
  <2>5. /\ status' \in [Transfers -> Statuses]
        /\ dispatched' \in [Items -> Nat] /\ received' \in [Items -> Nat]
        /\ resolved' \in [Items -> Nat]
    BY <1>2 DEF RowsSent, Statuses, ItemsOf
  <2>6. \A i \in Items : QuantitiesOk(i, dispatched[i], received[i], resolved[i])'
    BY <2>3, <2>4 DEF Same, ItemsOf, QuantitiesOk
  <2>7. Untouched'
    BY <2>3, <2>4 DEF Same, Untouched, ItemsOf
  <2> QED
    BY <2>5, <2>6, <2>7
<1>3. ASSUME NEW p, DOMAIN p \subseteq ItemsOf(t), \A i \in DOMAIN p : p[i] \in 1..Requested[i],
             RowsReceived(t, p)
      PROVE  RowInv'
  <2>1. \A i \in Items \ DOMAIN p : Same(i)
    BY <1>3 DEF RowsReceived, Same
  <2>2. \A i \in DOMAIN p : QuantitiesOk(i, dispatched[i], received[i], resolved[i])'
    BY <1>3 DEF RowsReceived, ItemsOf
  <2>3. /\ status' = [status EXCEPT ![t] = DerivedStatus(t, received', resolved')]
        /\ DerivedStatus(t, received', resolved') \in
             {"IN_TRANSIT", "PARTIALLY_RECEIVED", "COMPLETED", "COMPLETED_WITH_VARIANCE"}
    BY <1>3 DEF RowsReceived, DerivedStatus
  <2>4. /\ status' \in [Transfers -> Statuses]
        /\ dispatched' \in [Items -> Nat] /\ received' \in [Items -> Nat]
        /\ resolved' \in [Items -> Nat]
    BY <1>3, <2>3 DEF RowsReceived, Statuses, ItemsOf
  <2>5. \A i \in Items : QuantitiesOk(i, dispatched[i], received[i], resolved[i])'
    BY <2>1, <2>2 DEF Same, QuantitiesOk
  <2>6. Untouched'
    BY <1>3, <2>1, <2>3 DEF Same, Untouched, ItemsOf
  <2> QED
    BY <2>4, <2>5, <2>6
<1>4. ASSUME NEW p, DOMAIN p \subseteq ItemsOf(t),
             \A i \in DOMAIN p : p[i].quantity \in 1..Requested[i], RowsResolved(t, p)
      PROVE  RowInv'
  <2>1. \A i \in Items \ DOMAIN p : Same(i)
    BY <1>4 DEF RowsResolved, Same
  <2>2. \A i \in DOMAIN p : QuantitiesOk(i, dispatched[i], received[i], resolved[i])'
    BY <1>4 DEF RowsResolved, ItemsOf
  <2>3. /\ status' = [status EXCEPT ![t] = DerivedStatus(t, received', resolved')]
        /\ DerivedStatus(t, received', resolved') \in
             {"IN_TRANSIT", "PARTIALLY_RECEIVED", "COMPLETED", "COMPLETED_WITH_VARIANCE"}
    BY <1>4 DEF RowsResolved, DerivedStatus
  <2>4. /\ status' \in [Transfers -> Statuses]
        /\ dispatched' \in [Items -> Nat] /\ received' \in [Items -> Nat]
        /\ resolved' \in [Items -> Nat]
    BY <1>4, <2>3 DEF RowsResolved, Statuses, ItemsOf
  <2>5. \A i \in Items : QuantitiesOk(i, dispatched[i], received[i], resolved[i])'
    BY <2>1, <2>2 DEF Same, QuantitiesOk
  <2>6. Untouched'
    BY <1>4, <2>1, <2>3 DEF Same, Untouched, ItemsOf
  <2> QED
    BY <2>4, <2>5, <2>6
<1> QED
  BY <1>1, <1>2, <1>3, <1>4 DEF RowsNext

LEMMA RowInvNext == RowInv /\ [Next]_vars => RowInv'
<1> SUFFICES ASSUME RowInv, [Next]_vars
             PROVE  RowInv'
  OBVIOUS
<1>1. CASE \E t \in Transfers : RowsNext(t)
  BY <1>1, RowInvStep
<1>2. CASE UNCHANGED rows
  BY <1>2 DEF rows, RowInv, RowTypeOK, Untouched, QuantitiesOk
<1> QED
  BY <1>1, <1>2, NextRows

\* The columns of the transfers stay typed; and at every moment no more was sent of an item
\* than requested, no more arrived than sent, and no more was resolved than is missing.
THEOREM TransferTyping == Spec => []RowTypeOK
<1>1. RowInv => RowTypeOK
  BY DEF RowInv
<1> QED
  BY InitRowInv, RowInvNext, <1>1, PTL DEF Spec

-----------------------------------------------------------------------------
\* The steps of the ledger.
LEMMA LedgerStep ==
  ASSUME RowInv, NEW t \in Transfers, RowsNext(t)
  PROVE  Ledger!Next
<1> USE TransfersAssumption
<1>0. /\ phase \in [Transfers -> {"asked", "agreed", "dropped", "moving", "closed"}]
      /\ RowTypeOK'
  BY RowInvStep DEF RowInv, RowTypeOK, phase, Statuses, Open, Closed
<1> DEFINE PhaseOf(s) == CASE s = "REQUESTED" -> "asked"
                           [] s = "APPROVED" -> "agreed"
                           [] s \in {"REJECTED", "CANCELLED"} -> "dropped"
                           [] s \in {"IN_TRANSIT", "PARTIALLY_RECEIVED"} -> "moving"
                           [] s \in {"COMPLETED", "COMPLETED_WITH_VARIANCE"} -> "closed"
<1>1. phase = [x \in Transfers |-> PhaseOf(status[x])]
  BY DEF phase, Open, Closed
<1>2. phase' = [x \in Transfers |-> PhaseOf(status'[x])]
  BY DEF phase, Open, Closed
<1>3. ASSUME NEW to \in Statuses, status' = [status EXCEPT ![t] = to]
      PROVE  phase' = [phase EXCEPT ![t] = PhaseOf(to)]
  <2> HIDE DEF PhaseOf
  <2> QED
    BY <1>1, <1>2, <1>3 DEF RowInv, RowTypeOK
<1>4. CASE /\ \/ Allowed(t, "APPROVE") /\ status' = [status EXCEPT ![t] = "APPROVED"]
              \/ Allowed(t, "REJECT") /\ status' = [status EXCEPT ![t] = "REJECTED"]
              \/ Allowed(t, "CANCEL") /\ status' = [status EXCEPT ![t] = "CANCELLED"]
           /\ UNCHANGED <<dispatched, received, resolved>>
  <2>1. CASE Allowed(t, "APPROVE") /\ status' = [status EXCEPT ![t] = "APPROVED"]
    <3>1. phase[t] = "asked" /\ phase' = [phase EXCEPT ![t] = "agreed"]
      BY <2>1, <1>1, <1>3 DEF Allowed, Statuses
    <3> QED
      BY <3>1, <1>4 DEF Ledger!Next, Ledger!Agree
  <2>2. CASE \/ Allowed(t, "REJECT") /\ status' = [status EXCEPT ![t] = "REJECTED"]
             \/ Allowed(t, "CANCEL") /\ status' = [status EXCEPT ![t] = "CANCELLED"]
    <3>1. phase[t] \in {"asked", "agreed"} /\ phase' = [phase EXCEPT ![t] = "dropped"]
      BY <2>2, <1>1, <1>3 DEF Allowed, Statuses
    <3> QED
      BY <3>1, <1>4 DEF Ledger!Next, Ledger!Drop
  <2> QED
    BY <1>4, <2>1, <2>2
<1>5. ASSUME NEW p, DOMAIN p = ItemsOf(t), \A i \in DOMAIN p : p[i] \in 1..Requested[i],
             RowsSent(t, p)
      PROVE  Ledger!Next
  <2>1. phase[t] = "agreed" /\ phase' = [phase EXCEPT ![t] = "moving"]
    BY <1>5, <1>1, <1>3 DEF RowsSent, Allowed, Statuses
  <2>2. dispatched' \in Ledger!Counts
    BY <1>0 DEF RowTypeOK, Ledger!Counts
  <2>3. \A i \in Items : IF TransferOf[i] = t THEN dispatched'[i] \in 1..Requested[i]
                          ELSE dispatched'[i] = dispatched[i]
    BY <1>5 DEF RowsSent, ItemsOf
  <2> QED
    BY <1>5, <2>1, <2>2, <2>3 DEF RowsSent, Ledger!Next, Ledger!Send
<1>6. ASSUME Open(t), UNCHANGED dispatched, NEW S \in SUBSET ItemsOf(t),
             status' = [status EXCEPT ![t] = DerivedStatus(t, received', resolved')],
             \A i \in Items \ S : Same(i),
             \A i \in S : received'[i] >= received[i] /\ resolved'[i] >= resolved[i]
      PROVE  Ledger!Next
  <2>1. phase[t] = "moving"
    BY <1>6, <1>1 DEF Open
  <2>2. /\ DerivedStatus(t, received', resolved') \in Statuses
        /\ PhaseOf(DerivedStatus(t, received', resolved'))
             = IF FullyAccounted(t, received', resolved') THEN "closed" ELSE "moving"
    BY DEF DerivedStatus, Statuses
  <2>3. FullyAccounted(t, received', resolved') <=> \A i \in Ledger!ItemsOf(t) : Ledger!Accounted(i)'
    BY DEF FullyAccounted, Ledger!Accounted, Ledger!ItemsOf, ItemsOf
  <2>4. phase' = [phase EXCEPT ![t] =
          IF \A i \in Ledger!ItemsOf(t) : Ledger!Accounted(i)' THEN "closed" ELSE "moving"]
    BY <1>3, <1>6, <2>2, <2>3
  <2>5. received' \in Ledger!Counts /\ resolved' \in Ledger!Counts
    BY <1>0 DEF RowTypeOK, Ledger!Counts
  <2>6. ASSUME NEW i \in Items, TransferOf[i] = t
        PROVE  /\ received'[i] \in received[i]..dispatched[i]
               /\ resolved'[i] >= resolved[i]
               /\ received'[i] + resolved'[i] <= Requested[i]
    <3>1. received'[i] >= received[i] /\ resolved'[i] >= resolved[i]
      BY <1>6 DEF Same, RowInv, RowTypeOK
    <3> QED
      BY <1>0, <1>6, <3>1 DEF RowInv, RowTypeOK, QuantitiesOk
  <2>7. ASSUME NEW i \in Items, TransferOf[i] # t
        PROVE  received'[i] = received[i] /\ resolved'[i] = resolved[i]
    BY <1>6, <2>7 DEF Same, ItemsOf
  <2> QED
    BY <1>6, <2>1, <2>4, <2>5, <2>6, <2>7 DEF Ledger!Next, Ledger!Account
<1>7. ASSUME NEW p, DOMAIN p \subseteq ItemsOf(t), \A i \in DOMAIN p : p[i] \in 1..Requested[i],
             RowsReceived(t, p)
      PROVE  Ledger!Next
  <2>1. Open(t) /\ UNCHANGED dispatched
        /\ status' = [status EXCEPT ![t] = DerivedStatus(t, received', resolved')]
    BY <1>7 DEF RowsReceived, Allowed, Open
  <2>2. \A i \in Items \ DOMAIN p : Same(i)
    BY <1>7 DEF RowsReceived, Same
  <2>3. ASSUME NEW i \in DOMAIN p
        PROVE  received'[i] >= received[i] /\ resolved'[i] >= resolved[i]
    <3>0. i \in Items /\ p[i] \in 1..Requested[i]
      BY <1>7, <2>3 DEF ItemsOf
    <3>1. /\ i \in Items /\ received[i] \in Nat /\ resolved[i] \in Nat
          /\ Requested[i] \in Nat
      BY <3>0 DEF RowInv, RowTypeOK
    <3>2. received'[i] = received[i] + p[i] /\ resolved'[i] = resolved[i]
      BY <1>7, <2>3, <3>1 DEF RowsReceived
    <3> QED
      BY <3>0, <3>1, <3>2
  <2> QED
    BY <1>6, <1>7, <2>1, <2>2, <2>3
<1>8. ASSUME NEW p, DOMAIN p \subseteq ItemsOf(t),
             \A i \in DOMAIN p : p[i].quantity \in 1..Requested[i], RowsResolved(t, p)
      PROVE  Ledger!Next
  <2>1. Open(t) /\ UNCHANGED dispatched
        /\ status' = [status EXCEPT ![t] = DerivedStatus(t, received', resolved')]
    BY <1>8 DEF RowsResolved, Allowed, Open
  <2>2. \A i \in Items \ DOMAIN p : Same(i)
    BY <1>8 DEF RowsResolved, Same
  <2>3. ASSUME NEW i \in DOMAIN p
        PROVE  received'[i] >= received[i] /\ resolved'[i] >= resolved[i]
    <3>0. i \in Items /\ p[i].quantity \in 1..Requested[i]
      BY <1>8, <2>3 DEF ItemsOf
    <3>1. /\ i \in Items /\ received[i] \in Nat /\ resolved[i] \in Nat
          /\ Requested[i] \in Nat
      BY <3>0 DEF RowInv, RowTypeOK
    <3>2. resolved'[i] = resolved[i] + p[i].quantity /\ received'[i] = received[i]
      BY <1>8, <2>3, <3>1 DEF RowsResolved
    <3> QED
      BY <3>0, <3>1, <3>2
  <2> QED
    BY <1>6, <1>8, <2>1, <2>2, <2>3
<1> QED
  BY <1>4, <1>5, <1>7, <1>8 DEF RowsNext

\* The transfers implement the ledger, whatever happens to the batches meanwhile: an item is
\* sent once and whole, nothing arrives that was not sent, and the transfer closes with the
\* last unit accounted for and never moves again.
THEOREM TransferRefinement == Spec => ImplementsLedger
<1>1. ASSUME Init
      PROVE  Ledger!Init
  <2>1. ASSUME NEW t \in Transfers
        PROVE  phase[t] \in {"asked", "agreed"}
    <3>1. status[t] \in {"REQUESTED", "APPROVED"}
      BY <1>1 DEF Init, TransferInit
    <3> QED
      BY <3>1 DEF phase, Open, Closed
  <2>2. phase \in [Transfers -> {"asked", "agreed"}]
    BY <2>1 DEF phase
  <2> QED
    BY <1>1, <2>2 DEF Init, TransferInit, Ledger!Init
<1>2. RowInv /\ [Next]_vars => [Ledger!Next]_Ledger!vars
  <2> SUFFICES ASSUME RowInv, [Next]_vars
               PROVE  [Ledger!Next]_Ledger!vars
    OBVIOUS
  <2>1. CASE \E t \in Transfers : RowsNext(t)
    BY <2>1, LedgerStep
  <2>2. CASE UNCHANGED rows
    <3>1. phase' = phase
      BY <2>2 DEF rows, phase, Open, Closed
    <3> QED
      BY <2>2, <3>1 DEF rows, Ledger!vars
  <2> QED
    BY <2>1, <2>2, NextRows
<1> QED
  BY InitRowInv, RowInvNext, <1>1, <1>2, PTL DEF Spec, ImplementsLedger, Ledger!Spec

-----------------------------------------------------------------------------
(* Draw takes what falls in the q units after the first skip of the batches *)
(* laid end to end: what a prefix of them gives is a difference of caps.    *)

\* Amounts of some of the first N batches.
Stack(avail, N) == DOMAIN avail \subseteq 1..N /\ \A b \in DOMAIN avail : avail[b] \in Nat

Cap(m, n) == IF m <= n THEN m ELSE n

\* How many of the first n units are among the q units after the first skip.
Clip(n, skip, q) == Cap(n, skip + q) - Cap(n, skip)

LEMMA StackSums ==
  ASSUME NEW N \in Nat, NEW a, Stack(a, N)
  PROVE  /\ Summable(a, DOMAIN a) /\ Total(a) \in Nat
         /\ Before(a, 0) = 0 /\ Total(a) = Before(a, N + 1)
         /\ \A n \in Nat :
              /\ Before(a, n) \in Nat
              /\ Before(a, n + 1) = Before(a, n) + (IF n \in DOMAIN a THEN a[n] ELSE 0)
<1> DEFINE below(n) == {x \in DOMAIN a : x < n}
<1>1. DOMAIN a \subseteq Nat /\ IsFiniteSet(DOMAIN a)
  <2>1. DOMAIN a \subseteq 1..N
    BY DEF Stack
  <2>2. IsFiniteSet(1..N)
    BY FS_Interval
  <2>3. IsFiniteSet(DOMAIN a)
    BY <2>1, <2>2, FS_Subset
  <2> QED
    BY <2>1, <2>3
<1>2. Summable(a, DOMAIN a) /\ \A n : Summable(a, below(n))
  BY <1>1, FS_Subset DEF Summable, Stack
<1>3. Total(a) \in Nat /\ \A n : Before(a, n) \in Nat
  BY <1>2, SumType DEF Total, Before
<1>4. Before(a, 0) = 0
  <2>1. below(0) = {}
    BY <1>1
  <2> QED
    BY <2>1, SumEmpty DEF Before
<1>5. Total(a) = Before(a, N + 1)
  <2>1. below(N + 1) = DOMAIN a
    BY <1>1 DEF Stack
  <2> QED
    BY <2>1 DEF Total, Before
<1>6. ASSUME NEW n \in Nat
      PROVE  Before(a, n + 1) = Before(a, n) + (IF n \in DOMAIN a THEN a[n] ELSE 0)
  <2>1. CASE n \in DOMAIN a
    <3>1. below(n + 1) = below(n) \cup {n} /\ n \notin below(n) /\ a[n] \in Nat
      BY <1>1, <2>1 DEF Stack
    <3>2. SumFunctionOnSet(a, below(n) \cup {n}) = SumFunctionOnSet(a, below(n)) + a[n]
      BY <1>2, <3>1, SumAdd
    <3> QED
      BY <2>1, <3>1, <3>2 DEF Before
  <2>2. CASE n \notin DOMAIN a
    <3>1. below(n + 1) = below(n)
      BY <1>1, <2>2
    <3> QED
      BY <1>3, <2>2, <3>1 DEF Before
  <2> QED
    BY <2>1, <2>2
<1> QED
  BY <1>2, <1>3, <1>4, <1>5, <1>6

\* What is drawn from a batch: what its units add to the clip.
LEMMA DrawIs ==
  ASSUME NEW N \in Nat, NEW a, Stack(a, N), NEW s \in Nat, NEW q \in Nat
  PROVE  /\ Stack(Draw(a, s, q), N) /\ DOMAIN Draw(a, s, q) = DOMAIN a
         /\ \A b \in DOMAIN a :
              /\ Draw(a, s, q)[b] = Clip(Before(a, b) + a[b], s, q) - Clip(Before(a, b), s, q)
              /\ Draw(a, s, q)[b] \in 0..a[b]
<1>1. ASSUME NEW b \in DOMAIN a
      PROVE  /\ Draw(a, s, q)[b] = Clip(Before(a, b) + a[b], s, q) - Clip(Before(a, b), s, q)
             /\ Draw(a, s, q)[b] \in 0..a[b]
  <2> DEFINE lo == Before(a, b)
  <2>1. lo \in Nat /\ a[b] \in Nat
    BY StackSums DEF Stack
  <2>2. Draw(a, s, q)[b] = Max({0, Min({lo + a[b], s + q}) - Max({lo, s})})
    BY DEF Draw
  <2> HIDE DEF lo
  <2>3. /\ Min({lo + a[b], s + q}) = IF lo + a[b] <= s + q THEN lo + a[b] ELSE s + q
        /\ Max({lo, s}) = IF lo >= s THEN lo ELSE s
    BY <2>1, MinOfTwo, MaxOfTwo
  <2>4. Min({lo + a[b], s + q}) - Max({lo, s}) \in Int
    BY <2>1, <2>3
  <2> DEFINE part == Min({lo + a[b], s + q}) - Max({lo, s})
  <2>5. Draw(a, s, q)[b] = IF 0 >= part THEN 0 ELSE part
    <3>1. part \in Int /\ Draw(a, s, q)[b] = Max({0, part})
      BY <2>2, <2>4
    <3> HIDE DEF part
    <3>2. 0 \in Int
      OBVIOUS
    <3> QED
      BY <3>1, <3>2, MaxOfTwo
  <2>6. Draw(a, s, q)[b] = Clip(lo + a[b], s, q) - Clip(lo, s, q)
    BY <2>1, <2>3, <2>5 DEF Clip, Cap
  <2>7. Draw(a, s, q)[b] \in 0..a[b]
    BY <2>1, <2>6 DEF Clip, Cap
  <2> QED
    BY <2>6, <2>7 DEF lo
<1>2. DOMAIN Draw(a, s, q) = DOMAIN a
  BY DEF Draw
<1> QED
  BY <1>1, <1>2 DEF Stack

\* So the prefixes of what is drawn are the clips of the prefixes.
LEMMA DrawBefore ==
  ASSUME NEW N \in Nat, NEW a, Stack(a, N), NEW s \in Nat, NEW q \in Nat, NEW n \in Nat
  PROVE  Before(Draw(a, s, q), n) = Clip(Before(a, n), s, q)
<1> DEFINE d == Draw(a, s, q)
           Fails == {m \in Nat : Before(d, m) # Clip(Before(a, m), s, q)}
<1>1. SUFFICES ASSUME Fails # {} PROVE FALSE
  OBVIOUS
<1>2. PICK m \in Fails : \A k \in Fails : m <= k
  <2>1. Fails \subseteq Nat
    OBVIOUS
  <2> HIDE DEF Fails
  <2> QED
    BY <1>1, <2>1, Smallest
<1>3. Stack(d, N) /\ DOMAIN d = DOMAIN a
  BY DrawIs
<1>4. m # 0
  <2>1. Before(d, 0) = 0 /\ Before(a, 0) = 0
    BY <1>3, StackSums
  <2> QED
    BY <2>1 DEF Clip, Cap
<1> DEFINE k == m - 1
<1>5. k \in Nat /\ k + 1 = m /\ k \notin Fails
  BY <1>2, <1>4
<1>6. Before(d, k) = Clip(Before(a, k), s, q)
  BY <1>5
<1>7. /\ Before(d, k + 1) = Before(d, k) + (IF k \in DOMAIN a THEN d[k] ELSE 0)
      /\ Before(a, k + 1) = Before(a, k) + (IF k \in DOMAIN a THEN a[k] ELSE 0)
      /\ Before(a, k) \in Nat
  BY <1>3, <1>5, StackSums
<1>8. k \in DOMAIN a => /\ d[k] = Clip(Before(a, k) + a[k], s, q) - Clip(Before(a, k), s, q)
                        /\ a[k] \in Nat
  BY DrawIs DEF Stack
<1> HIDE DEF d, k
<1>9. Before(d, k + 1) = Clip(Before(a, k + 1), s, q)
  BY <1>6, <1>7, <1>8 DEF Clip, Cap
<1> QED
  BY <1>5, <1>9 DEF k, d

\* A draw that fits takes what was asked for.
LEMMA DrawTotal ==
  ASSUME NEW N \in Nat, NEW a, Stack(a, N), NEW s \in Nat, NEW q \in Nat
  PROVE  /\ Total(Draw(a, s, q)) = Clip(Total(a), s, q)
         /\ s + q <= Total(a) => Total(Draw(a, s, q)) = q
<1>1. Stack(Draw(a, s, q), N) /\ N + 1 \in Nat
  BY DrawIs
<1>2. Total(Draw(a, s, q)) = Clip(Total(a), s, q) /\ Total(a) \in Nat
  BY <1>1, StackSums, DrawBefore
<1> QED
  BY <1>2 DEF Clip, Cap

\* Two draws one after the other are one.
LEMMA DrawJoins ==
  ASSUME NEW N \in Nat, NEW a, Stack(a, N), NEW s \in Nat, NEW p \in Nat, NEW q \in Nat,
         NEW b \in DOMAIN a
  PROVE  Draw(a, s, p + q)[b] = Draw(a, s, p)[b] + Draw(a, s + p, q)[b]
<1>1. /\ Draw(a, s, p + q)[b] = Clip(Before(a, b) + a[b], s, p + q) - Clip(Before(a, b), s, p + q)
      /\ Draw(a, s, p)[b] = Clip(Before(a, b) + a[b], s, p) - Clip(Before(a, b), s, p)
      /\ Draw(a, s + p, q)[b] = Clip(Before(a, b) + a[b], s + p, q) - Clip(Before(a, b), s + p, q)
  <2>1. ASSUME NEW m \in Nat, NEW n \in Nat
        PROVE  Draw(a, m, n)[b] = Clip(Before(a, b) + a[b], m, n) - Clip(Before(a, b), m, n)
    BY DrawIs
  <2>2. s + p \in Nat /\ p + q \in Nat
    OBVIOUS
  <2> QED
    BY <2>1, <2>2
<1>2. Before(a, b) \in Nat /\ a[b] \in Nat
  BY StackSums DEF Stack
<1> QED
  BY <1>1, <1>2 DEF Clip, Cap

\* To draw everything empties the batches.
LEMMA DrawEverything ==
  ASSUME NEW N \in Nat, NEW a, Stack(a, N), NEW b \in DOMAIN a
  PROVE  /\ Draw(a, 0, Total(a))[b] = a[b]
         /\ Before(a, b) + a[b] <= Total(a)
<1>1. Draw(a, 0, Total(a))[b]
        = Clip(Before(a, b) + a[b], 0, Total(a)) - Clip(Before(a, b), 0, Total(a))
  BY StackSums, DrawIs
<1>2. Before(a, b) \in Nat /\ a[b] \in Nat /\ Total(a) \in Nat
  BY StackSums DEF Stack
<1>3. Before(a, b) + a[b] <= Total(a)
  <2> DEFINE S == {x \in DOMAIN a : x < b}
  <2>1. Summable(a, DOMAIN a) /\ Summable(a, S) /\ Summable(a, S \cup {b})
    BY StackSums, FS_Subset DEF Summable, Stack
  <2>2. SumFunctionOnSet(a, S \cup {b}) = SumFunctionOnSet(a, S) + a[b]
    <3>1. b \notin S
      BY DEF Stack
    <3> HIDE DEF S
    <3> QED
      BY <1>2, <2>1, <3>1, SumAdd
  <2>3. SumFunctionOnSet(a, S \cup {b}) <= SumFunctionOnSet(a, DOMAIN a)
    <3>1. S \cup {b} \subseteq DOMAIN a
      OBVIOUS
    <3>2. \A x \in S \cup {b} : a[x] <= a[x]
      BY DEF Stack
    <3> HIDE DEF S
    <3> QED
      BY <2>1, <3>1, <3>2, SumLeq
  <2> QED
    BY <2>2, <2>3 DEF Before, Total
<1> QED
  BY <1>1, <1>2, <1>3 DEF Clip, Cap

\* What is left after a draw: the units before it have not moved.
LEMMA DrawLeaves ==
  ASSUME NEW N \in Nat, NEW a, Stack(a, N), NEW s \in Nat, NEW q \in Nat, s + q <= Total(a),
         NEW r, DOMAIN r = DOMAIN a, \A b \in DOMAIN a : r[b] = a[b] - Draw(a, s, q)[b]
  PROVE  /\ Stack(r, N) /\ Total(r) = Total(a) - q
         /\ \A b \in DOMAIN a : Draw(r, 0, s)[b] = Draw(a, 0, s)[b]
<1> DEFINE d == Draw(a, s, q)
<1>1. Stack(d, N) /\ DOMAIN d = DOMAIN a /\ \A b \in DOMAIN a : d[b] \in 0..a[b] /\ a[b] \in Nat
  <2>1. Stack(d, N) /\ DOMAIN d = DOMAIN a /\ \A b \in DOMAIN a : d[b] \in 0..a[b]
    BY DrawIs
  <2> QED
    BY <2>1 DEF Stack
<1>2. Stack(r, N) /\ \A b \in DOMAIN a : r[b] \in Nat /\ a[b] = r[b] + d[b]
  <2>1. \A b \in DOMAIN a : r[b] = a[b] - d[b]
    OBVIOUS
  <2> HIDE DEF d
  <2>2. \A b \in DOMAIN a : r[b] \in Nat /\ a[b] = r[b] + d[b]
    BY <1>1, <2>1
  <2> QED
    BY <2>2 DEF Stack
<1>3. Summable(r, DOMAIN a) /\ Summable(d, DOMAIN a)
  BY <1>1, <1>2, StackSums
<1> HIDE DEF d
<1>4. ASSUME NEW S \in SUBSET (DOMAIN a)
      PROVE  SumFunctionOnSet(a, S) = SumFunctionOnSet(r, S) + SumFunctionOnSet(d, S)
  BY <1>2, <1>3, SumsPlus
<1>5. Total(a) = Total(r) + Total(d) /\ Total(d) = q /\ Total(r) \in Nat
  <2>1. Total(a) = Total(r) + Total(d)
    BY <1>1, <1>4 DEF Total
  <2>2. Total(d) = q
    BY DrawTotal DEF d
  <2> QED
    BY <1>2, <2>1, <2>2, StackSums
<1>6. ASSUME NEW b \in DOMAIN a
      PROVE  Draw(r, 0, s)[b] = Draw(a, 0, s)[b]
  <2>1. /\ Before(a, b) \in Nat /\ Before(r, b) \in Nat /\ b \in Nat
        /\ a[b] \in Nat /\ r[b] \in Nat
    <3>1. b \in Nat /\ a[b] \in Nat /\ r[b] \in Nat
      BY <1>2 DEF Stack
    <3>2. Before(a, b) \in Nat
      BY <3>1, StackSums
    <3>3. Before(r, b) \in Nat
      BY <1>2, <3>1, StackSums
    <3> QED
      BY <3>1, <3>2, <3>3
  <2>2. Before(a, b) = Before(r, b) + Before(d, b)
    BY <1>1, <1>4 DEF Before
  <2>3. Before(d, b) = Clip(Before(a, b), s, q)
    BY <2>1, DrawBefore DEF d
  <2>4. a[b] = r[b] + d[b] /\ d[b] = Clip(Before(a, b) + a[b], s, q) - Clip(Before(a, b), s, q)
    BY <1>2, DrawIs DEF d
  <2>5. /\ Draw(a, 0, s)[b] = Clip(Before(a, b) + a[b], 0, s) - Clip(Before(a, b), 0, s)
        /\ Draw(r, 0, s)[b] = Clip(Before(r, b) + r[b], 0, s) - Clip(Before(r, b), 0, s)
    BY <1>2, DrawIs
  <2> QED
    BY <2>1, <2>2, <2>3, <2>4, <2>5 DEF Clip, Cap
<1> QED
  BY <1>2, <1>5, <1>6

-----------------------------------------------------------------------------
(* The batches under the calls on the stock.                                *)

CallType ==
  [pc : {"new", "adjust", "purchase", "expire", "expiring", "quarantine", "quarantining", "done"},
   kind : {"none", "deduct", "adjust", "purchase", "expire", "quarantine"},
   material : Materials \cup {"none"}, quantity : Nat, batch : Nat, wasActive : BOOLEAN,
   due : SUBSET Nat, seen : Int, failed : BOOLEAN]

\* What a call has in hand.
CallOk(c) ==
  /\ call[c].pc \in {"adjust", "purchase"} => call[c].material \in Materials
  /\ call[c].pc \in {"expire", "expiring"} => call[c].due \subseteq DOMAIN batches
  /\ call[c].pc \in {"expiring", "quarantine", "quarantining"} => call[c].batch \in DOMAIN batches

StockInv ==
  /\ stock \in [Materials -> Int]
  /\ batches \in Seq(BatchType)
  /\ call \in [Calls -> CallType]
  /\ \A c \in Calls : CallOk(c)

\* The batches stay, with what they were created with: what leaves one by a sale is added up.
Kept ==
  /\ DOMAIN batches \subseteq DOMAIN batches'
  /\ \A b \in DOMAIN batches :
       /\ batches'[b].material = batches[b].material /\ batches'[b].cost = batches[b].cost
       /\ batches'[b].initial = batches[b].initial
       /\ batches'[b].left + batches'[b].used = batches[b].left + batches[b].used
  /\ \A b \in DOMAIN batches' \ DOMAIN batches :
       batches'[b].initial = batches'[b].left /\ batches'[b].used = 0

LEMMA BatchTyped ==
  ASSUME StockInv, NEW b \in DOMAIN batches
  PROVE  /\ batches[b] \in BatchType /\ batches[b].material \in Materials
         /\ batches[b].initial \in Nat /\ batches[b].left \in Nat /\ batches[b].used \in Nat
         /\ batches[b].cost \in Nat /\ b \in 1..Len(batches)
<1>1. batches[b] \in BatchType /\ b \in 1..Len(batches)
  BY DEF StockInv
<1> QED
  BY <1>1 DEF BatchType

LEMMA CallTyped ==
  ASSUME StockInv, NEW c \in Calls
  PROVE  /\ call[c] \in CallType /\ call[c].quantity \in Nat /\ call[c].seen \in Int
         /\ call[c].wasActive \in BOOLEAN
<1>1. call[c] \in CallType
  BY DEF StockInv
<1> QED
  BY <1>1 DEF CallType

\* What a sale may take lies in the batches.
LEMMA AvailableStack ==
  ASSUME StockInv, NEW m
  PROVE  /\ Stack(Available(m), Len(batches)) /\ Len(batches) \in Nat
         /\ DOMAIN Available(m) = DOMAIN batches
         /\ \A b \in DOMAIN batches :
              /\ Available(m)[b] <= batches[b].left
              /\ Available(m)[b] > 0 => batches[b].material = m /\ batches[b].status = "ACTIVE"
BY BatchTyped DEF StockInv, Available, Stack

\* The row of a batch after some of its units leave it.
LEMMA DrawnRow ==
  ASSUME StockInv, NEW b \in DOMAIN batches, NEW q \in 0..batches[b].left
  PROVE  /\ Drawn(batches[b], q) \in BatchType
         /\ Drawn(batches[b], q).material = batches[b].material
         /\ Drawn(batches[b], q).cost = batches[b].cost
         /\ Drawn(batches[b], q).initial = batches[b].initial
         /\ Drawn(batches[b], q).used = batches[b].used
         /\ Drawn(batches[b], q).left = batches[b].left - q
<1>1. /\ batches[b] \in BatchType /\ batches[b].left \in Nat /\ q \in Nat
      /\ batches[b].left - q \in Nat
  BY BatchTyped
<1>2. CASE q = 0
  BY <1>1, <1>2 DEF Drawn
<1>3. CASE q # 0
  <2>1. Drawn(batches[b], q) = [batches[b] EXCEPT !.left = batches[b].left - q,
                                !.status = IF batches[b].left = q THEN "DEPLETED" ELSE "ACTIVE"]
    BY <1>3 DEF Drawn
  <2> QED
    BY <1>1, <2>1 DEF BatchType
<1> QED
  BY <1>2, <1>3

LEMMA NewBatchTyped ==
  ASSUME NEW m \in Materials, NEW q \in Nat, NEW cost \in Nat
  PROVE  /\ NewBatch(m, q, cost) \in BatchType
         /\ NewBatch(m, q, cost).initial = q /\ NewBatch(m, q, cost).left = q
         /\ NewBatch(m, q, cost).used = 0 /\ NewBatch(m, q, cost).material = m
         /\ NewBatch(m, q, cost).cost = cost /\ NewBatch(m, q, cost).status = "ACTIVE"
BY DEF NewBatch, BatchType

\* A batch more, or another status: nothing moves.
LEMMA AppendKeeps ==
  ASSUME StockInv, NEW new \in BatchType, new.initial = new.left, new.used = 0,
         batches' = Append(batches, new)
  PROVE  batches' \in Seq(BatchType) /\ Kept
<1>1. /\ batches' \in Seq(BatchType) /\ Len(batches) \in Nat
      /\ DOMAIN batches = 1..Len(batches) /\ DOMAIN batches' = 1..(Len(batches) + 1)
      /\ \A b \in DOMAIN batches : batches'[b] = batches[b]
      /\ batches'[Len(batches) + 1] = new
  BY DEF StockInv
<1> QED
  BY <1>1 DEF Kept

LEMMA StatusKeeps ==
  ASSUME StockInv, NEW b \in DOMAIN batches, NEW status_ \in {"EXPIRED", "QUARANTINED"},
         batches' = [batches EXCEPT ![b].status = status_]
  PROVE  batches' \in Seq(BatchType) /\ Kept
<1>1. DOMAIN batches' = DOMAIN batches
  OBVIOUS
<1>2. \A x \in DOMAIN batches :
        /\ batches'[x] \in BatchType
        /\ batches'[x].material = batches[x].material /\ batches'[x].cost = batches[x].cost
        /\ batches'[x].initial = batches[x].initial
        /\ batches'[x].left = batches[x].left /\ batches'[x].used = batches[x].used
  BY BatchTyped DEF BatchType
<1>3. batches' \in Seq(BatchType)
  BY <1>1, <1>2, SeqDef DEF StockInv
<1> QED
  BY <1>1, <1>2, <1>3 DEF Kept

\* One call moves on.
LEMMA CallChanges ==
  ASSUME StockInv, NEW c \in Calls, NEW new \in CallType, call' = [call EXCEPT ![c] = new]
  PROVE  /\ call' \in [Calls -> CallType] /\ call'[c] = new
         /\ \A d \in Calls \ {c} : call'[d] = call[d]
BY DEF StockInv

LEMMA CallMoves ==
  ASSUME StockInv, NEW c \in Calls,
         NEW pc \in {"adjust", "purchase", "expire", "expiring", "quarantine", "quarantining", "done"},
         call' = [call EXCEPT ![c].pc = pc]
  PROVE  /\ call' \in [Calls -> CallType] /\ call'[c].pc = pc
         /\ call'[c].material = call[c].material /\ call'[c].due = call[c].due
         /\ call'[c].batch = call[c].batch
         /\ \A d \in Calls \ {c} : call'[d] = call[d]
<1> DEFINE new == [call[c] EXCEPT !.pc = pc]
<1>1. /\ new \in CallType /\ new.pc = pc /\ new.material = call[c].material
      /\ new.due = call[c].due /\ new.batch = call[c].batch
  BY CallTyped DEF CallType
<1>2. call' = [call EXCEPT ![c] = new]
  OBVIOUS
<1> HIDE DEF new
<1> QED
  BY <1>1, <1>2, CallChanges

LEMMA DeductStep ==
  ASSUME StockInv, NEW c \in Calls, Deduct(c)
  PROVE  StockInv' /\ Kept
<1>1. PICK m \in Materials, q \in Quantities :
        /\ call' = [call EXCEPT ![c].pc = "done", ![c].kind = "deduct"]
        /\ \/ UNCHANGED <<stock, batches>>
           \/ LET taken == Draw(Available(m), 0, q) IN
              /\ batches' = [b \in DOMAIN batches |->
                   [Drawn(batches[b], taken[b]) EXCEPT !.used = @ + taken[b]]]
              /\ stock' = [stock EXCEPT ![m] = @ - q]
  BY DEF Deduct
<1>2. /\ call' \in [Calls -> CallType] /\ q \in Nat /\ call'[c].pc = "done"
      /\ \A d \in Calls \ {c} : call'[d] = call[d]
  <2> DEFINE new == [call[c] EXCEPT !.pc = "done", !.kind = "deduct"]
  <2>1. new \in CallType /\ new.pc = "done"
    BY CallTyped DEF CallType
  <2>2. call' = [call EXCEPT ![c] = new]
    BY <1>1
  <2> HIDE DEF new
  <2> QED
    BY <2>1, <2>2, CallChanges, StockAssumption
<1>3. CASE UNCHANGED <<stock, batches>>
  BY <1>2, <1>3 DEF StockInv, CallOk, Kept
<1>4. CASE LET taken == Draw(Available(m), 0, q) IN
           /\ batches' = [b \in DOMAIN batches |->
                [Drawn(batches[b], taken[b]) EXCEPT !.used = @ + taken[b]]]
           /\ stock' = [stock EXCEPT ![m] = @ - q]
  <2> DEFINE taken == Draw(Available(m), 0, q)
  <2>1. \A b \in DOMAIN batches : taken[b] \in 0..batches[b].left
    <3>1. \A b \in DOMAIN batches : taken[b] \in 0..Available(m)[b] /\ Available(m)[b] \in Nat
      BY <1>2, AvailableStack, DrawIs DEF Stack
    <3> HIDE DEF taken
    <3> QED
      BY <3>1, AvailableStack, BatchTyped
  <2>2. batches' = [b \in DOMAIN batches |->
                      [Drawn(batches[b], taken[b]) EXCEPT !.used = @ + taken[b]]]
    BY <1>4
  <2> HIDE DEF taken
  <2>3. ASSUME NEW b \in DOMAIN batches
        PROVE  /\ batches'[b] \in BatchType
               /\ batches'[b].material = batches[b].material /\ batches'[b].cost = batches[b].cost
               /\ batches'[b].initial = batches[b].initial
               /\ batches'[b].left + batches'[b].used = batches[b].left + batches[b].used
    <3> DEFINE d == Drawn(batches[b], taken[b])
    <3>1. /\ d \in BatchType /\ d.material = batches[b].material /\ d.cost = batches[b].cost
          /\ d.initial = batches[b].initial /\ d.used = batches[b].used
          /\ d.left = batches[b].left - taken[b] /\ taken[b] \in Nat
          /\ batches[b].left \in Nat /\ batches[b].used \in Nat
      BY <2>1, DrawnRow, BatchTyped
    <3>2. batches'[b] = [d EXCEPT !.used = d.used + taken[b]]
      BY <2>2
    <3> HIDE DEF d
    <3> QED
      BY <3>1, <3>2 DEF BatchType
  <2>4. DOMAIN batches' = DOMAIN batches
    BY <2>2
  <2>5. batches' \in Seq(BatchType)
    <3>1. Len(batches) \in Nat /\ DOMAIN batches = 1..Len(batches)
      BY DEF StockInv
    <3>2. batches' \in [1..Len(batches) -> BatchType]
      BY <2>2, <2>3, <3>1
    <3> QED
      BY <3>1, <3>2, SeqDef
  <2>6. stock' \in [Materials -> Int]
    BY <1>2, <1>4 DEF StockInv
  <2> QED
    BY <1>2, <2>3, <2>4, <2>5, <2>6 DEF StockInv, CallOk, Kept
<1> QED
  BY <1>1, <1>3, <1>4

\* The calls that create a batch.
LEMMA AddSteps ==
  ASSUME StockInv, NEW c \in Calls, AdjustRead(c) \/ AdjustWrite(c) \/ PurchaseBatch(c) \/ PurchaseStock(c)
  PROVE  StockInv' /\ Kept
<1>1. CASE AdjustRead(c)
  <2>1. PICK m \in Materials, q \in Quantities :
          /\ call' = [call EXCEPT ![c].pc = "adjust", ![c].kind = "adjust", ![c].material = m,
                                  ![c].quantity = q, ![c].seen = stock[m]]
          /\ UNCHANGED <<stock, batches>>
    BY <1>1 DEF AdjustRead
  <2> DEFINE new == [call[c] EXCEPT !.pc = "adjust", !.kind = "adjust", !.material = m,
                                    !.quantity = q, !.seen = stock[m]]
  <2>2. q \in Nat /\ stock[m] \in Int
    BY StockAssumption DEF StockInv
  <2>3. new \in CallType /\ new.pc = "adjust" /\ new.material = m
    BY <2>2, CallTyped DEF CallType
  <2>4. call' = [call EXCEPT ![c] = new]
    BY <2>1
  <2> HIDE DEF new
  <2>5. /\ call' \in [Calls -> CallType] /\ call'[c].pc = "adjust" /\ call'[c].material = m
        /\ \A d \in Calls \ {c} : call'[d] = call[d]
    BY <2>3, <2>4, CallChanges
  <2> QED
    BY <2>1, <2>5 DEF StockInv, CallOk, Kept
<1>2. CASE AdjustWrite(c)
  <2> DEFINE new == NewBatch(call[c].material, call[c].quantity, 1)
  <2>1. /\ new \in BatchType /\ new.initial = new.left /\ new.used = 0
        /\ call[c].material \in Materials
    BY <1>2, CallTyped, NewBatchTyped DEF AdjustWrite, StockInv, CallOk
  <2>2. batches' = Append(batches, new)
    BY <1>2 DEF AdjustWrite
  <2> HIDE DEF new
  <2>3. batches' \in Seq(BatchType) /\ Kept
    BY <2>1, <2>2, AppendKeeps
  <2>4. stock' \in [Materials -> Int]
    BY <1>2, <2>1, CallTyped DEF AdjustWrite, StockInv
  <2>5. call' \in [Calls -> CallType] /\ call'[c].pc = "done" /\ \A d \in Calls \ {c} : call'[d] = call[d]
    BY <1>2, CallMoves DEF AdjustWrite, Finish
  <2> QED
    BY <2>3, <2>4, <2>5 DEF StockInv, CallOk, Kept
<1>3. CASE PurchaseBatch(c)
  <2>1. PICK m \in Materials, q \in Quantities :
          /\ call' = [call EXCEPT ![c].pc = "purchase", ![c].kind = "purchase",
                            ![c].material = m, ![c].quantity = q, ![c].seen = stock[m]]
          /\ batches' = Append(batches, NewBatch(m, q, 1))
          /\ UNCHANGED stock
    BY <1>3 DEF PurchaseBatch
  <2> DEFINE new == NewBatch(m, q, 1)
  <2>2. q \in Nat /\ stock[m] \in Int
    BY StockAssumption DEF StockInv
  <2>3. new \in BatchType /\ new.initial = new.left /\ new.used = 0
    BY <2>2, NewBatchTyped
  <2> HIDE DEF new
  <2>4. batches' \in Seq(BatchType) /\ Kept
    BY <2>1, <2>3, AppendKeeps DEF new
  <2>5. /\ call' \in [Calls -> CallType] /\ call'[c].pc = "purchase" /\ call'[c].material = m
        /\ \A d \in Calls \ {c} : call'[d] = call[d]
    <3> DEFINE it == [call[c] EXCEPT !.pc = "purchase", !.kind = "purchase", !.material = m,
                                     !.quantity = q, !.seen = stock[m]]
    <3>1. it \in CallType /\ it.pc = "purchase" /\ it.material = m
      BY <2>2, CallTyped DEF CallType
    <3>2. call' = [call EXCEPT ![c] = it]
      BY <2>1
    <3> HIDE DEF it
    <3> QED
      BY <3>1, <3>2, CallChanges
  <2> QED
    BY <2>1, <2>4, <2>5 DEF StockInv, CallOk, Kept
<1>4. CASE PurchaseStock(c)
  <2>1. call[c].material \in Materials
    BY <1>4 DEF PurchaseStock, StockInv, CallOk
  <2>2. stock' \in [Materials -> Int]
    BY <1>4, <2>1, CallTyped DEF PurchaseStock, Purchased, StockInv
  <2>3. call' \in [Calls -> CallType] /\ call'[c].pc = "done" /\ \A d \in Calls \ {c} : call'[d] = call[d]
    BY <1>4, CallMoves DEF PurchaseStock, Finish
  <2>4. UNCHANGED batches
    BY <1>4 DEF PurchaseStock
  <2> QED
    BY <2>2, <2>3, <2>4 DEF StockInv, CallOk, Kept
<1> QED
  BY <1>1, <1>2, <1>3, <1>4

\* The calls that take a batch out of FIFO.
LEMMA RemoveSteps ==
  ASSUME StockInv, NEW c \in Calls,
         \/ ExpireScan(c) \/ ExpireClaim(c) \/ ExpireWrite(c)
         \/ QuarantineRead(c) \/ QuarantineClaim(c) \/ QuarantineWrite(c)
  PROVE  StockInv' /\ Kept
<1>0. DOMAIN batches \subseteq Nat
  BY DEF StockInv
<1>1. CASE ExpireScan(c)
  <2>1. PICK due \in SUBSET DOMAIN batches :
          /\ call' = [call EXCEPT ![c].pc = "expire", ![c].kind = "expire", ![c].due = due]
          /\ UNCHANGED <<stock, batches>>
    BY <1>1 DEF ExpireScan
  <2> DEFINE new == [call[c] EXCEPT !.pc = "expire", !.kind = "expire", !.due = due]
  <2>2. new \in CallType /\ new.pc = "expire" /\ new.due = due
    BY <1>0, CallTyped DEF CallType
  <2>3. call' = [call EXCEPT ![c] = new]
    BY <2>1
  <2> HIDE DEF new
  <2>4. /\ call' \in [Calls -> CallType] /\ call'[c].pc = "expire" /\ call'[c].due = due
        /\ \A d \in Calls \ {c} : call'[d] = call[d]
    BY <2>2, <2>3, CallChanges
  <2> QED
    BY <2>1, <2>4 DEF StockInv, CallOk, Kept
<1>2. CASE ExpireClaim(c)
  <2>1. PICK b \in call[c].due :
          /\ call[c].pc = "expire"
          /\ call' = [call EXCEPT
               ![c].pc = IF batches[b].status = "ACTIVE" THEN "expiring" ELSE NextDue(call[c].due \ {b}),
               ![c].due = @ \ {b}, ![c].batch = b, ![c].seen = stock[batches[b].material]]
          /\ UNCHANGED <<stock, batches>>
    BY <1>2 DEF ExpireClaim
  <2>2. call[c].due \subseteq DOMAIN batches /\ b \in DOMAIN batches
    BY <2>1 DEF StockInv, CallOk
  <2>3. b \in Nat /\ stock[batches[b].material] \in Int
    BY <1>0, <2>2, BatchTyped DEF StockInv
  <2> DEFINE pc == IF batches[b].status = "ACTIVE" THEN "expiring" ELSE NextDue(call[c].due \ {b})
             new == [call[c] EXCEPT !.pc = pc, !.due = call[c].due \ {b}, !.batch = b,
                                    !.seen = stock[batches[b].material]]
  <2>6. pc \in {"expiring", "expire", "done"} /\ call[c].due \ {b} \in SUBSET Nat
    BY <1>0, <2>2 DEF NextDue
  <2> HIDE DEF pc
  <2>7. /\ new \in CallType /\ new.pc = pc /\ new.due = call[c].due \ {b} /\ new.batch = b
    BY <2>3, <2>6, CallTyped DEF CallType
  <2>8. call' = [call EXCEPT ![c] = new]
    BY <2>1 DEF pc
  <2> HIDE DEF new
  <2>4. /\ call' \in [Calls -> CallType] /\ call'[c] = new
        /\ \A d \in Calls \ {c} : call'[d] = call[d]
    BY <2>7, <2>8, CallChanges
  <2>5. /\ call'[c].due \subseteq DOMAIN batches /\ call'[c].batch \in DOMAIN batches
        /\ call'[c].pc \in {"expiring", "expire", "done"}
        /\ \A d \in Calls \ {c} : call'[d] = call[d]
    BY <2>2, <2>4, <2>6, <2>7
  <2> QED
    BY <2>1, <2>4, <2>5 DEF StockInv, CallOk, Kept
<1>3. CASE ExpireWrite(c)
  <2> DEFINE b == call[c].batch
  <2>1. b \in DOMAIN batches /\ call[c].due \subseteq DOMAIN batches
    BY <1>3 DEF ExpireWrite, StockInv, CallOk
  <2>2. /\ batches' = [batches EXCEPT ![b].status = "EXPIRED"]
        /\ stock' = [stock EXCEPT ![batches[b].material] = call[c].seen - batches[b].left]
        /\ call' = [call EXCEPT ![c].pc = NextDue(call[c].due)]
    BY <1>3 DEF ExpireWrite
  <2>3. stock' \in [Materials -> Int]
    BY <2>1, <2>2, BatchTyped, CallTyped DEF StockInv
  <2> HIDE DEF b
  <2>4. batches' \in Seq(BatchType) /\ Kept
    BY <2>1, <2>2, StatusKeeps
  <2>5. call' \in [Calls -> CallType] /\ call'[c].pc \in {"expire", "done"} /\ call'[c].due = call[c].due
        /\ \A d \in Calls \ {c} : call'[d] = call[d]
    <3>1. NextDue(call[c].due) \in {"expire", "done"}
      BY DEF NextDue
    <3> QED
      BY <2>2, <3>1, CallMoves
  <2> QED
    BY <2>1, <2>3, <2>4, <2>5 DEF StockInv, CallOk, Kept
<1>4. CASE QuarantineRead(c)
  <2>1. PICK b \in DOMAIN batches :
          /\ call' = [call EXCEPT ![c].pc = "quarantine", ![c].kind = "quarantine",
                            ![c].batch = b, ![c].wasActive = batches[b].status = "ACTIVE"]
          /\ UNCHANGED <<stock, batches>>
    BY <1>4 DEF QuarantineRead
  <2> DEFINE new == [call[c] EXCEPT !.pc = "quarantine", !.kind = "quarantine", !.batch = b,
                                    !.wasActive = batches[b].status = "ACTIVE"]
  <2>2. new \in CallType /\ new.pc = "quarantine" /\ new.batch = b
    BY <1>0, CallTyped DEF CallType
  <2>3. call' = [call EXCEPT ![c] = new]
    BY <2>1
  <2> HIDE DEF new
  <2>4. /\ call' \in [Calls -> CallType] /\ call'[c].pc = "quarantine" /\ call'[c].batch = b
        /\ \A d \in Calls \ {c} : call'[d] = call[d]
    BY <2>2, <2>3, CallChanges
  <2> QED
    BY <2>1, <2>4 DEF StockInv, CallOk, Kept
<1>5. CASE QuarantineClaim(c)
  <2> DEFINE b == call[c].batch
  <2>1. b \in DOMAIN batches
    BY <1>5 DEF QuarantineClaim, StockInv, CallOk
  <2>2. \/ /\ call' = [call EXCEPT ![c].pc = "quarantining", ![c].seen = stock[batches[b].material]]
           /\ UNCHANGED batches
        \/ /\ Finish(c)
           /\ batches' = [batches EXCEPT ![b].status = "QUARANTINED"]
    BY <1>5 DEF QuarantineClaim
  <2>3. stock' = stock /\ stock[batches[b].material] \in Int
    BY <1>5, <2>1, BatchTyped DEF QuarantineClaim, StockInv
  <2>4. /\ call' \in [Calls -> CallType] /\ call'[c].pc \in {"quarantining", "done"}
        /\ call'[c].batch = call[c].batch /\ \A d \in Calls \ {c} : call'[d] = call[d]
    <3>1. CASE call' = [call EXCEPT ![c].pc = "quarantining", ![c].seen = stock[batches[b].material]]
      <4> DEFINE new == [call[c] EXCEPT !.pc = "quarantining", !.seen = stock[batches[b].material]]
      <4>1. new \in CallType /\ new.pc = "quarantining" /\ new.batch = call[c].batch
        BY <2>3, CallTyped DEF CallType
      <4>2. call' = [call EXCEPT ![c] = new]
        BY <3>1
      <4> HIDE DEF new
      <4> QED
        BY <4>1, <4>2, CallChanges
    <3>2. CASE Finish(c)
      BY <3>2, CallMoves DEF Finish
    <3> QED
      BY <2>2, <3>1, <3>2
  <2>5. batches' \in Seq(BatchType) /\ Kept
    <3>1. CASE UNCHANGED batches
      BY <3>1 DEF StockInv, Kept
    <3>2. CASE batches' = [batches EXCEPT ![b].status = "QUARANTINED"]
      BY <2>1, <3>2, StatusKeeps
    <3> QED
      BY <2>2, <3>1, <3>2
  <2> QED
    BY <2>1, <2>3, <2>4, <2>5 DEF StockInv, CallOk, Kept
<1>6. CASE QuarantineWrite(c)
  <2> DEFINE b == call[c].batch
  <2>1. b \in DOMAIN batches
    BY <1>6 DEF QuarantineWrite, StockInv, CallOk
  <2>2. /\ batches' = [batches EXCEPT ![b].status = "QUARANTINED"]
        /\ stock' = [stock EXCEPT ![batches[b].material] = call[c].seen - batches[b].left]
        /\ Finish(c)
    BY <1>6 DEF QuarantineWrite
  <2>3. stock' \in [Materials -> Int]
    BY <2>1, <2>2, BatchTyped, CallTyped DEF StockInv
  <2> HIDE DEF b
  <2>4. batches' \in Seq(BatchType) /\ Kept
    BY <2>1, <2>2, StatusKeeps
  <2>5. call' \in [Calls -> CallType] /\ call'[c].pc = "done" /\ \A d \in Calls \ {c} : call'[d] = call[d]
    BY <2>2, CallMoves DEF Finish
  <2> QED
    BY <2>3, <2>4, <2>5 DEF StockInv, CallOk, Kept
<1> QED
  BY <1>1, <1>2, <1>3, <1>4, <1>5, <1>6

LEMMA StockSteps ==
  ASSUME StockInv, NEW c \in Calls, StockStep(c)
  PROVE  StockInv' /\ Kept
<1>1. CASE CallFails(c)
  <2>1. /\ call' \in [Calls -> CallType] /\ UNCHANGED <<stock, batches>>
        /\ call'[c].pc = "done" /\ \A d \in Calls \ {c} : call'[d] = call[d]
    <3> DEFINE new == [call[c] EXCEPT !.pc = "done", !.failed = TRUE]
    <3>1. new \in CallType /\ new.pc = "done"
      BY CallTyped DEF CallType
    <3>2. call' = [call EXCEPT ![c] = new]
      BY <1>1 DEF CallFails
    <3> HIDE DEF new
    <3> QED
      BY <1>1, <3>1, <3>2, CallChanges DEF CallFails
  <2> QED
    BY <2>1 DEF StockInv, CallOk, Kept
<1> QED
  BY <1>1, DeductStep, AddSteps, RemoveSteps DEF StockStep

-----------------------------------------------------------------------------
(* The receipts and the resolutions of a transfer.                          *)

\* What a recorded receipt, or resolution, says is a quantity.
RecordsTyped ==
  /\ DOMAIN receipts = Transfers /\ DOMAIN resolutions = Transfers
  /\ \A t \in Transfers :
       /\ IsFiniteSet(DOMAIN receipts[t]) /\ IsFiniteSet(DOMAIN resolutions[t])
       /\ \A k \in DOMAIN receipts[t] : \A i \in DOMAIN receipts[t][k] : receipts[t][k][i] \in Nat
       /\ \A k \in DOMAIN resolutions[t] : \A i \in DOMAIN resolutions[t][k] :
            resolutions[t][k][i].quantity \in Nat /\ resolutions[t][k][i].reason \in Reasons

\* What the recorded receipts of an item say that it received.
Got(i) ==
  LET got == receipts[TransferOf[i]] IN
  SumOver({k \in DOMAIN got : i \in DOMAIN got[k]}, LAMBDA k : got[k][i])

Counted == \A i \in Items : received[i] = Got(i) /\ resolved[i] = ResolvedFor(i, Reasons)

\* The lines of an item with one of the reasons.
LinesOf(i, reasons) ==
  {k \in DOMAIN resolutions[TransferOf[i]] :
     /\ i \in DOMAIN resolutions[TransferOf[i]][k]
     /\ resolutions[TransferOf[i]][k][i].reason \in reasons}

LEMMA ResolvedLines ==
  ASSUME RecordsTyped, NEW i \in Items, NEW reasons
  PROVE  /\ ResolvedFor(i, reasons)
              = SumFunctionOnSet([k \in LinesOf(i, reasons) |-> resolutions[TransferOf[i]][k][i].quantity],
                                 LinesOf(i, reasons))
         /\ Summable([k \in LinesOf(i, reasons) |-> resolutions[TransferOf[i]][k][i].quantity],
                     LinesOf(i, reasons))
         /\ ResolvedFor(i, reasons) \in Nat
<1> DEFINE S == LinesOf(i, reasons)
           f == [k \in S |-> resolutions[TransferOf[i]][k][i].quantity]
<1>1. ResolvedFor(i, reasons) = SumFunctionOnSet(f, S)
  BY DEF ResolvedFor, SumOver, LinesOf
<1>2. TransferOf[i] \in Transfers
  BY TransfersAssumption
<1>3. IsFiniteSet(S)
  BY <1>2, FS_Subset DEF LinesOf, RecordsTyped
<1>4. \A k \in S : f[k] \in Nat
  BY <1>2 DEF LinesOf, RecordsTyped
<1>5. Summable(f, S)
  BY <1>3, <1>4 DEF Summable
<1> QED
  BY <1>1, <1>5, SumType

\* What was not sent, and what was lost.
LEMMA ResolvedSplit ==
  ASSUME RecordsTyped, NEW i \in Items
  PROVE  ResolvedFor(i, Reasons) = ResolvedFor(i, {"NOT_DISPATCHED"}) + Lost(i)
<1> DEFINE A == LinesOf(i, {"NOT_DISPATCHED"})
           B == LinesOf(i, Reasons \ {"NOT_DISPATCHED"})
           q(S) == [k \in S |-> resolutions[TransferOf[i]][k][i].quantity]
<1>1. A \cup B = LinesOf(i, Reasons) /\ A \cap B = {}
  BY DEF LinesOf, Reasons
<1>2. Summable(q(A), A) /\ Summable(q(B), B) /\ Summable(q(A \cup B), A \cup B)
  BY <1>1, ResolvedLines
<1>3. Summable(q(A \cup B), A) /\ Summable(q(A \cup B), B)
  BY <1>2, FS_Subset DEF Summable
<1>4. /\ SumFunctionOnSet(q(A \cup B), A) = SumFunctionOnSet(q(A), A)
      /\ SumFunctionOnSet(q(A \cup B), B) = SumFunctionOnSet(q(B), B)
  <2>1. (\A k \in A : q(A \cup B)[k] = q(A)[k]) /\ (\A k \in B : q(A \cup B)[k] = q(B)[k])
    OBVIOUS
  <2> HIDE DEF A, B, q
  <2> QED
    BY <1>3, <2>1, SumSame
<1>5. SumFunctionOnSet(q(A \cup B), A \cup B)
        = SumFunctionOnSet(q(A \cup B), A) + SumFunctionOnSet(q(A \cup B), B)
  <2> HIDE DEF A, B, q
  <2> QED
    BY <1>1, <1>3, SumUnion
<1>6. /\ ResolvedFor(i, {"NOT_DISPATCHED"}) = SumFunctionOnSet(q(A), A)
      /\ Lost(i) = SumFunctionOnSet(q(B), B)
      /\ ResolvedFor(i, Reasons) = SumFunctionOnSet(q(A \cup B), A \cup B)
  BY <1>1, ResolvedLines DEF Lost
<1> HIDE DEF A, B, q
<1> QED
  BY <1>4, <1>5, <1>6

\* A receipt is recorded.
ReceiptRecorded(t, k, p) ==
  /\ k \notin DOMAIN receipts[t] /\ \A i \in DOMAIN p : p[i] \in Nat
  /\ receipts' = [receipts EXCEPT ![t] = [j \in DOMAIN @ \cup {k} |-> IF j = k THEN p ELSE @[j]]]
  /\ UNCHANGED resolutions

LEMMA GotMore ==
  ASSUME RecordsTyped, NEW t \in Transfers, NEW k, NEW p, ReceiptRecorded(t, k, p)
  PROVE  /\ RecordsTyped'
         /\ \A i \in Items : Got(i)' = Got(i) + (IF TransferOf[i] = t /\ i \in DOMAIN p THEN p[i] ELSE 0)
<1>1. /\ DOMAIN receipts' = Transfers /\ \A u \in Transfers \ {t} : receipts'[u] = receipts[u]
      /\ receipts'[t] = [j \in DOMAIN receipts[t] \cup {k} |-> IF j = k THEN p ELSE receipts[t][j]]
  BY DEF ReceiptRecorded, RecordsTyped
<1>2. IsFiniteSet(DOMAIN receipts[t] \cup {k})
  BY FS_AddElement DEF RecordsTyped
<1>3. RecordsTyped'
  BY <1>1, <1>2 DEF RecordsTyped, ReceiptRecorded
<1>4. ASSUME NEW i \in Items
      PROVE  Got(i)' = Got(i) + (IF TransferOf[i] = t /\ i \in DOMAIN p THEN p[i] ELSE 0)
  <2> DEFINE u == TransferOf[i]
             S == {j \in DOMAIN receipts[u] : i \in DOMAIN receipts[u][j]}
             f == [j \in S |-> receipts[u][j][i]]
             R == {j \in DOMAIN receipts'[u] : i \in DOMAIN receipts'[u][j]}
             g == [j \in R |-> receipts'[u][j][i]]
  <2>1. Got(i) = SumFunctionOnSet(f, S) /\ Got(i)' = SumFunctionOnSet(g, R)
    BY DEF Got, SumOver
  <2>2. u \in Transfers
    BY TransfersAssumption
  <2>3. Summable(f, S) /\ Summable(g, R)
    <3>1. IsFiniteSet(S) /\ IsFiniteSet(R)
      BY <1>3, <2>2, FS_Subset DEF RecordsTyped
    <3>2. \A j \in S : f[j] \in Nat
      BY <2>2 DEF RecordsTyped
    <3>3. \A j \in R : g[j] \in Nat
      BY <1>3, <2>2 DEF RecordsTyped
    <3> QED
      BY <3>1, <3>2, <3>3 DEF Summable
  <2>4. CASE u = t /\ i \in DOMAIN p
    <3> DEFINE n == p[i]
    <3>1. R = S \cup {k} /\ k \notin S /\ g[k] = n /\ n \in Nat /\ \A j \in S : g[j] = f[j]
      BY <1>1, <2>4 DEF ReceiptRecorded
    <3> HIDE DEF S, R, f, g, n
    <3>2. SumFunctionOnSet(g, S \cup {k}) = SumFunctionOnSet(f, S) + n
      BY ONLY <2>3, <3>1, SumExtend
    <3> QED
      BY <2>1, <2>4, <3>1, <3>2 DEF u, n
  <2>5. CASE ~ (u = t /\ i \in DOMAIN p)
    <3>1. R = S /\ \A j \in S : g[j] = f[j]
      BY <1>1, <2>2, <2>5 DEF ReceiptRecorded
    <3> HIDE DEF S, R, f, g
    <3>2. SumFunctionOnSet(g, R) = SumFunctionOnSet(f, S) /\ SumFunctionOnSet(f, S) \in Nat
      BY <2>3, <3>1, SumSame, SumType
    <3> QED
      BY <2>1, <2>5, <3>2 DEF u
  <2> QED
    BY <2>4, <2>5
<1> QED
  BY <1>3, <1>4

\* A resolution is recorded.
ResolutionRecorded(t, k, p) ==
  /\ k \notin DOMAIN resolutions[t]
  /\ \A i \in DOMAIN p : p[i].quantity \in Nat /\ p[i].reason \in Reasons
  /\ resolutions' = [resolutions EXCEPT ![t] = [j \in DOMAIN @ \cup {k} |-> IF j = k THEN p ELSE @[j]]]
  /\ UNCHANGED receipts

LEMMA ResolvedMore ==
  ASSUME RecordsTyped, NEW t \in Transfers, NEW k, NEW p, ResolutionRecorded(t, k, p)
  PROVE  /\ RecordsTyped'
         /\ \A i \in Items : \A reasons :
              ResolvedFor(i, reasons)'
                = ResolvedFor(i, reasons)
                    + (IF TransferOf[i] = t /\ i \in DOMAIN p /\ p[i].reason \in reasons
                       THEN p[i].quantity ELSE 0)
<1>1. /\ DOMAIN resolutions' = Transfers
      /\ \A u \in Transfers \ {t} : resolutions'[u] = resolutions[u]
      /\ resolutions'[t] = [j \in DOMAIN resolutions[t] \cup {k} |-> IF j = k THEN p ELSE resolutions[t][j]]
  BY DEF ResolutionRecorded, RecordsTyped
<1>2. IsFiniteSet(DOMAIN resolutions[t] \cup {k})
  BY FS_AddElement DEF RecordsTyped
<1>3. RecordsTyped'
  BY <1>1, <1>2 DEF RecordsTyped, ResolutionRecorded
<1>4. ASSUME NEW i \in Items, NEW reasons
      PROVE  ResolvedFor(i, reasons)'
               = ResolvedFor(i, reasons)
                   + (IF TransferOf[i] = t /\ i \in DOMAIN p /\ p[i].reason \in reasons
                      THEN p[i].quantity ELSE 0)
  <2> DEFINE u == TransferOf[i]
             S == LinesOf(i, reasons)
             f == [j \in S |-> resolutions[u][j][i].quantity]
             R == LinesOf(i, reasons)'
             g == [j \in R |-> resolutions'[u][j][i].quantity]
  <2>1. /\ ResolvedFor(i, reasons) = SumFunctionOnSet(f, S) /\ Summable(f, S)
        /\ ResolvedFor(i, reasons)' = SumFunctionOnSet(g, R) /\ Summable(g, R)
    <3>1. ResolvedFor(i, reasons) = SumFunctionOnSet(f, S) /\ Summable(f, S)
      BY ResolvedLines
    <3>2. ResolvedFor(i, reasons)' = SumFunctionOnSet(g, R)
      BY DEF ResolvedFor, SumOver, LinesOf
    <3>3. Summable(g, R)
      <4>1. u \in Transfers
        BY TransfersAssumption
      <4>2. IsFiniteSet(R)
        BY <1>3, <4>1, FS_Subset DEF LinesOf, RecordsTyped
      <4>3. \A j \in R : g[j] \in Nat
        BY <1>3, <4>1 DEF LinesOf, RecordsTyped
      <4> QED
        BY <4>2, <4>3 DEF Summable
    <3> QED
      BY <3>1, <3>2, <3>3
  <2>2. u \in Transfers
    BY TransfersAssumption
  <2>3. CASE u = t /\ i \in DOMAIN p /\ p[i].reason \in reasons
    <3> DEFINE n == p[i].quantity
    <3>1. /\ R = S \cup {k} /\ k \notin S /\ g[k] = n /\ n \in Nat
          /\ \A j \in S : g[j] = f[j]
      BY <1>1, <2>3 DEF ResolutionRecorded, LinesOf
    <3> HIDE DEF S, R, f, g, n
    <3>2. SumFunctionOnSet(g, S \cup {k}) = SumFunctionOnSet(f, S) + n
      <4>1. Summable(f, S) /\ k \notin S /\ g[k] = n /\ n \in Nat /\ \A j \in S : g[j] = f[j]
        BY <2>1, <3>1
      <4> QED
        BY ONLY <4>1, SumExtend
    <3> QED
      BY <2>1, <2>3, <3>1, <3>2 DEF u, n
  <2>4. CASE ~ (u = t /\ i \in DOMAIN p /\ p[i].reason \in reasons)
    <3>1. R = S /\ \A j \in S : g[j] = f[j]
      BY <1>1, <2>2, <2>4 DEF ResolutionRecorded, LinesOf
    <3> HIDE DEF S, R, f, g
    <3>2. SumFunctionOnSet(g, R) = SumFunctionOnSet(f, S) /\ SumFunctionOnSet(f, S) \in Nat
      BY <2>1, <3>1, SumSame, SumType
    <3> QED
      BY <2>1, <2>4, <3>2 DEF u
  <2> QED
    BY <2>3, <2>4
<1> QED
  BY <1>3, <1>4

\* A request for lines gives each a quantity and a reason.
LEMMA RequestsReasons ==
  ASSUME NEW t, NEW p \in Requests(t, Lines)
  PROVE  \A i \in DOMAIN p : p[i].reason \in Reasons
  BY DEF Requests, Lines

\* What the rows say is what the records add up to.
RecordInv == RowInv /\ RecordsTyped /\ Counted

LEMMA RecordInit == Init => RecordInv
<1> SUFFICES ASSUME Init PROVE RecordInv
  OBVIOUS
<1>1. RowInv
  BY InitRowInv
<1>2. /\ DOMAIN receipts = Transfers /\ DOMAIN resolutions = Transfers
      /\ \A t \in Transfers : DOMAIN receipts[t] = {} /\ DOMAIN resolutions[t] = {}
  BY DEF Init, TransferInit
<1>3. RecordsTyped
  BY <1>2, FS_EmptySet DEF RecordsTyped
<1>4. ASSUME NEW i \in Items
      PROVE  received[i] = Got(i) /\ resolved[i] = ResolvedFor(i, Reasons)
  <2>1. TransferOf[i] \in Transfers /\ received[i] = 0 /\ resolved[i] = 0
    BY TransfersAssumption DEF Init, TransferInit
  <2>2. {k \in DOMAIN receipts[TransferOf[i]] : i \in DOMAIN receipts[TransferOf[i]][k]} = {}
    BY <1>2, <2>1
  <2>3. Got(i) = 0
    BY <2>2, SumEmpty DEF Got, SumOver
  <2>4. LinesOf(i, Reasons) = {}
    BY <1>2, <2>1 DEF LinesOf
  <2>5. ResolvedFor(i, Reasons) = 0
    BY <1>3, <2>4, ResolvedLines, SumEmpty
  <2> QED
    BY <2>1, <2>3, <2>5
<1> QED
  BY <1>1, <1>3, <1>4 DEF RecordInv, Counted

\* A receipt adds to what was received what it adds to the records.
LEMMA RecordReceive ==
  ASSUME RecordInv, NEW t \in Transfers, NEW k, NEW p \in Requests(t, Asked), NEW turn,
         Receive(t, k, p, turn)
  PROVE  RecordsTyped' /\ Counted'
<1>1. ReceiptRecorded(t, k, p)
  <2>1. \A i \in DOMAIN p : p[i] \in Nat
    BY RequestsAsked, TransfersAssumption DEF ItemsOf
  <2> QED
    BY <2>1 DEF Receive, Replayed, ReceiptRecorded
<1>2. /\ RecordsTyped'
      /\ \A i \in Items : Got(i)' = Got(i) + (IF TransferOf[i] = t /\ i \in DOMAIN p THEN p[i] ELSE 0)
  BY <1>1, GotMore DEF RecordInv
<1>3. \A i \in Items : ResolvedFor(i, Reasons)' = ResolvedFor(i, Reasons)
  BY <1>1 DEF ReceiptRecorded, ResolvedFor, SumOver
<1>4. /\ received' = [i \in Items |-> IF i \in DOMAIN p THEN received[i] + p[i] ELSE received[i]]
      /\ resolved' = resolved
  BY DEF Receive
<1>5. ASSUME NEW i \in Items
      PROVE  received'[i] = Got(i)' /\ resolved'[i] = ResolvedFor(i, Reasons)'
  <2>1. received[i] = Got(i) /\ received[i] \in Nat /\ resolved[i] = ResolvedFor(i, Reasons)
    BY DEF RecordInv, Counted, RowInv, RowTypeOK
  <2>2. i \in DOMAIN p => TransferOf[i] = t
    BY RequestsAsked DEF ItemsOf
  <2> QED
    BY <1>2, <1>3, <1>4, <2>1, <2>2
<1> QED
  BY <1>2, <1>5 DEF Counted

\* So does a resolution.
LEMMA RecordResolve ==
  ASSUME RecordInv, NEW t \in Transfers, NEW k, NEW p \in Requests(t, Lines), ResolveVariance(t, k, p)
  PROVE  RecordsTyped' /\ Counted'
<1>1. ResolutionRecorded(t, k, p)
  <2>1. \A i \in DOMAIN p : p[i].quantity \in Nat
    BY RequestsLines, TransfersAssumption DEF ItemsOf
  <2> QED
    BY <2>1, RequestsReasons DEF ResolveVariance, Replayed, ResolutionRecorded
<1>2. /\ RecordsTyped'
      /\ \A i \in Items :
           ResolvedFor(i, Reasons)'
             = ResolvedFor(i, Reasons)
                 + (IF TransferOf[i] = t /\ i \in DOMAIN p /\ p[i].reason \in Reasons
                    THEN p[i].quantity ELSE 0)
  BY <1>1, ResolvedMore DEF RecordInv
<1>3. \A i \in Items : Got(i)' = Got(i)
  BY <1>1 DEF ResolutionRecorded, Got, SumOver
<1>4. /\ resolved' = [i \in Items |-> IF i \in DOMAIN p THEN resolved[i] + p[i].quantity
                                      ELSE resolved[i]]
      /\ received' = received
  BY DEF ResolveVariance
<1>5. ASSUME NEW i \in Items
      PROVE  received'[i] = Got(i)' /\ resolved'[i] = ResolvedFor(i, Reasons)'
  <2>1. received[i] = Got(i) /\ resolved[i] \in Nat /\ resolved[i] = ResolvedFor(i, Reasons)
    BY DEF RecordInv, Counted, RowInv, RowTypeOK
  <2>2. i \in DOMAIN p => TransferOf[i] = t /\ p[i].reason \in Reasons
    BY RequestsLines, RequestsReasons DEF ItemsOf
  <2> QED
    BY <1>2, <1>3, <1>4, <2>1, <2>2
<1> QED
  BY <1>2, <1>5 DEF Counted

\* The other steps record nothing.
LEMMA RecordKeeps ==
  ASSUME RecordInv, UNCHANGED <<received, resolved, receipts, resolutions>>
  PROVE  RecordsTyped' /\ Counted'
<1>1. \A i \in Items : Got(i)' = Got(i) /\ ResolvedFor(i, Reasons)' = ResolvedFor(i, Reasons)
  BY DEF Got, ResolvedFor, SumOver
<1>2. Counted'
  BY <1>1 DEF RecordInv, Counted
<1>3. RecordsTyped'
  BY DEF RecordInv, RecordsTyped
<1> QED
  BY <1>2, <1>3

LEMMA RecordNext == RecordInv /\ [Next]_vars => RecordInv'
<1> SUFFICES ASSUME RecordInv, [Next]_vars
             PROVE  RecordInv'
  OBVIOUS
<1>1. RowInv'
  BY RowInvNext DEF RecordInv
<1>2. SUFFICES RecordsTyped' /\ Counted'
  BY <1>1 DEF RecordInv
<1>3. CASE \E t \in Transfers : TransferStep(t)
  <2> PICK t \in Transfers : TransferStep(t)
    BY <1>3
  <2>1. CASE Approve(t) \/ Reject(t) \/ Cancel(t)
    BY <2>1, RecordKeeps DEF Approve, Reject, Cancel, Move
  <2>2. CASE \E p \in Requests(t, Asked) : \E turn \in Turns(DOMAIN p) :
                 DOMAIN p = ItemsOf(t) /\ Dispatch(t, p, turn)
    BY <2>2, RecordKeeps DEF Dispatch
  <2>3. CASE \E k \in Keys, p \in Requests(t, Asked) : \E turn \in Turns(DOMAIN p) :
                 Receive(t, k, p, turn)
    BY <2>3, RecordReceive
  <2>4. CASE \E k \in Keys, p \in Requests(t, Lines) : ResolveVariance(t, k, p)
    BY <2>4, RecordResolve
  <2> QED
    BY <2>1, <2>2, <2>3, <2>4 DEF TransferStep
<1>4. CASE (\E c \in Calls : StockStep(c) /\ UNCHANGED transferVars) \/ UNCHANGED vars
  BY <1>4, RecordKeeps DEF vars, transferVars
<1> QED
  BY <1>3, <1>4 DEF Next

\* A receipt that a client sends again with its key counts once, and so does a resolution:
\* what an item received is the sum of its transfer's receipts, however many come.
THEOREM CountedOnce == Spec => []CountedOncePerKey
<1>1. RecordInv => CountedOncePerKey
  BY DEF RecordInv, Counted, Got, CountedOncePerKey
<1> QED
  BY RecordInit, RecordNext, <1>1, PTL DEF Spec

-----------------------------------------------------------------------------
(* What is drawn, at the costs of the batches.                              *)

Price(a, s, q, cost) == SumFunctionOnSet([b \in DOMAIN a |-> Draw(a, s, q)[b] * cost[b]], DOMAIN a)

\* Every batch of the stack has a cost.
Costed(a, cost) == \A b \in DOMAIN a : cost[b] \in Nat

LEMMA PriceSums ==
  ASSUME NEW N \in Nat, NEW a, Stack(a, N), NEW cost, Costed(a, cost), NEW s \in Nat, NEW q \in Nat
  PROVE  /\ Summable([b \in DOMAIN a |-> Draw(a, s, q)[b] * cost[b]], DOMAIN a)
         /\ Price(a, s, q, cost) \in Nat
<1> DEFINE f == [b \in DOMAIN a |-> Draw(a, s, q)[b] * cost[b]]
<1>1. \A b \in DOMAIN a : f[b] \in Nat
  <2> SUFFICES ASSUME NEW b \in DOMAIN a PROVE f[b] \in Nat
    OBVIOUS
  <2> DEFINE m == Draw(a, s, q)[b]
             n == cost[b]
  <2>1. m \in 0..a[b] /\ a[b] \in Nat /\ n \in Nat
    BY DrawIs DEF Stack, Costed
  <2>2. f[b] = m * n
    OBVIOUS
  <2> HIDE DEF f, m, n
  <2> QED
    BY <2>1, <2>2
<1>2. IsFiniteSet(DOMAIN a)
  BY StackSums DEF Summable
<1>3. Summable(f, DOMAIN a)
  BY <1>1, <1>2 DEF Summable
<1> HIDE DEF f
<1>4. SumFunctionOnSet(f, DOMAIN a) \in Nat
  BY <1>3, SumType
<1> QED
  BY <1>3, <1>4 DEF Price, f

\* To draw nothing costs nothing.
LEMMA PriceOfNone ==
  ASSUME NEW N \in Nat, NEW a, Stack(a, N), NEW cost, Costed(a, cost)
  PROVE  Price(a, 0, 0, cost) = 0
<1> DEFINE f == [b \in DOMAIN a |-> Draw(a, 0, 0)[b] * cost[b]]
<1>1. \A b \in DOMAIN a : f[b] = 0
  <2> SUFFICES ASSUME NEW b \in DOMAIN a PROVE f[b] = 0
    OBVIOUS
  <2>1. /\ Draw(a, 0, 0)[b] = Clip(Before(a, b) + a[b], 0, 0) - Clip(Before(a, b), 0, 0)
        /\ Before(a, b) \in Nat /\ a[b] \in Nat /\ cost[b] \in Nat
    <3>1. Draw(a, 0, 0)[b] = Clip(Before(a, b) + a[b], 0, 0) - Clip(Before(a, b), 0, 0)
      BY DrawIs
    <3>2. Before(a, b) \in Nat /\ a[b] \in Nat /\ cost[b] \in Nat
      BY StackSums DEF Stack, Costed
    <3> QED
      BY <3>1, <3>2
  <2>2. Draw(a, 0, 0)[b] = 0
    BY <2>1 DEF Clip, Cap
  <2> QED
    BY <2>1, <2>2
<1>2. IsFiniteSet(DOMAIN a)
  BY StackSums DEF Summable
<1> HIDE DEF f
<1>3. SumFunctionOnSet(f, DOMAIN a) = 0
  BY <1>1, <1>2, SumZero
<1> QED
  BY <1>3 DEF Price, f

\* Two draws one after the other cost what the one does that they make.
LEMMA PriceJoins ==
  ASSUME NEW N \in Nat, NEW a, Stack(a, N), NEW cost, Costed(a, cost),
         NEW s \in Nat, NEW p \in Nat, NEW q \in Nat
  PROVE  Price(a, s, p + q, cost) = Price(a, s, p, cost) + Price(a, s + p, q, cost)
<1> DEFINE f == [b \in DOMAIN a |-> Draw(a, s, p)[b] * cost[b]]
           g == [b \in DOMAIN a |-> Draw(a, s + p, q)[b] * cost[b]]
           h == [b \in DOMAIN a |-> Draw(a, s, p + q)[b] * cost[b]]
<1>1. Summable(f, DOMAIN a) /\ Summable(g, DOMAIN a)
  <2>1. s + p \in Nat
    OBVIOUS
  <2> QED
    BY <2>1, PriceSums
<1>2. ASSUME NEW b \in DOMAIN a
      PROVE  h[b] = f[b] + g[b]
  <2> DEFINE x == Draw(a, s, p)[b]
             y == Draw(a, s + p, q)[b]
             z == Draw(a, s, p + q)[b]
             c == cost[b]
  <2>1. z = x + y
    BY DrawJoins
  <2>2. x \in Nat /\ y \in Nat /\ c \in Nat
    <3>1. s + p \in Nat /\ a[b] \in Nat
      BY DEF Stack
    <3>2. x \in 0..a[b] /\ y \in 0..a[b]
      BY <3>1, DrawIs
    <3> QED
      BY <3>1, <3>2 DEF Costed
  <2>3. h[b] = z * c /\ f[b] = x * c /\ g[b] = y * c
    OBVIOUS
  <2> HIDE DEF f, g, h, x, y, z, c
  <2> QED
    BY <2>1, <2>2, <2>3
<1> HIDE DEF f, g, h
<1>3. SumFunctionOnSet(h, DOMAIN a) = SumFunctionOnSet(f, DOMAIN a) + SumFunctionOnSet(g, DOMAIN a)
  BY <1>1, <1>2, SumPlus
<1> QED
  BY <1>3 DEF Price, f, g, h

\* The first units of the stack cost what they did, when some after them were drawn, and
\* whatever batches came since.
LEMMA PriceKept ==
  ASSUME NEW N \in Nat, NEW a, Stack(a, N), NEW cost, Costed(a, cost), NEW s \in Nat,
         NEW r, DOMAIN r = DOMAIN a, \A b \in DOMAIN a : Draw(r, 0, s)[b] = Draw(a, 0, s)[b],
         NEW dear, \A b \in DOMAIN a : dear[b] = cost[b]
  PROVE  Price(r, 0, s, dear) = Price(a, 0, s, cost)
<1>1. [b \in DOMAIN a |-> Draw(a, 0, s)[b] * cost[b]] = [b \in DOMAIN r |-> Draw(r, 0, s)[b] * dear[b]]
  OBVIOUS
<1> QED
  BY <1>1 DEF Price

\* Everything drawn costs what every unit does.
LEMMA PriceOfAll ==
  ASSUME NEW N \in Nat, NEW a, Stack(a, N), NEW cost
  PROVE  Price(a, 0, Total(a), cost) = SumFunctionOnSet([b \in DOMAIN a |-> a[b] * cost[b]], DOMAIN a)
<1>1. [b \in DOMAIN a |-> Draw(a, 0, Total(a))[b] * cost[b]] = [b \in DOMAIN a |-> a[b] * cost[b]]
  BY DrawEverything
<1> QED
  BY <1>1 DEF Price

-----------------------------------------------------------------------------
(* The items of a transfer, over the batches they were dispatched from.     *)

costs == [b \in DOMAIN batches |-> batches[b].cost]

\* The cost of the first units in transit of an item, as many as were lost.
Priced(i) == Price(InTransit(i), 0, Lost(i), costs)

\* An allocation is of units that left a batch, some of them received since; together they
\* are what is in transit of the item.
AllocationOk(i) ==
  /\ \A b \in DOMAIN allocations[i] :
       /\ b \in DOMAIN batches
       /\ allocations[i][b] \in [quantity : Nat \ {0}, received : Nat, batch : 0..Len(batches)]
       /\ allocations[i][b].received <= allocations[i][b].quantity
  /\ Total(InTransit(i)) = dispatched[i] - received[i]
  /\ ~Open(TransferOf[i]) /\ ~Closed(TransferOf[i]) => DOMAIN allocations[i] = {}

\* No more was resolved as lost than is in transit, nor as not dispatched than was not, and the
\* losses were charged for the oldest units.
LossOk(i) ==
  /\ ResolvedFor(i, {"NOT_DISPATCHED"}) <= Requested[i] - dispatched[i]
  /\ Lost(i) <= Total(InTransit(i))
  /\ lossCost[i] = Priced(i)

\* A transfer is closed once everything is accounted for, and open until then.
StatusOk(t) == /\ Closed(t) => FullyAccounted(t, received, resolved)
               /\ Open(t) => ~FullyAccounted(t, received, resolved)

ItemInv ==
  /\ RecordInv /\ StockInv
  /\ DOMAIN allocations = Items /\ lossCost = [i \in Items |-> lossCost[i]]
  /\ \A i \in Items : AllocationOk(i) /\ LossOk(i)
  /\ \A t \in Transfers : StatusOk(t)

\* What the arguments below need of an item.
LEMMA ItemFacts ==
  ASSUME ItemInv, NEW i \in Items
  PROVE  /\ TransferOf[i] \in Transfers /\ Requested[i] \in Nat \ {0}
         /\ dispatched[i] \in Nat /\ received[i] \in Nat /\ resolved[i] \in Nat
         /\ ResolvedFor(i, {"NOT_DISPATCHED"}) \in Nat /\ Lost(i) \in Nat
         /\ resolved[i] = ResolvedFor(i, {"NOT_DISPATCHED"}) + Lost(i)
         /\ received[i] <= dispatched[i] /\ dispatched[i] <= Requested[i]
         /\ AllocationOk(i) /\ LossOk(i)
<1>1. TransferOf[i] \in Transfers /\ Requested[i] \in Nat \ {0}
  BY TransfersAssumption
<1>2. /\ dispatched[i] \in Nat /\ received[i] \in Nat /\ resolved[i] \in Nat
      /\ received[i] <= dispatched[i] /\ dispatched[i] <= Requested[i]
  BY DEF ItemInv, RecordInv, RowInv, RowTypeOK, QuantitiesOk
<1>3. ResolvedFor(i, {"NOT_DISPATCHED"}) \in Nat /\ Lost(i) \in Nat
  BY ResolvedLines DEF ItemInv, RecordInv, Lost
<1>4. resolved[i] = ResolvedFor(i, {"NOT_DISPATCHED"}) + Lost(i)
  BY ResolvedSplit DEF ItemInv, RecordInv, Counted
<1> QED
  BY <1>1, <1>2, <1>3, <1>4 DEF ItemInv

LEMMA TransitStack ==
  ASSUME StockInv, NEW i \in Items, AllocationOk(i)
  PROVE  /\ Stack(InTransit(i), Len(batches)) /\ Len(batches) \in Nat
         /\ DOMAIN InTransit(i) = DOMAIN allocations[i]
         /\ Costed(InTransit(i), costs)
<1>1. DOMAIN InTransit(i) = DOMAIN allocations[i] /\ DOMAIN batches = 1..Len(batches) /\ Len(batches) \in Nat
  BY DEF InTransit, StockInv
<1>2. ASSUME NEW b \in DOMAIN allocations[i]
      PROVE  b \in 1..Len(batches) /\ InTransit(i)[b] \in Nat /\ costs[b] \in Nat
  <2> DEFINE x == allocations[i][b]
  <2>1. /\ b \in DOMAIN batches /\ x \in [quantity : Nat \ {0}, received : Nat, batch : 0..Len(batches)]
        /\ x.received <= x.quantity /\ InTransit(i)[b] = x.quantity - x.received
    BY DEF AllocationOk, InTransit
  <2> HIDE DEF x
  <2>2. x.quantity \in Nat /\ x.received \in Nat
    BY <2>1
  <2>3. costs[b] \in Nat
    BY <2>1, BatchTyped DEF costs
  <2> QED
    BY <1>1, <2>1, <2>2, <2>3
<1> QED
  BY <1>1, <1>2 DEF Stack, Costed

\* An item that a step leaves alone.
ItemSame(i) ==
  /\ DOMAIN allocations'[i] = DOMAIN allocations[i]
  /\ \A b \in DOMAIN allocations[i] : allocations'[i][b] = allocations[i][b]
  /\ lossCost'[i] = lossCost[i]
  /\ dispatched'[i] = dispatched[i] /\ received'[i] = received[i]
  /\ \A reasons : ResolvedFor(i, reasons)' = ResolvedFor(i, reasons)
  /\ Open(TransferOf[i])' \/ Closed(TransferOf[i])' <=> Open(TransferOf[i]) \/ Closed(TransferOf[i])

\* The batches stay, each at its cost.
BatchesStay ==
  /\ batches' \in Seq(BatchType)
  /\ DOMAIN batches \subseteq DOMAIN batches'
  /\ \A b \in DOMAIN batches : batches'[b].cost = batches[b].cost

LEMMA StayingCosts ==
  ASSUME StockInv, BatchesStay
  PROVE  /\ Len(batches) <= Len(batches') /\ Len(batches) \in Nat /\ Len(batches') \in Nat
         /\ DOMAIN batches' = 1..Len(batches')
         /\ \A b \in DOMAIN batches : costs'[b] = costs[b] /\ costs[b] \in Nat
<1>1. /\ DOMAIN batches = 1..Len(batches) /\ Len(batches) \in Nat
      /\ DOMAIN batches' = 1..Len(batches') /\ Len(batches') \in Nat
  BY DEF StockInv, BatchesStay
<1>2. Len(batches) <= Len(batches')
  <2>1. CASE Len(batches) = 0
    BY <1>1, <2>1
  <2>2. CASE Len(batches) # 0
    <3>1. Len(batches) \in DOMAIN batches
      BY <1>1, <2>2
    <3>2. Len(batches) \in DOMAIN batches'
      BY <3>1 DEF BatchesStay
    <3> QED
      BY <1>1, <3>2
  <2> QED
    BY <2>1, <2>2
<1>3. \A b \in DOMAIN batches : costs'[b] = costs[b] /\ costs[b] \in Nat
  BY BatchTyped DEF BatchesStay, costs
<1> QED
  BY <1>1, <1>2, <1>3

LEMMA ItemStays ==
  ASSUME ItemInv, NEW i \in Items, ItemSame(i), BatchesStay
  PROVE  AllocationOk(i)' /\ LossOk(i)'
<1>1. StockInv /\ AllocationOk(i) /\ LossOk(i) /\ Lost(i) \in Nat
  BY ItemFacts DEF ItemInv
<1>2. InTransit(i)' = InTransit(i) /\ Lost(i)' = Lost(i)
      /\ ResolvedFor(i, {"NOT_DISPATCHED"})' = ResolvedFor(i, {"NOT_DISPATCHED"})
  BY DEF ItemSame, InTransit, Lost
<1>3. Stack(InTransit(i), Len(batches)) /\ DOMAIN InTransit(i) = DOMAIN allocations[i]
      /\ Costed(InTransit(i), costs) /\ Len(batches) \in Nat
  BY <1>1, TransitStack
<1>4. AllocationOk(i)'
  <2>1. Total(InTransit(i))' = Total(InTransit(i))
    BY <1>2
  <2>2. Len(batches) <= Len(batches') /\ Len(batches) \in Nat /\ Len(batches') \in Nat
    BY <1>1, StayingCosts
  <2>3. 0..Len(batches) \subseteq 0..Len(batches')
    BY <2>2
  <2>4. \A b \in DOMAIN allocations[i] :
          allocations[i][b] \in [quantity : Nat \ {0}, received : Nat, batch : 0..Len(batches')]
    BY <1>1, <2>3 DEF AllocationOk
  <2> QED
    BY <1>1, <2>1, <2>4 DEF AllocationOk, ItemSame, BatchesStay
<1>5. Priced(i)' = Priced(i)
  <2> DEFINE a == InTransit(i)
  <2>1. Priced(i)' = Price(a, 0, Lost(i), costs') /\ Priced(i) = Price(a, 0, Lost(i), costs)
    BY <1>2 DEF Priced
  <2>2. \A b \in DOMAIN a : costs'[b] = costs[b]
    BY <1>1, <1>3, StayingCosts DEF AllocationOk
  <2> HIDE DEF a
  <2>3. Price(a, 0, Lost(i), costs') = Price(a, 0, Lost(i), costs)
    BY <1>1, <1>3, <2>2, PriceKept DEF a
  <2> QED
    BY <2>1, <2>3
<1>6. LossOk(i)'
  BY <1>1, <1>2, <1>5 DEF LossOk, ItemSame
<1> QED
  BY <1>4, <1>6

\* Steps that leave every item alone.
LEMMA ItemsStay ==
  ASSUME ItemInv, RecordInv', StockInv', BatchesStay,
         UNCHANGED <<allocations, lossCost, dispatched, received, resolved, resolutions>>,
         \A t \in Transfers : (Open(t)' <=> Open(t)) /\ (Closed(t)' <=> Closed(t))
  PROVE  ItemInv'
<1>1. \A i \in Items : ItemSame(i)
  BY TransfersAssumption DEF ItemSame, ResolvedFor, SumOver
<1>2. \A i \in Items : AllocationOk(i)' /\ LossOk(i)'
  BY <1>1, ItemStays
<1>3. \A t \in Transfers : FullyAccounted(t, received, resolved)' <=> FullyAccounted(t, received, resolved)
  BY DEF FullyAccounted
<1>4. \A t \in Transfers : StatusOk(t)'
  BY <1>3 DEF StatusOk, ItemInv
<1> QED
  BY <1>2, <1>4 DEF ItemInv

LEMMA ItemMoves ==
  ASSUME ItemInv, RecordInv', NEW t \in Transfers, Approve(t) \/ Reject(t) \/ Cancel(t)
  PROVE  ItemInv'
<1>1. /\ status' = [status EXCEPT ![t] = "APPROVED"]
         \/ status' = [status EXCEPT ![t] = "REJECTED"]
         \/ status' = [status EXCEPT ![t] = "CANCELLED"]
      /\ status[t] \in {"REQUESTED", "APPROVED"}
      /\ UNCHANGED <<stockVars, allocations, lossCost, dispatched, received, resolved, resolutions>>
  BY DEF Approve, Reject, Cancel, Move, Allowed
<1>2. status \in [Transfers -> Statuses]
  BY DEF ItemInv, RecordInv, RowInv, RowTypeOK
<1>3. \A u \in Transfers : (Open(u)' <=> Open(u)) /\ (Closed(u)' <=> Closed(u))
  BY <1>1, <1>2 DEF Open, Closed
<1>4. StockInv' /\ BatchesStay
  BY <1>1 DEF ItemInv, StockInv, CallOk, BatchesStay, stockVars
<1> QED
  BY <1>1, <1>3, <1>4, ItemsStay

LEMMA ItemStock ==
  ASSUME ItemInv, RecordInv', NEW c \in Calls, StockStep(c), UNCHANGED transferVars
  PROVE  ItemInv'
<1>1. StockInv' /\ Kept
  BY StockSteps DEF ItemInv
<1>2. BatchesStay
  BY <1>1 DEF StockInv, Kept, BatchesStay
<1> QED
  BY <1>1, <1>2, ItemsStay DEF transferVars, Open, Closed

\* What a completion status says.
LEMMA DerivedIs ==
  ASSUME ItemInv, NEW t \in Transfers, Open(t),
         status' = [status EXCEPT ![t] = DerivedStatus(t, received', resolved')],
         \A i \in Items \ ItemsOf(t) : received'[i] = received[i] /\ resolved'[i] = resolved[i]
  PROVE  /\ \A u \in Transfers : StatusOk(u)'
         /\ \A u \in Transfers \ {t} : (Open(u)' <=> Open(u)) /\ (Closed(u)' <=> Closed(u))
         /\ Open(t)' \/ Closed(t)'
<1>1. status \in [Transfers -> Statuses]
  BY DEF ItemInv, RecordInv, RowInv, RowTypeOK
<1>2. /\ \A u \in Transfers \ {t} : status'[u] = status[u]
      /\ status'[t] = DerivedStatus(t, received', resolved')
  BY <1>1
<1>3. /\ Closed(t)' <=> FullyAccounted(t, received', resolved')
      /\ Open(t)' <=> ~FullyAccounted(t, received', resolved')
  BY <1>2 DEF DerivedStatus, Closed, Open
<1>4. ASSUME NEW u \in Transfers \ {t}
      PROVE  /\ (Open(u)' <=> Open(u)) /\ (Closed(u)' <=> Closed(u))
             /\ StatusOk(u)'
  <2>1. (Open(u)' <=> Open(u)) /\ (Closed(u)' <=> Closed(u))
    BY <1>2 DEF Open, Closed
  <2>2. FullyAccounted(u, received', resolved') <=> FullyAccounted(u, received, resolved)
    BY DEF FullyAccounted, ItemsOf
  <2> QED
    BY <2>1, <2>2 DEF ItemInv, StatusOk
<1>5. StatusOk(t)' /\ (Open(t)' \/ Closed(t)')
  BY <1>3 DEF StatusOk
<1> QED
  BY <1>4, <1>5

LEMMA ItemResolve ==
  ASSUME ItemInv, RecordInv', NEW t \in Transfers, NEW k, NEW p \in Requests(t, Lines),
         ResolveVariance(t, k, p)
  PROVE  ItemInv'
<1>1. ResolutionRecorded(t, k, p)
  <2>1. \A i \in DOMAIN p : p[i].quantity \in Nat
    BY RequestsLines, TransfersAssumption DEF ItemsOf
  <2> QED
    BY <2>1, RequestsReasons DEF ResolveVariance, Replayed, ResolutionRecorded
<1>2. \A i \in Items : \A reasons :
        ResolvedFor(i, reasons)'
          = ResolvedFor(i, reasons)
              + (IF TransferOf[i] = t /\ i \in DOMAIN p /\ p[i].reason \in reasons
                 THEN p[i].quantity ELSE 0)
  BY <1>1, ResolvedMore DEF ItemInv, RecordInv
<1>3. /\ resolved' = [i \in Items |-> IF i \in DOMAIN p THEN resolved[i] + p[i].quantity
                                      ELSE resolved[i]]
      /\ lossCost' = [i \in Items |->
           IF i \in DOMAIN p /\ p[i].reason # "NOT_DISPATCHED"
           THEN lossCost[i] + VarianceCost(i, p[i].quantity) ELSE lossCost[i]]
      /\ status' = [status EXCEPT ![t] = DerivedStatus(t, received', resolved')]
      /\ UNCHANGED <<stockVars, dispatched, received, allocations, receipts>>
      /\ \A i \in DOMAIN p : Resolvable(i, p[i])
      /\ Open(t)
  BY DEF ResolveVariance, Allowed, Open
<1>4. DOMAIN p \subseteq ItemsOf(t) /\ \A i \in DOMAIN p : p[i].quantity \in Nat /\ p[i].reason \in Reasons
  BY RequestsLines, RequestsReasons, TransfersAssumption DEF ItemsOf
<1>5. StockInv' /\ BatchesStay
  BY <1>3 DEF ItemInv, StockInv, CallOk, BatchesStay, stockVars
<1>6. /\ \A u \in Transfers : StatusOk(u)'
      /\ \A u \in Transfers \ {t} : (Open(u)' <=> Open(u)) /\ (Closed(u)' <=> Closed(u))
      /\ Open(t)' \/ Closed(t)'
  BY <1>3, <1>4, DerivedIs
<1>7. ASSUME NEW i \in Items
      PROVE  AllocationOk(i)' /\ LossOk(i)'
  <2> DEFINE a == InTransit(i)
  <2>1. /\ TransferOf[i] \in Transfers /\ Lost(i) \in Nat /\ AllocationOk(i) /\ LossOk(i)
        /\ ResolvedFor(i, {"NOT_DISPATCHED"}) \in Nat /\ Requested[i] \in Nat /\ dispatched[i] \in Nat
    BY ItemFacts
  <2>2. AllocationOk(i)'
    <3>1. InTransit(i)' = InTransit(i) /\ allocations' = allocations
      BY <1>3 DEF InTransit
    <3>2. batches' = batches /\ dispatched' = dispatched /\ received' = received
      BY <1>3 DEF stockVars
    <3>3. Open(TransferOf[i])' \/ Closed(TransferOf[i])' <=> Open(TransferOf[i]) \/ Closed(TransferOf[i])
      BY <1>3, <1>6, <2>1
    <3> QED
      BY <2>1, <3>1, <3>2, <3>3 DEF AllocationOk
  <2>3. Stack(a, Len(batches)) /\ Len(batches) \in Nat /\ Costed(a, costs) /\ DOMAIN a = DOMAIN allocations[i]
    BY <2>1, TransitStack DEF ItemInv
  <2>4. Priced(i)' = Price(a, 0, Lost(i)', costs) /\ Priced(i) = Price(a, 0, Lost(i), costs)
    BY <1>3 DEF Priced, InTransit, costs, stockVars
  <2>5. InTransit(i)' = a /\ dispatched' = dispatched
    BY <1>3 DEF InTransit
  <2>6. Lost(i)' = Lost(i) + (IF i \in DOMAIN p /\ p[i].reason # "NOT_DISPATCHED" THEN p[i].quantity ELSE 0)
    <3>1. i \in DOMAIN p => (p[i].reason \in Reasons \ {"NOT_DISPATCHED"} <=> p[i].reason # "NOT_DISPATCHED")
      BY <1>4
    <3>2. i \in DOMAIN p => TransferOf[i] = t
      BY <1>4 DEF ItemsOf
    <3>3. Lost(i)' = Lost(i) + (IF TransferOf[i] = t /\ i \in DOMAIN p /\ p[i].reason \in Reasons \ {"NOT_DISPATCHED"}
                                THEN p[i].quantity ELSE 0)
      BY <1>2 DEF Lost
    <3> QED
      BY <3>1, <3>2, <3>3
  <2>7. ResolvedFor(i, {"NOT_DISPATCHED"})'
          = ResolvedFor(i, {"NOT_DISPATCHED"})
              + (IF i \in DOMAIN p /\ p[i].reason = "NOT_DISPATCHED" THEN p[i].quantity ELSE 0)
    <3>1. i \in DOMAIN p => TransferOf[i] = t
      BY <1>4 DEF ItemsOf
    <3> QED
      BY <1>2, <3>1
  <2>8. CASE i \in DOMAIN p /\ p[i].reason # "NOT_DISPATCHED"
    <3> DEFINE q == p[i].quantity
    <3>1. /\ q \in Nat /\ Lost(i) + q <= Total(a) /\ Lost(i)' = Lost(i) + q
          /\ ResolvedFor(i, {"NOT_DISPATCHED"})' = ResolvedFor(i, {"NOT_DISPATCHED"})
      BY <1>3, <1>4, <2>1, <2>6, <2>7, <2>8 DEF Resolvable, Fits
    <3>2. lossCost'[i] = lossCost[i] + Price(a, Lost(i), q, costs)
      <4>1. lossCost'[i] = lossCost[i] + VarianceCost(i, q)
        BY <1>3, <2>8
      <4>2. [b \in DOMAIN Draw(a, Lost(i), q) |-> Draw(a, Lost(i), q)[b] * batches[b].cost]
              = [b \in DOMAIN a |-> Draw(a, Lost(i), q)[b] * costs[b]]
        BY <2>1, <2>3 DEF Draw, costs, AllocationOk
      <4>3. VarianceCost(i, q) = Price(a, Lost(i), q, costs)
        <5>1. DOMAIN Draw(a, Lost(i), q) = DOMAIN a
          BY DEF Draw
        <5> QED
          BY <4>2, <5>1 DEF VarianceCost, SumOver, Price
      <4> QED
        BY <4>1, <4>3
    <3> HIDE DEF q, a
    <3>3. Price(a, 0, 0 + (Lost(i) + q), costs) = Price(a, 0, Lost(i), costs) + Price(a, 0 + Lost(i), q, costs)
      <4>1. 0 \in Nat /\ 0 + (Lost(i) + q) = Lost(i) + q
        BY <2>1, <3>1
      <4> QED
        BY <2>1, <2>3, <3>1, <4>1, PriceJoins
    <3>4. lossCost'[i] = Priced(i)'
      <4>1. 0 + Lost(i) = Lost(i) /\ 0 + (Lost(i) + q) = Lost(i) + q
        BY <2>1, <3>1
      <4> QED
        BY <2>1, <2>4, <3>1, <3>2, <3>3, <4>1 DEF LossOk
    <3> QED
      BY <2>1, <2>2, <2>5, <3>1, <3>4 DEF LossOk
  <2>9. CASE ~ (i \in DOMAIN p /\ p[i].reason # "NOT_DISPATCHED")
    <3>1. lossCost'[i] = lossCost[i] /\ Lost(i)' = Lost(i)
      BY <1>3, <2>1, <2>6, <2>9
    <3>2. ResolvedFor(i, {"NOT_DISPATCHED"})' <= Requested[i] - dispatched[i]
      <4>1. CASE i \in DOMAIN p
        <5>1. p[i].reason = "NOT_DISPATCHED" /\ p[i].quantity \in Nat
          BY <1>4, <2>9, <4>1
        <5>2. p[i].quantity <= Requested[i] - dispatched[i] - ResolvedFor(i, {"NOT_DISPATCHED"})
          BY <1>3, <4>1, <5>1 DEF Resolvable, NotDispatched
        <5> QED
          BY <2>1, <2>7, <4>1, <5>1, <5>2
      <4>2. CASE i \notin DOMAIN p
        BY <2>1, <2>7, <4>2 DEF LossOk
      <4> QED
        BY <4>1, <4>2
    <3> QED
      BY <2>1, <2>2, <2>4, <2>5, <3>1, <3>2 DEF LossOk
  <2> QED
    BY <2>8, <2>9
<1>8. DOMAIN allocations' = Items /\ lossCost' = [i \in Items |-> lossCost'[i]]
  BY <1>3 DEF ItemInv
<1> QED
  BY <1>5, <1>6, <1>7, <1>8 DEF ItemInv

-----------------------------------------------------------------------------
(* Dispatch: what the items of the transfer take from the batches, each in  *)
(* its turn.                                                                *)

Sought(p, S) == SumFunctionOnSet([i \in S |-> p[i]], S)

\* A sum of quantities asked for.
LEMMA AskedSum ==
  ASSUME NEW S, S \subseteq Items, NEW p, \A i \in S : p[i] \in Nat
  PROVE  Sought(p, S) \in Nat
<1> DEFINE f == [i \in S |-> p[i]]
<1>1. Summable(f, S)
  BY TransfersAssumption, FS_Subset DEF Summable
<1> HIDE DEF f
<1>2. SumFunctionOnSet(f, S) \in Nat
  BY <1>1, SumType
<1> QED
  BY <1>2 DEF Sought, f

\* Each item has a turn of its own.
Ordered(turn, S) ==
  /\ \A i \in S : turn[i] \in 1..Cardinality(S)
  /\ \A i, j \in S : turn[i] = turn[j] => i = j

LEMMA TurnsOrder ==
  ASSUME NEW S, NEW turn \in Turns(S)
  PROVE  Ordered(turn, S)
  BY DEF Turns, Ordered, Injection, IsInjective

\* The items whose turn comes before n.
First(S, turn, n) == {j \in S : turn[j] < n}

\* The items have turns, and the function gives each a number.
Lined(S, turn, f) ==
  /\ S \subseteq Items
  /\ \A i \in S : f[i] \in Nat /\ turn[i] \in Nat
  /\ \A i, j \in S : turn[i] = turn[j] => i = j

\* What is asked for is a sum that can be taken over any of the items.
LEMMA SoughtIs ==
  ASSUME NEW S, S \subseteq Items, NEW p, \A i \in S : p[i] \in Nat
  PROVE  Summable(p, S) /\ Sought(p, S) = SumFunctionOnSet(p, S)
<1> DEFINE f == [i \in S |-> p[i]]
<1>1. Summable(p, S) /\ Summable(f, S) /\ \A i \in S : p[i] = f[i]
  BY TransfersAssumption, FS_Subset DEF Summable
<1> HIDE DEF f
<1>2. SumFunctionOnSet(p, S) = SumFunctionOnSet(f, S)
  BY <1>1, SumSame
<1> QED
  BY <1>1, <1>2 DEF Sought, f

\* Turn by turn a sum over the first items grows by one of them, or stays.
LEMMA FirstSums ==
  ASSUME NEW S, NEW turn, NEW f, Lined(S, turn, f)
  PROVE  /\ SumFunctionOnSet(f, First(S, turn, 0)) = 0
         /\ \A n \in Nat :
              /\ SumFunctionOnSet(f, First(S, turn, n)) \in Nat
              /\ (\A x \in S : turn[x] # n) => First(S, turn, n + 1) = First(S, turn, n)
              /\ \A x \in S : turn[x] = n =>
                   SumFunctionOnSet(f, First(S, turn, n + 1))
                     = SumFunctionOnSet(f, First(S, turn, n)) + f[x]
<1>1. First(S, turn, 0) = {}
  BY DEF First, Lined
<1>2. \A n : Summable(f, First(S, turn, n)) /\ First(S, turn, n) \subseteq S
  <2>1. \A n : First(S, turn, n) \subseteq Items /\ First(S, turn, n) \subseteq S
    BY DEF First, Lined
  <2> QED
    BY <2>1, TransfersAssumption, FS_Subset DEF Summable, Lined
<1>3. ASSUME NEW n \in Nat
      PROVE  /\ SumFunctionOnSet(f, First(S, turn, n)) \in Nat
             /\ (\A x \in S : turn[x] # n) => First(S, turn, n + 1) = First(S, turn, n)
  <2>1. SumFunctionOnSet(f, First(S, turn, n)) \in Nat
    BY <1>2, SumType
  <2>2. \A x \in S : turn[x] \in Nat
    BY DEF Lined
  <2> QED
    BY <2>1, <2>2 DEF First
<1>4. ASSUME NEW n \in Nat, NEW x \in S, turn[x] = n
      PROVE  SumFunctionOnSet(f, First(S, turn, n + 1)) = SumFunctionOnSet(f, First(S, turn, n)) + f[x]
  <2>1. First(S, turn, n + 1) = First(S, turn, n) \cup {x} /\ x \notin First(S, turn, n)
    BY <1>4 DEF First, Lined
  <2>2. f[x] \in Nat
    BY DEF Lined
  <2> QED
    BY <1>2, <2>1, <2>2, SumAdd
<1>5. SumFunctionOnSet(f, {}) = 0
  BY SumEmpty
<1> QED
  BY <1>1, <1>3, <1>4, <1>5

LEMMA DrawOn ==
  ASSUME NEW N \in Nat, NEW a, Stack(a, N), NEW b \in DOMAIN a, NEW u \in Nat, NEW v \in Nat
  PROVE  Draw(a, 0, u + v)[b] = Draw(a, 0, u)[b] + Draw(a, u, v)[b]
<1> DEFINE s == 0
<1>1. s \in Nat /\ s + u = u
  OBVIOUS
<1> HIDE DEF s
<1>2. Draw(a, s, u + v)[b] = Draw(a, s, u)[b] + Draw(a, s + u, v)[b]
  <2>1. N \in Nat /\ Stack(a, N) /\ b \in DOMAIN a /\ u \in Nat /\ v \in Nat
    OBVIOUS
  <2> QED
    BY ONLY <1>1, <2>1, DrawJoins
<1> QED
  BY <1>1, <1>2 DEF s

\* When each in its turn draws from where those before it ended, they draw as one that asks for
\* as much: were it otherwise, there would be a first turn after which it is.
LEMMA TurnsDraw ==
  ASSUME NEW N \in Nat, NEW a, Stack(a, N), NEW b \in DOMAIN a,
         NEW S, NEW turn, NEW p, Lined(S, turn, p), NEW d, NEW n \in Nat,
         \A i \in S : d[i] = Draw(a, SumFunctionOnSet(p, First(S, turn, turn[i])), p[i])[b]
  PROVE  SumFunctionOnSet(d, First(S, turn, n))
           = Draw(a, 0, SumFunctionOnSet(p, First(S, turn, n)))[b]
<1>0. \A u, v \in Nat : Draw(a, 0, u + v)[b] = Draw(a, 0, u)[b] + Draw(a, u, v)[b]
  BY DrawOn
<1> DEFINE P(k) == SumFunctionOnSet(p, First(S, turn, k))
           D(k) == SumFunctionOnSet(d, First(S, turn, k))
           Fails == {k \in Nat : D(k) # Draw(a, 0, P(k))[b]}
<1>1. \A i \in S : p[i] \in Nat /\ turn[i] \in Nat
  BY DEF Lined
<1>2. /\ P(0) = 0
      /\ \A k \in Nat : P(k) \in Nat
      /\ \A k \in Nat : \A x \in S : turn[x] = k => P(k + 1) = P(k) + p[x]
  BY FirstSums
<1>3. \A k \in Nat : (\A x \in S : turn[x] # k) => First(S, turn, k + 1) = First(S, turn, k)
  BY FirstSums
<1>4. \A i \in S : d[i] = Draw(a, P(turn[i]), p[i])[b] /\ d[i] \in Nat
  <2> SUFFICES ASSUME NEW i \in S
               PROVE  d[i] = Draw(a, P(turn[i]), p[i])[b] /\ d[i] \in Nat
    OBVIOUS
  <2>1. d[i] = Draw(a, P(turn[i]), p[i])[b] /\ P(turn[i]) \in Nat /\ p[i] \in Nat
    BY <1>1, <1>2
  <2> HIDE DEF P
  <2>2. Draw(a, P(turn[i]), p[i])[b] \in 0..a[b] /\ a[b] \in Nat
    BY <2>1, DrawIs DEF Stack
  <2> QED
    BY <2>1, <2>2
<1>5. /\ D(0) = 0
      /\ \A k \in Nat : D(k) \in Nat
      /\ \A k \in Nat : \A x \in S : turn[x] = k => D(k + 1) = D(k) + d[x]
  <2>1. Lined(S, turn, d)
    BY <1>4 DEF Lined
  <2> QED
    BY <2>1, FirstSums
<1>6. SUFFICES ASSUME Fails # {} PROVE FALSE
  BY <1>6
<1>7. PICK k \in Fails : \A j \in Fails : k <= j
  <2>1. Fails \subseteq Nat
    OBVIOUS
  <2> HIDE DEF Fails
  <2> QED
    BY <1>6, <2>1, Smallest
<1>8. Draw(a, 0, 0)[b] = 0
  <2>1. Before(a, b) \in Nat /\ a[b] \in Nat
    BY StackSums DEF Stack
  <2>2. Draw(a, 0, 0)[b] = Clip(Before(a, b) + a[b], 0, 0) - Clip(Before(a, b), 0, 0)
    BY DrawIs
  <2> QED
    BY <2>1, <2>2 DEF Clip, Cap
<1>9. k # 0
  BY <1>2, <1>5, <1>8
<1> DEFINE j == k - 1
<1>10. j \in Nat /\ j + 1 = k /\ j \notin Fails
  BY <1>7, <1>9
<1>11. D(j) = Draw(a, 0, P(j))[b]
  BY <1>10
<1>12. CASE \A x \in S : turn[x] # j
  <2>1. First(S, turn, j + 1) = First(S, turn, j)
    BY <1>3, <1>10, <1>12
  <2>2. D(k) = D(j) /\ P(k) = P(j)
    BY <1>10, <2>1
  <2> HIDE DEF P, D, j
  <2> QED
    BY <1>7, <1>11, <2>2
<1>13. CASE \E x \in S : turn[x] = j
  <2>1. PICK x \in S : turn[x] = j
    BY <1>13
  <2>2. P(k) = P(j) + p[x] /\ D(k) = D(j) + d[x]
    BY <1>2, <1>5, <1>10, <2>1
  <2>3. d[x] = Draw(a, P(j), p[x])[b] /\ P(j) \in Nat /\ p[x] \in Nat
    BY <1>1, <1>2, <1>4, <1>10, <2>1
  <2> HIDE DEF P, D, j
  <2>4. Draw(a, 0, P(j) + p[x])[b] = Draw(a, 0, P(j))[b] + Draw(a, P(j), p[x])[b]
    BY <1>0, <2>3
  <2>5. D(k) = Draw(a, 0, P(k))[b]
    BY <1>11, <2>2, <2>3, <2>4
  <2> QED
    BY <1>7, <2>5
<1> QED
  BY <1>12, <1>13

\* And as much as there is, if each found there what it asked for.
LEMMA TurnsFit ==
  ASSUME NEW S, NEW turn, NEW p, Lined(S, turn, p), NEW T \in Nat, NEW n \in Nat,
         \A i \in S : SumFunctionOnSet(p, First(S, turn, turn[i])) + p[i] <= T
  PROVE  SumFunctionOnSet(p, First(S, turn, n)) <= T
<1> DEFINE P(k) == SumFunctionOnSet(p, First(S, turn, k))
           Fails == {k \in Nat : ~ (P(k) <= T)}
<1>1. /\ P(0) = 0
      /\ \A k \in Nat : \A x \in S : turn[x] = k => P(k + 1) = P(k) + p[x]
  BY FirstSums
<1>2. \A k \in Nat : (\A x \in S : turn[x] # k) => First(S, turn, k + 1) = First(S, turn, k)
  BY FirstSums
<1>3. SUFFICES ASSUME Fails # {} PROVE FALSE
  BY <1>3
<1>4. PICK k \in Fails : \A j \in Fails : k <= j
  <2>1. Fails \subseteq Nat
    OBVIOUS
  <2> HIDE DEF Fails
  <2> QED
    BY <1>3, <2>1, Smallest
<1>5. k # 0
  BY <1>1
<1> DEFINE j == k - 1
<1>6. j \in Nat /\ j + 1 = k /\ j \notin Fails
  BY <1>4, <1>5
<1>7. P(j) <= T
  BY <1>6
<1>8. CASE \A x \in S : turn[x] # j
  <2>1. First(S, turn, j + 1) = First(S, turn, j)
    BY <1>2, <1>6, <1>8
  <2> QED
    BY <1>4, <1>6, <1>7, <2>1
<1>9. CASE \E x \in S : turn[x] = j
  <2>1. PICK x \in S : turn[x] = j
    BY <1>9
  <2>2. P(k) = P(j) + p[x] /\ P(j) + p[x] <= T
    BY <1>1, <1>6, <2>1
  <2> QED
    BY <1>4, <2>2
<1> QED
  BY <1>8, <1>9

Taken(p, turn, i) == Draw(Available(Source[i]), Ahead(p, turn, i), p[i])

Leaves(t, p, turn, b) == SumOver(ItemsOf(t), LAMBDA i : Taken(p, turn, i)[b])

Used(p, turn, i) == {b \in DOMAIN batches : Taken(p, turn, i)[b] > 0}

\* The items of the transfer that draw on a material.
From(t, m) == {i \in ItemsOf(t) : Source[i] = m}

\* A dispatch does the following.
Dispatched(t, p, turn) ==
  /\ DOMAIN p = ItemsOf(t) /\ Ordered(turn, ItemsOf(t))
  /\ status[t] = "APPROVED"
  /\ \A i \in ItemsOf(t) :
       p[i] <= Requested[i] /\ Fits(Available(Source[i]), Ahead(p, turn, i), p[i])
  /\ status' = [status EXCEPT ![t] = "IN_TRANSIT"]
  /\ dispatched' = [i \in Items |-> IF i \in ItemsOf(t) THEN p[i] ELSE dispatched[i]]
  /\ allocations' = [i \in Items |->
       IF i \in ItemsOf(t)
       THEN [b \in Used(p, turn, i) |->
              [quantity |-> Taken(p, turn, i)[b], received |-> 0, batch |-> 0]]
       ELSE allocations[i]]
  /\ batches' = [b \in DOMAIN batches |-> Drawn(batches[b], Leaves(t, p, turn, b))]
  /\ stock' = [m \in Materials |-> stock[m] - Sought(p, From(t, m))]
  /\ UNCHANGED <<call, received, resolved, receipts, resolutions, lossCost>>

LEMMA DispatchDoes ==
  ASSUME NEW t, NEW p, DOMAIN p = ItemsOf(t), NEW turn \in Turns(DOMAIN p), Dispatch(t, p, turn)
  PROVE  Dispatched(t, p, turn)
BY TurnsOrder DEF Dispatch, Dispatched, Taken, Leaves, Used, Sought, From, SumOver, Allowed,
   QuantitiesOk

\* The items of a transfer that draw on a material have turns, and what goes ahead of one of them
\* is what those with an earlier turn ask for.
LEMMA AheadIs ==
  ASSUME NEW t \in Transfers, NEW p, DOMAIN p = ItemsOf(t), \A i \in ItemsOf(t) : p[i] \in Nat,
         NEW turn, Ordered(turn, ItemsOf(t)), NEW m
  PROVE  /\ From(t, m) \subseteq Items /\ Lined(From(t, m), turn, p)
         /\ First(From(t, m), turn, Cardinality(ItemsOf(t)) + 1) = From(t, m)
         /\ Cardinality(ItemsOf(t)) + 1 \in Nat
         /\ \A i \in From(t, m) :
              /\ Ahead(p, turn, i) = SumFunctionOnSet(p, First(From(t, m), turn, turn[i]))
              /\ Ahead(p, turn, i) \in Nat
<1> DEFINE S == From(t, m)
           n == Cardinality(ItemsOf(t))
<1>1. S \subseteq ItemsOf(t) /\ ItemsOf(t) \subseteq Items /\ S \subseteq Items
  BY DEF From, ItemsOf
<1>2. n \in Nat
  BY <1>1, TransfersAssumption, FS_Subset, FS_CardinalityType
<1> HIDE DEF n
<1>3. \A i \in ItemsOf(t) : turn[i] \in 1..n
  BY DEF Ordered, n
<1>4. Lined(S, turn, p)
  BY <1>1, <1>2, <1>3 DEF Ordered, Lined
<1>5. First(S, turn, n + 1) = S
  BY <1>1, <1>2, <1>3 DEF First
<1>6. ASSUME NEW i \in S
      PROVE  /\ Ahead(p, turn, i) = SumFunctionOnSet(p, First(S, turn, turn[i]))
             /\ Ahead(p, turn, i) \in Nat
  <2> DEFINE A == First(S, turn, turn[i])
  <2>1. {j \in DOMAIN p : Source[j] = Source[i] /\ turn[j] < turn[i]} = A
    BY DEF First, From
  <2>2. A \subseteq Items /\ \A j \in A : p[j] \in Nat
    BY <1>1 DEF First
  <2>3. Ahead(p, turn, i) = Sought(p, A)
    BY <2>1 DEF Ahead, Sought, SumOver
  <2> HIDE DEF A
  <2>4. Sought(p, A) \in Nat /\ Sought(p, A) = SumFunctionOnSet(p, A)
    BY <2>2, AskedSum, SoughtIs
  <2> QED
    BY <2>3, <2>4 DEF A
<1> QED
  BY <1>1, <1>2, <1>4, <1>5, <1>6 DEF n

\* An item takes what it asks for, from batches of its material.
LEMMA TakenIs ==
  ASSUME StockInv, NEW i \in Items, NEW p, p[i] \in Nat, NEW turn, Ahead(p, turn, i) \in Nat
  PROVE  /\ Stack(Taken(p, turn, i), Len(batches)) /\ Len(batches) \in Nat
         /\ DOMAIN Taken(p, turn, i) = DOMAIN batches
         /\ \A b \in DOMAIN batches :
              /\ Taken(p, turn, i)[b] \in 0..batches[b].left
              /\ Taken(p, turn, i)[b] > 0 => batches[b].material = Source[i]
         /\ Fits(Available(Source[i]), Ahead(p, turn, i), p[i]) => Total(Taken(p, turn, i)) = p[i]
<1> DEFINE a == Available(Source[i])
           s == Ahead(p, turn, i)
           q == p[i]
<1>1. /\ Stack(a, Len(batches)) /\ Len(batches) \in Nat /\ DOMAIN a = DOMAIN batches
      /\ \A b \in DOMAIN batches :
           a[b] <= batches[b].left /\ (a[b] > 0 => batches[b].material = Source[i])
  BY AvailableStack
<1>0. s \in Nat /\ q \in Nat
  OBVIOUS
<1> HIDE DEF a, s, q
<1>2. /\ Stack(Draw(a, s, q), Len(batches)) /\ DOMAIN Draw(a, s, q) = DOMAIN batches
      /\ \A b \in DOMAIN batches : Draw(a, s, q)[b] \in 0..a[b]
  <2>1. Stack(a, Len(batches)) /\ Len(batches) \in Nat
    BY <1>1
  <2>2. /\ Stack(Draw(a, s, q), Len(batches)) /\ DOMAIN Draw(a, s, q) = DOMAIN a
        /\ \A b \in DOMAIN a : Draw(a, s, q)[b] \in 0..a[b]
    BY ONLY <1>0, <2>1, DrawIs
  <2> QED
    BY <1>1, <2>2
<1>3. \A b \in DOMAIN batches :
        /\ Draw(a, s, q)[b] \in 0..batches[b].left
        /\ Draw(a, s, q)[b] > 0 => batches[b].material = Source[i]
  <2> SUFFICES ASSUME NEW b \in DOMAIN batches
               PROVE  /\ Draw(a, s, q)[b] \in 0..batches[b].left
                      /\ Draw(a, s, q)[b] > 0 => batches[b].material = Source[i]
    OBVIOUS
  <2> DEFINE d == Draw(a, s, q)[b]
  <2>1. d \in 0..a[b] /\ a[b] \in Nat /\ batches[b].left \in Nat /\ a[b] <= batches[b].left
        /\ (a[b] > 0 => batches[b].material = Source[i])
    BY <1>1, <1>2, BatchTyped DEF Stack
  <2> HIDE DEF d
  <2> QED
    BY <2>1 DEF d
<1>4. Fits(a, s, q) => Total(Draw(a, s, q)) = q
  BY <1>0, <1>1, DrawTotal DEF Fits
<1> QED
  BY <1>1, <1>2, <1>3, <1>4 DEF Taken, a, s, q

\* Items that draw on one material draw as one that asks for what they ask for together: what
\* leaves a batch is what this one would take, and no batch gives more than it has.
LEMMA LeavesIs ==
  ASSUME StockInv, NEW t \in Transfers, NEW p, \A i \in ItemsOf(t) : p[i] \in Nat,
         NEW turn, DOMAIN p = ItemsOf(t), Ordered(turn, ItemsOf(t)), NEW b \in DOMAIN batches
  PROVE  /\ Summable([i \in ItemsOf(t) |-> Taken(p, turn, i)[b]], ItemsOf(t))
         /\ Leaves(t, p, turn, b)
              = SumFunctionOnSet([i \in ItemsOf(t) |-> Taken(p, turn, i)[b]], ItemsOf(t))
         /\ Leaves(t, p, turn, b) \in 0..batches[b].left
         /\ Leaves(t, p, turn, b)
              = Draw(Available(batches[b].material), 0,
                     Sought(p, From(t, batches[b].material)))[b]
<1> DEFINE f == [i \in ItemsOf(t) |-> Taken(p, turn, i)[b]]
           m == batches[b].material
           S == From(t, m)
           a == Available(m)
           n == Cardinality(ItemsOf(t)) + 1
<1>1. /\ S \subseteq Items /\ Lined(S, turn, p) /\ First(S, turn, n) = S /\ n \in Nat
      /\ \A i \in S : Ahead(p, turn, i) = SumFunctionOnSet(p, First(S, turn, turn[i]))
      /\ \A i \in ItemsOf(t) : Ahead(p, turn, i) \in Nat
  <2>1. \A i \in ItemsOf(t) : i \in From(t, Source[i])
    BY DEF From
  <2>2. \A i \in ItemsOf(t) : Ahead(p, turn, i) \in Nat
    BY <2>1, AheadIs
  <2> HIDE DEF m
  <2>3. /\ S \subseteq Items /\ Lined(S, turn, p) /\ First(S, turn, n) = S /\ n \in Nat
        /\ \A i \in S : Ahead(p, turn, i) = SumFunctionOnSet(p, First(S, turn, turn[i]))
    BY AheadIs
  <2> QED
    BY <2>2, <2>3
<1>2. \A i \in ItemsOf(t) : /\ f[i] \in 0..batches[b].left
                            /\ f[i] > 0 => m = Source[i]
  BY <1>1, TakenIs DEF ItemsOf
<1>3. IsFiniteSet(ItemsOf(t)) /\ batches[b].left \in Nat /\ S \subseteq ItemsOf(t)
  BY TransfersAssumption, FS_Subset, BatchTyped DEF ItemsOf, From
<1>4. Summable(f, ItemsOf(t))
  BY <1>2, <1>3 DEF Summable
<1>5. Leaves(t, p, turn, b) = SumFunctionOnSet(f, ItemsOf(t))
  BY DEF Leaves, SumOver
<1>6. \A i \in ItemsOf(t) \ S : f[i] = 0
  <2> SUFFICES ASSUME NEW i \in ItemsOf(t), Source[i] # m PROVE f[i] = 0
    BY DEF From
  <2> HIDE DEF f, m
  <2> QED
    BY <1>2, <1>3
<1>7. \A i \in S : f[i] = Draw(a, SumFunctionOnSet(p, First(S, turn, turn[i])), p[i])[b]
  <2> SUFFICES ASSUME NEW i \in S
               PROVE  f[i] = Draw(a, SumFunctionOnSet(p, First(S, turn, turn[i])), p[i])[b]
    OBVIOUS
  <2>1. Source[i] = m /\ i \in ItemsOf(t)
    BY DEF From
  <2> HIDE DEF m, S
  <2> QED
    BY <1>1, <2>1 DEF Taken
<1>8. Stack(a, Len(batches)) /\ Len(batches) \in Nat /\ b \in DOMAIN a /\ a[b] <= batches[b].left
  BY AvailableStack
<1>9. Sought(p, S) = SumFunctionOnSet(p, S) /\ Sought(p, S) \in Nat
  BY <1>1, <1>3, SoughtIs, AskedSum
<1> HIDE DEF f, S, a, n, m
<1>10. SumFunctionOnSet(f, ItemsOf(t)) = SumFunctionOnSet(f, S)
  BY <1>3, <1>4, <1>6, SumPart
<1>11. SumFunctionOnSet(f, First(S, turn, n))
         = Draw(a, 0, SumFunctionOnSet(p, First(S, turn, n)))[b]
  BY <1>1, <1>7, <1>8, TurnsDraw
<1>12. Leaves(t, p, turn, b) = Draw(a, 0, Sought(p, S))[b]
  BY <1>1, <1>5, <1>9, <1>10, <1>11
<1>13. Draw(a, 0, Sought(p, S))[b] \in 0..a[b] /\ a[b] \in Nat
  <2>1. 0 \in Nat
    OBVIOUS
  <2> QED
    BY <1>8, <1>9, <2>1, DrawIs DEF Stack
<1>14. Leaves(t, p, turn, b) \in 0..batches[b].left
  BY <1>3, <1>8, <1>12, <1>13
<1> QED
  BY <1>4, <1>5, <1>12, <1>14 DEF f, S, a, m

\* And together they ask for no more than there is.
LEMMA SoughtFits ==
  ASSUME StockInv, NEW t \in Transfers, NEW p, \A i \in ItemsOf(t) : p[i] \in Nat,
         NEW turn, Dispatched(t, p, turn), NEW m
  PROVE  Sought(p, From(t, m)) \in Nat /\ Sought(p, From(t, m)) <= Total(Available(m))
<1> DEFINE S == From(t, m)
           n == Cardinality(ItemsOf(t)) + 1
           T == Total(Available(m))
<1>1. /\ S \subseteq Items /\ Lined(S, turn, p) /\ First(S, turn, n) = S /\ n \in Nat
      /\ \A i \in S : Ahead(p, turn, i) = SumFunctionOnSet(p, First(S, turn, turn[i]))
  BY AheadIs DEF Dispatched
<1>2. T \in Nat
  BY AvailableStack, StackSums
<1>3. \A i \in S : i \in ItemsOf(t) /\ Source[i] = m
  BY DEF From
<1>4. \A i \in S : SumFunctionOnSet(p, First(S, turn, turn[i])) + p[i] <= T
  BY <1>1, <1>3 DEF Dispatched, Fits
<1> HIDE DEF S, n, T
<1>5. SumFunctionOnSet(p, First(S, turn, n)) <= T
  BY <1>1, <1>2, <1>4, TurnsFit
<1>6. Sought(p, S) = SumFunctionOnSet(p, S) /\ Sought(p, S) \in Nat
  BY <1>1, <1>3, SoughtIs, AskedSum
<1> QED
  BY <1>1, <1>5, <1>6 DEF S, T

LEMMA DispatchStock ==
  ASSUME StockInv, NEW t \in Transfers, NEW p, NEW turn,
         (\A i \in ItemsOf(t) : p[i] \in Nat), Dispatched(t, p, turn)
  PROVE  /\ StockInv' /\ BatchesStay /\ DOMAIN batches' = DOMAIN batches
         /\ \A b \in DOMAIN batches :
              /\ batches'[b].initial = batches[b].initial /\ batches'[b].used = batches[b].used
              /\ batches'[b].left = batches[b].left - Leaves(t, p, turn, b)
              /\ batches'[b].material = batches[b].material
<1>1. /\ batches' = [b \in DOMAIN batches |-> Drawn(batches[b], Leaves(t, p, turn, b))]
      /\ stock' = [m \in Materials |->
              stock[m] - Sought(p, From(t, m))]
      /\ call' = call
  BY DEF Dispatched
<1>2. ASSUME NEW b \in DOMAIN batches
      PROVE  /\ batches'[b] \in BatchType
             /\ batches'[b].initial = batches[b].initial /\ batches'[b].used = batches[b].used
             /\ batches'[b].cost = batches[b].cost /\ batches'[b].material = batches[b].material
             /\ batches'[b].left = batches[b].left - Leaves(t, p, turn, b)
  <2>1. Leaves(t, p, turn, b) \in 0..batches[b].left
    BY LeavesIs DEF Dispatched
  <2>2. batches'[b] = Drawn(batches[b], Leaves(t, p, turn, b))
    BY <1>1
  <2> QED
    BY <2>1, <2>2, DrawnRow
<1>3. DOMAIN batches' = DOMAIN batches
  BY <1>1
<1>4. batches' \in Seq(BatchType)
  <2>1. Len(batches) \in Nat /\ DOMAIN batches = 1..Len(batches)
    BY DEF StockInv
  <2>2. batches' \in [1..Len(batches) -> BatchType]
    BY <1>1, <1>2, <2>1
  <2> QED
    BY <2>1, <2>2, SeqDef
<1>5. stock' \in [Materials -> Int]
  <2>1. ASSUME NEW m \in Materials
        PROVE  Sought(p, From(t, m)) \in Nat
    <3> DEFINE S == From(t, m)
    <3>1. S \subseteq Items /\ \A i \in S : p[i] \in Nat
      BY DEF From, ItemsOf
    <3> HIDE DEF S
    <3>2. Sought(p, S) \in Nat
      BY <3>1, AskedSum
    <3> QED
      BY <3>2 DEF S
  <2> QED
    BY <1>1, <2>1 DEF StockInv
<1>6. \A c \in Calls : CallOk(c)'
  BY <1>1, <1>3 DEF StockInv, CallOk
<1> QED
  BY <1>1, <1>2, <1>3, <1>4, <1>5, <1>6 DEF StockInv, BatchesStay

\* An item that is dispatched: it took all that the request asks for, and none of it has
\* arrived or was lost.
LEMMA DispatchedItem ==
  ASSUME ItemInv, NEW t \in Transfers, NEW p, NEW turn,
         (\A i \in ItemsOf(t) : p[i] \in Nat), Dispatched(t, p, turn),
         StockInv', BatchesStay, DOMAIN batches' = DOMAIN batches, NEW i \in ItemsOf(t)
  PROVE  AllocationOk(i)' /\ LossOk(i)'
<1> DEFINE q == p[i]
           d == Taken(p, turn, i)
           U == Used(p, turn, i)
           a == InTransit(i)'
<1>1. /\ i \in Items /\ TransferOf[i] = t /\ q \in Nat /\ q <= Requested[i]
      /\ Fits(Available(Source[i]), Ahead(p, turn, i), q) /\ Ahead(p, turn, i) \in Nat
  BY AheadIs DEF ItemsOf, From, Dispatched
<1>2. /\ Stack(d, Len(batches)) /\ Len(batches) \in Nat /\ DOMAIN d = DOMAIN batches
      /\ \A b \in DOMAIN batches : d[b] \in Nat
      /\ Total(d) = q
  <2>1. \A b \in DOMAIN batches : d[b] \in 0..batches[b].left /\ batches[b].left \in Nat
    BY <1>1, TakenIs, BatchTyped DEF ItemInv
  <2>2. \A b \in DOMAIN batches : d[b] \in Nat
    BY <2>1
  <2> QED
    BY <1>1, <2>2, TakenIs DEF ItemInv
<1>3. /\ received[i] = 0 /\ resolved[i] = 0 /\ received'[i] = 0 /\ dispatched'[i] = q
      /\ status' = [status EXCEPT ![t] = "IN_TRANSIT"] /\ lossCost' = lossCost
      /\ allocations'[i] = [b \in U |-> [quantity |-> d[b], received |-> 0, batch |-> 0]]
  <2>1. received[i] = 0 /\ resolved[i] = 0
    BY <1>1 DEF ItemInv, RecordInv, RowInv, Untouched, Dispatched
  <2> HIDE DEF d, U
  <2> QED
    BY <1>1, <2>1 DEF Dispatched, d, U, q
<1>4. /\ Lost(i) = 0 /\ ResolvedFor(i, {"NOT_DISPATCHED"}) = 0 /\ Lost(i)' = 0
      /\ ResolvedFor(i, {"NOT_DISPATCHED"})' = 0 /\ lossCost[i] = Priced(i) /\ Requested[i] \in Nat
  <2>1. Lost(i) = 0 /\ ResolvedFor(i, {"NOT_DISPATCHED"}) = 0 /\ lossCost[i] = Priced(i) /\ Requested[i] \in Nat
    BY <1>1, <1>3, ItemFacts DEF LossOk
  <2>2. \A reasons : ResolvedFor(i, reasons)' = ResolvedFor(i, reasons)
    BY DEF Dispatched, ResolvedFor, SumOver
  <2> QED
    BY <2>1, <2>2 DEF Lost
<1>5. lossCost[i] = 0
  <2>1. StockInv /\ AllocationOk(i)
    BY <1>1 DEF ItemInv
  <2>2. Priced(i) = Price(InTransit(i), 0, 0, costs)
    BY <1>4 DEF Priced
  <2>3. Price(InTransit(i), 0, 0, costs) = 0
    BY <1>1, <2>1, TransitStack, PriceOfNone
  <2> QED
    BY <1>4, <2>2, <2>3
<1>6. U \subseteq DOMAIN batches /\ \A b \in U : d[b] \in Nat \ {0}
  BY <1>2 DEF Used
<1>7. a = [b \in U |-> d[b]]
  <2> HIDE DEF d, U
  <2>1. \A b \in U : d[b] - 0 = d[b]
    BY <1>6
  <2>2. a = [b \in U |-> d[b] - 0]
    BY <1>3 DEF InTransit, a
  <2> QED
    BY <2>1, <2>2
<1>8. Total(a) = q
  <2>1. Summable(d, DOMAIN batches) /\ Total(d) = SumFunctionOnSet(d, DOMAIN batches)
    BY <1>2, StackSums DEF Total
  <2>2. \A b \in DOMAIN batches \ U : d[b] = 0
    BY <1>2 DEF Used
  <2> HIDE DEF d, U, a
  <2>3. SumFunctionOnSet(d, DOMAIN batches) = SumFunctionOnSet(d, U)
    BY <1>6, <2>1, <2>2, SumPart
  <2>4. Summable(d, U)
    BY <1>6, <2>1, FS_Subset DEF Summable
  <2>5. \A b \in U : d[b] = a[b]
    BY <1>7
  <2>6. SumFunctionOnSet(d, U) = SumFunctionOnSet(a, U)
    BY <2>4, <2>5, SumSame
  <2>7. DOMAIN a = U
    BY <1>7
  <2> QED
    BY <1>2, <2>1, <2>3, <2>6, <2>7 DEF Total
<1>9. Stack(a, Len(batches)) /\ Costed(a, costs') /\ DOMAIN a = U
  <2>1. \A b \in DOMAIN batches : costs'[b] \in Nat
    BY StayingCosts DEF ItemInv
  <2>2. DOMAIN batches = 1..Len(batches)
    BY DEF ItemInv, StockInv
  <2> HIDE DEF d, U, a
  <2> QED
    BY <1>6, <1>7, <2>1, <2>2 DEF Stack, Costed
<1>10. AllocationOk(i)'
  <2>1. 0 \in 0..Len(batches')
    BY StayingCosts DEF ItemInv
  <2>2. Open(TransferOf[i])'
    BY <1>1, <1>3 DEF Open, ItemInv, RecordInv, RowInv, RowTypeOK
  <2>3. Total(InTransit(i))' = dispatched'[i] - received'[i]
    BY <1>1, <1>3, <1>8
  <2> HIDE DEF d, U, q
  <2> QED
    BY <1>3, <1>6, <2>1, <2>2, <2>3 DEF AllocationOk
<1>11. LossOk(i)'
  <2>1. Priced(i)' = Price(a, 0, 0, costs')
    BY <1>4 DEF Priced
  <2> HIDE DEF d, U, a
  <2>2. Price(a, 0, 0, costs') = 0
    BY <1>2, <1>9, PriceOfNone
  <2>3. Total(InTransit(i))' = q
    BY <1>8 DEF a
  <2> QED
    BY <1>1, <1>3, <1>4, <1>5, <2>1, <2>2, <2>3 DEF LossOk
<1> QED
  BY <1>10, <1>11

LEMMA ItemDispatch ==
  ASSUME ItemInv, RecordInv', NEW t \in Transfers, NEW p \in Requests(t, Asked),
         NEW turn \in Turns(DOMAIN p), DOMAIN p = ItemsOf(t), Dispatch(t, p, turn)
  PROVE  ItemInv'
<1>1. (\A i \in ItemsOf(t) : p[i] \in Nat) /\ Dispatched(t, p, turn)
  BY RequestsAsked, DispatchDoes, TransfersAssumption DEF ItemsOf
<1>2. StockInv' /\ BatchesStay /\ DOMAIN batches' = DOMAIN batches
  BY <1>1, DispatchStock DEF ItemInv
<1>3. status' = [status EXCEPT ![t] = "IN_TRANSIT"] /\ status \in [Transfers -> Statuses]
      /\ lossCost' = lossCost /\ received' = received /\ resolved' = resolved
  BY <1>1 DEF Dispatched, ItemInv, RecordInv, RowInv, RowTypeOK
<1>4. ASSUME NEW i \in Items, i \notin ItemsOf(t)
      PROVE  AllocationOk(i)' /\ LossOk(i)'
  <2>1. TransferOf[i] \in Transfers \ {t}
    BY <1>4, TransfersAssumption DEF ItemsOf
  <2>2. (Open(TransferOf[i])' <=> Open(TransferOf[i])) /\ (Closed(TransferOf[i])' <=> Closed(TransferOf[i]))
    BY <1>3, <2>1 DEF Open, Closed
  <2>3. allocations'[i] = allocations[i] /\ dispatched'[i] = dispatched[i]
        /\ \A reasons : ResolvedFor(i, reasons)' = ResolvedFor(i, reasons)
    BY <1>1, <1>4 DEF Dispatched, ResolvedFor, SumOver
  <2> QED
    BY <1>2, <1>3, <1>4, <2>2, <2>3, ItemStays DEF ItemSame
<1>5. \A i \in Items : AllocationOk(i)' /\ LossOk(i)'
  BY <1>1, <1>2, <1>4, DispatchedItem
<1>6. ASSUME NEW u \in Transfers
      PROVE  StatusOk(u)'
  <2>1. CASE u = t
    <3>1. PICK i \in Items : TransferOf[i] = t
      BY TransfersAssumption
    <3>2. received[i] = 0 /\ resolved[i] = 0 /\ Requested[i] \in Nat \ {0}
      BY <1>1, <3>1, ItemFacts DEF ItemInv, RecordInv, RowInv, Untouched, Dispatched
    <3>3. ~FullyAccounted(t, received, resolved)'
      BY <1>3, <3>1, <3>2 DEF FullyAccounted, ItemsOf
    <3>4. ~Closed(t)'
      BY <1>3 DEF Closed
    <3> QED
      BY <2>1, <3>3, <3>4 DEF StatusOk
  <2>2. CASE u # t
    <3>1. (Open(u)' <=> Open(u)) /\ (Closed(u)' <=> Closed(u))
      BY <1>3, <2>2 DEF Open, Closed
    <3>2. FullyAccounted(u, received, resolved)' <=> FullyAccounted(u, received, resolved)
      BY <1>3 DEF FullyAccounted
    <3> QED
      BY <3>1, <3>2 DEF ItemInv, StatusOk
  <2> QED
    BY <2>1, <2>2
<1>7. DOMAIN allocations' = Items /\ lossCost' = [i \in Items |-> lossCost'[i]]
  BY <1>1, <1>3 DEF Dispatched, ItemInv
<1> QED
  BY <1>2, <1>5, <1>6, <1>7 DEF ItemInv

-----------------------------------------------------------------------------
(* Receipt: the lines of a receipt are numbered in turn, batch by batch.    *)

UpTo(S, turn, x) == {y \in S : turn[y[1]] < turn[x[1]] \/ (y[1] = x[1] /\ y[2] <= x[2])}

\* The numbers are those up to the number of lines, each given once.
LEMMA RankIs ==
  ASSUME NEW S, IsFiniteSet(S), S \subseteq Nat \X Nat, NEW turn,
         \A x \in S : turn[x[1]] \in Nat,
         \A x, y \in S : turn[x[1]] = turn[y[1]] => x[1] = y[1]
  PROVE  /\ Cardinality(S) \in Nat
         /\ \A x \in S : Cardinality(UpTo(S, turn, x)) \in 1..Cardinality(S)
         /\ \A x, y \in S : Cardinality(UpTo(S, turn, x)) = Cardinality(UpTo(S, turn, y)) => x = y
         /\ \A n \in 1..Cardinality(S) : \E x \in S : Cardinality(UpTo(S, turn, x)) = n
<1> DEFINE N == Cardinality(S)
           f == [x \in S |-> Cardinality(UpTo(S, turn, x))]
<1>1. N \in Nat
  BY FS_CardinalityType
<1>2. \A x \in S : UpTo(S, turn, x) \subseteq S /\ IsFiniteSet(UpTo(S, turn, x)) /\ x \in UpTo(S, turn, x)
  <2>1. \A x \in S : UpTo(S, turn, x) \subseteq S /\ x \in UpTo(S, turn, x)
    BY DEF UpTo
  <2> QED
    BY <2>1, FS_Subset
<1>3. \A x \in S : f[x] \in 1..N
  <2> SUFFICES ASSUME NEW x \in S PROVE f[x] \in 1..N
    OBVIOUS
  <2>1. Cardinality(UpTo(S, turn, x)) \in Nat /\ Cardinality(UpTo(S, turn, x)) <= N
    BY <1>2, FS_Subset, FS_CardinalityType
  <2>2. Cardinality(UpTo(S, turn, x)) # 0
    BY <1>2, FS_EmptySet
  <2> QED
    BY <1>1, <2>1, <2>2
<1>4. ASSUME NEW x \in S, NEW y \in S, x \in UpTo(S, turn, y), x # y
      PROVE  f[x] # f[y]
  <2>1. UpTo(S, turn, x) \subseteq UpTo(S, turn, y) /\ y \notin UpTo(S, turn, x)
    <3>1. /\ x[2] \in Nat /\ y[2] \in Nat /\ x = <<x[1], x[2]>> /\ y = <<y[1], y[2]>>
          /\ \A z \in S : turn[z[1]] \in Nat /\ z[2] \in Nat
      OBVIOUS
    <3>2. turn[x[1]] < turn[y[1]] \/ (x[1] = y[1] /\ x[2] <= y[2])
      BY <1>4 DEF UpTo
    <3>3. turn[x[1]] < turn[y[1]] \/ (x[1] = y[1] /\ x[2] < y[2])
      BY <1>4, <3>1, <3>2
    <3> QED
      BY <3>1, <3>3 DEF UpTo
  <2>2. UpTo(S, turn, x) # UpTo(S, turn, y)
    BY <1>2, <2>1
  <2> QED
    BY <1>2, <2>1, <2>2, FS_Subset
<1>5. \A x, y \in S : f[x] = f[y] => x = y
  <2> SUFFICES ASSUME NEW x \in S, NEW y \in S, f[x] = f[y], x # y PROVE FALSE
    OBVIOUS
  <2>1. x \in UpTo(S, turn, y) \/ y \in UpTo(S, turn, x)
    <3>1. /\ turn[x[1]] \in Nat /\ x[2] \in Nat /\ turn[y[1]] \in Nat /\ y[2] \in Nat
          /\ turn[x[1]] = turn[y[1]] => x[1] = y[1]
      OBVIOUS
    <3> QED
      BY <3>1 DEF UpTo
  <2> HIDE DEF f
  <2> QED
    BY <1>4, <2>1
<1>6. \A n \in 1..N : \E x \in S : f[x] = n
  <2>1. f \in Injection(S, 1..N)
    <3>1. f \in [S -> 1..N]
      BY <1>3
    <3> HIDE DEF f
    <3> QED
      BY <1>5, <3>1 DEF Injection, IsInjective
  <2>2. IsFiniteSet(1..N) /\ Cardinality(1..N) = N
    BY <1>1, FS_Interval
  <2> HIDE DEF f, N
  <2>3. f \in Surjection(S, 1..N)
    BY <2>1, <2>2, FS_Injection DEF N
  <2> QED
    BY <2>3 DEF Surjection
<1> QED
  BY <1>1, <1>3, <1>5, <1>6

\* The allocations of the items that a receipt is for.
Pairs(p) == {x \in (DOMAIN p) \X (DOMAIN batches) : x[2] \in DOMAIN allocations[x[1]]}

Arrives(p) == [x \in Pairs(p) |-> Arriving(x[1], p[x[1]])[x[2]]]

\* Those that some of it comes from, and those among them that had none yet.
Arrived(p) == {x \in DOMAIN Arrives(p) : Arrives(p)[x] > 0}

Created(p) == {x \in Arrived(p) : DestinationBatch(x[1], x[2]) = 0}

\* The batch at the destination that takes them.
Into(p, turn, x) ==
  IF x \in Created(p) THEN Len(batches) + Cardinality(UpTo(Created(p), turn, x))
  ELSE DestinationBatch(x[1], x[2])

Mine(p, turn, n) == {x \in Arrived(p) : Into(p, turn, x) = n}

\* The batches once the receipt is in.
Filled(p, turn, n) ==
  CASE Mine(p, turn, n) = {} -> batches[n]
    [] Mine(p, turn, n) # {} /\ n <= Len(batches) ->
         LET q == SumFunctionOnSet([x \in Mine(p, turn, n) |-> Arrives(p)[x]], Mine(p, turn, n)) IN
         [batches[n] EXCEPT !.initial = @ + q, !.left = @ + q, !.status = "ACTIVE"]
    [] OTHER ->
         LET x == CHOOSE y \in Mine(p, turn, n) : TRUE IN
         NewBatch(Destination[x[1]], Arrives(p)[x], batches[x[2]].cost)

Receives(t, p, turn) ==
  /\ Open(t)
  /\ \A i \in DOMAIN p : Fits(InTransit(i), Lost(i), p[i])
  /\ received' = [i \in Items |-> IF i \in DOMAIN p THEN received[i] + p[i] ELSE received[i]]
  /\ allocations' = [i \in Items |-> [b \in DOMAIN allocations[i] |->
       IF <<i, b>> \in Arrived(p)
       THEN [allocations[i][b] EXCEPT !.received = @ + Arrives(p)[<<i, b>>],
                                      !.batch = Into(p, turn, <<i, b>>)]
       ELSE allocations[i][b]]]
  /\ batches' = [n \in 1..(Len(batches) + Cardinality(Created(p))) |-> Filled(p, turn, n)]
  /\ stock' = [m \in Materials |-> stock[m] + Sought(p, {i \in DOMAIN p : Destination[i] = m})]
  /\ status' = [status EXCEPT ![t] = DerivedStatus(t, received', resolved')]
  /\ UNCHANGED <<call, dispatched, resolved, resolutions, lossCost>>

LEMMA ReceiveDoes ==
  ASSUME NEW t, NEW k, NEW p, NEW turn, Receive(t, k, p, turn)
  PROVE  Receives(t, p, turn)
BY DEF Receive, Receives, Filled, Mine, Into, Created, Arrived, Arrives, Pairs, UpTo, Sought, SumOver,
       ToSkip, Allowed, Open

\* A receipt for the items of a transfer.
Receipt(t, p, turn) ==
  /\ DOMAIN p \subseteq ItemsOf(t) /\ \A i \in DOMAIN p : p[i] \in Nat
  /\ Ordered(turn, DOMAIN p)
  /\ Receives(t, p, turn)

\* What comes of each allocation.
LEMMA ArrivingIs ==
  ASSUME ItemInv, NEW t \in Transfers, NEW p, NEW turn, Receipt(t, p, turn), NEW i \in DOMAIN p
  PROVE  /\ i \in Items /\ TransferOf[i] = t /\ p[i] \in Nat /\ Lost(i) \in Nat
         /\ Lost(i) + p[i] <= Total(InTransit(i))
         /\ Arriving(i, p[i]) = Draw(InTransit(i), Lost(i), p[i])
         /\ \A b \in DOMAIN allocations[i] :
              /\ b \in DOMAIN batches /\ Arriving(i, p[i])[b] \in Nat
              /\ Arriving(i, p[i])[b] <= InTransit(i)[b]
              /\ <<i, b>> \in Arrived(p) <=> Arriving(i, p[i])[b] > 0
              /\ <<i, b>> \in Arrived(p) => Arrives(p)[<<i, b>>] = Arriving(i, p[i])[b]
<1>1. i \in Items /\ TransferOf[i] = t /\ p[i] \in Nat
  BY DEF Receipt, ItemsOf
<1>2. Lost(i) \in Nat /\ StockInv /\ AllocationOk(i)
  BY <1>1, ItemFacts DEF ItemInv
<1>3. Lost(i) + p[i] <= Total(InTransit(i))
  BY DEF Receipt, Receives, Fits
<1>4. Arriving(i, p[i]) = Draw(InTransit(i), Lost(i), p[i])
  BY DEF Arriving, ToSkip
<1>5. ASSUME NEW b \in DOMAIN allocations[i]
      PROVE  /\ b \in DOMAIN batches /\ Arriving(i, p[i])[b] \in Nat
             /\ Arriving(i, p[i])[b] <= InTransit(i)[b]
             /\ <<i, b>> \in Arrived(p) <=> Arriving(i, p[i])[b] > 0
             /\ <<i, b>> \in Arrived(p) => Arrives(p)[<<i, b>>] = Arriving(i, p[i])[b]
  <2>1. b \in DOMAIN batches
    BY <1>2 DEF AllocationOk
  <2>2. /\ Stack(InTransit(i), Len(batches)) /\ Len(batches) \in Nat
        /\ DOMAIN InTransit(i) = DOMAIN allocations[i]
    BY <1>1, <1>2, TransitStack
  <2>3. Arriving(i, p[i])[b] \in 0..InTransit(i)[b] /\ InTransit(i)[b] \in Nat
    <3> DEFINE a == InTransit(i)
    <3>1. Stack(a, Len(batches)) /\ Len(batches) \in Nat /\ b \in DOMAIN a
          /\ Lost(i) \in Nat /\ p[i] \in Nat /\ Arriving(i, p[i])[b] = Draw(a, Lost(i), p[i])[b]
      BY <1>1, <1>2, <1>4, <2>2
    <3> HIDE DEF a
    <3>2. Draw(a, Lost(i), p[i])[b] \in 0..a[b]
      BY <3>1, DrawIs
    <3> QED
      BY <3>1, <3>2 DEF Stack, a
  <2>4. <<i, b>> \in Pairs(p)
    BY <2>1 DEF Pairs
  <2>5. DOMAIN Arrives(p) = Pairs(p) /\ Arrives(p)[<<i, b>>] = Arriving(i, p[i])[b]
    BY <2>4 DEF Arrives
  <2>6. <<i, b>> \in Arrived(p) <=> Arriving(i, p[i])[b] > 0
    BY <2>4, <2>5 DEF Arrived
  <2> QED
    BY <2>1, <2>3, <2>5, <2>6
<1> QED
  BY <1>1, <1>2, <1>3, <1>4, <1>5

\* The lines of a receipt, and where each goes.
LEMMA ArrivedIs ==
  ASSUME ItemInv, NEW t \in Transfers, NEW p, NEW turn, Receipt(t, p, turn)
  PROVE  /\ \A x \in Arrived(p) :
              /\ x = <<x[1], x[2]>> /\ x[1] \in DOMAIN p /\ x[1] \in Items /\ TransferOf[x[1]] = t
              /\ x[2] \in DOMAIN allocations[x[1]] /\ x[2] \in DOMAIN batches
              /\ Arrives(p)[x] \in Nat \ {0}
         /\ IsFiniteSet(Arrived(p)) /\ Cardinality(Created(p)) \in Nat /\ Len(batches) \in Nat
         /\ \A x \in Created(p) :
              /\ x \in Arrived(p) /\ allocations[x[1]][x[2]].batch = 0
              /\ Into(p, turn, x) \in (Len(batches) + 1)..(Len(batches) + Cardinality(Created(p)))
         /\ \A x \in Arrived(p) \ Created(p) :
              /\ Into(p, turn, x) = allocations[x[1]][x[2]].batch
              /\ Into(p, turn, x) \in 1..Len(batches)
         /\ \A n \in (Len(batches) + 1)..(Len(batches) + Cardinality(Created(p))) :
              \E x \in Created(p) : Mine(p, turn, n) = {x}
<1> DEFINE A == Arrived(p)
           C == Created(p)
           L == Len(batches)
<1>1. L \in Nat /\ DOMAIN batches = 1..L
  BY DEF ItemInv, StockInv
<1>2. ASSUME NEW x \in A
      PROVE  /\ x = <<x[1], x[2]>> /\ x[1] \in DOMAIN p /\ x[1] \in Items /\ TransferOf[x[1]] = t
             /\ x[2] \in DOMAIN allocations[x[1]] /\ x[2] \in DOMAIN batches
             /\ Arrives(p)[x] \in Nat \ {0}
  <2>1. x \in Pairs(p) /\ Arrives(p)[x] > 0
    BY DEF Arrived, Arrives
  <2>2. x = <<x[1], x[2]>> /\ x[1] \in DOMAIN p /\ x[2] \in DOMAIN batches /\ x[2] \in DOMAIN allocations[x[1]]
    BY <2>1 DEF Pairs
  <2>3. x[1] \in Items /\ TransferOf[x[1]] = t
    BY <2>2, ArrivingIs
  <2>4. Arrives(p)[x] = Arriving(x[1], p[x[1]])[x[2]]
    BY <2>1 DEF Arrives
  <2>5. Arriving(x[1], p[x[1]])[x[2]] \in Nat
    BY <2>2, ArrivingIs
  <2> QED
    BY <2>1, <2>2, <2>3, <2>4, <2>5
<1>3. IsFiniteSet(A) /\ IsFiniteSet(C) /\ C \subseteq A /\ A \subseteq Nat \X Nat
  <2>1. IsFiniteSet(Items \X (1..L))
    <3>1. IsFiniteSet(1..L)
      BY <1>1, FS_Interval
    <3> QED
      BY <3>1, TransfersAssumption, FS_Product
  <2>2. A \subseteq Items \X (1..L)
    BY <1>1, <1>2
  <2>3. C \subseteq A
    BY DEF Created
  <2>4. A \subseteq Nat \X Nat
    <3>1. Items \subseteq Nat /\ 1..L \subseteq Nat
      BY <1>1, TransfersAssumption
    <3> HIDE DEF A, L
    <3> QED
      BY <2>2, <3>1
  <2> HIDE DEF A, C
  <2>5. IsFiniteSet(A)
    BY <2>1, <2>2, FS_Subset
  <2> QED
    BY <2>3, <2>4, <2>5, FS_Subset
<1>4. /\ Cardinality(C) \in Nat
      /\ \A x \in C : Cardinality(UpTo(C, turn, x)) \in 1..Cardinality(C)
      /\ \A x, y \in C : Cardinality(UpTo(C, turn, x)) = Cardinality(UpTo(C, turn, y)) => x = y
      /\ \A n \in 1..Cardinality(C) : \E x \in C : Cardinality(UpTo(C, turn, x)) = n
  <2>1. IsFiniteSet(C) /\ C \subseteq Nat \X Nat
    BY <1>3
  <2>2. /\ \A x \in C : turn[x[1]] \in Nat
        /\ \A x, y \in C : turn[x[1]] = turn[y[1]] => x[1] = y[1]
    <3>1. \A x \in C : x[1] \in DOMAIN p
      BY <1>2, <1>3
    <3>2. Cardinality(DOMAIN p) \in Nat
      BY TransfersAssumption, FS_Subset, FS_CardinalityType DEF Receipt, ItemsOf
    <3>3. \A i \in DOMAIN p : turn[i] \in Nat
      BY <3>2 DEF Receipt, Ordered
    <3> HIDE DEF C
    <3> QED
      BY <3>1, <3>3 DEF Receipt, Ordered
  <2> HIDE DEF C
  <2> QED
    BY <2>1, <2>2, RankIs
<1>5. ASSUME NEW x \in C
      PROVE  /\ x \in A /\ allocations[x[1]][x[2]].batch = 0
             /\ Into(p, turn, x) = L + Cardinality(UpTo(C, turn, x))
             /\ Into(p, turn, x) \in (L + 1)..(L + Cardinality(C))
  <2>1. Into(p, turn, x) = L + Cardinality(UpTo(C, turn, x))
    BY DEF Into
  <2>2. Cardinality(UpTo(C, turn, x)) \in 1..Cardinality(C) /\ Cardinality(C) \in Nat
    BY <1>4
  <2>3. Into(p, turn, x) \in (L + 1)..(L + Cardinality(C))
    BY <1>1, <2>1, <2>2
  <2> QED
    BY <2>1, <2>3 DEF Created, DestinationBatch
<1>6. ASSUME NEW x \in A \ C
      PROVE  /\ Into(p, turn, x) = allocations[x[1]][x[2]].batch
             /\ Into(p, turn, x) \in 1..L
  <2>1. Into(p, turn, x) = allocations[x[1]][x[2]].batch /\ Into(p, turn, x) # 0
    BY DEF Into, Created, DestinationBatch
  <2>2. allocations[x[1]][x[2]].batch \in 0..L
    <3>1. AllocationOk(x[1]) /\ x[2] \in DOMAIN allocations[x[1]]
      BY <1>2 DEF ItemInv
    <3> QED
      BY <3>1 DEF AllocationOk
  <2> QED
    BY <1>1, <2>1, <2>2
<1>7. ASSUME NEW n \in (L + 1)..(L + Cardinality(C))
      PROVE  \E x \in C : Mine(p, turn, n) = {x}
  <2>1. n - L \in 1..Cardinality(C) /\ n \in Nat /\ n > L
    BY <1>1, <1>4
  <2>2. PICK x \in C : Cardinality(UpTo(C, turn, x)) = n - L
    BY <1>4, <2>1
  <2>3. x \in A /\ Into(p, turn, x) = n
    BY <1>1, <1>5, <2>1, <2>2
  <2>4. ASSUME NEW y \in A, Into(p, turn, y) = n
        PROVE  y = x
    <3>1. y \in C
      BY <1>1, <1>6, <2>1, <2>4
    <3>2. L + Cardinality(UpTo(C, turn, y)) = n /\ Cardinality(UpTo(C, turn, y)) \in Nat
      BY <1>4, <1>5, <2>4, <3>1
    <3>3. Cardinality(UpTo(C, turn, y)) = Cardinality(UpTo(C, turn, x))
      BY <1>1, <2>1, <2>2, <3>2
    <3> QED
      BY <1>4, <3>1, <3>3
  <2>5. Mine(p, turn, n) = {x}
    BY <2>3, <2>4 DEF Mine
  <2> QED
    BY <2>5
<1> QED
  BY <1>1, <1>2, <1>3, <1>4, <1>5, <1>6, <1>7

\* What comes into a batch.
Gain(p, turn, n) == SumFunctionOnSet([x \in Mine(p, turn, n) |-> Arrives(p)[x]], Mine(p, turn, n))

LEMMA GainIs ==
  ASSUME ItemInv, NEW t \in Transfers, NEW p, NEW turn, Receipt(t, p, turn), NEW n
  PROVE  /\ Gain(p, turn, n) \in Nat /\ Summable([x \in Mine(p, turn, n) |-> Arrives(p)[x]], Mine(p, turn, n))
         /\ Mine(p, turn, n) = {} => Gain(p, turn, n) = 0
         /\ \A x : Mine(p, turn, n) = {x} => Gain(p, turn, n) = Arrives(p)[x]
<1> DEFINE S == Mine(p, turn, n)
           f == [x \in S |-> Arrives(p)[x]]
<1>1. S \subseteq Arrived(p)
  BY DEF Mine
<1>2. IsFiniteSet(S)
  BY <1>1, ArrivedIs, FS_Subset
<1>3. \A x \in S : f[x] \in Nat
  BY <1>1, ArrivedIs
<1>4. Summable(f, S)
  BY <1>2, <1>3 DEF Summable
<1>5. \A x : S = {x} => f[x] = Arrives(p)[x] /\ f[x] \in Nat
  BY <1>3
<1>6. Gain(p, turn, n) = SumFunctionOnSet(f, S)
  BY DEF Gain
<1> HIDE DEF f, S
<1>7. SumFunctionOnSet(f, S) \in Nat
  BY <1>4, SumType
<1>8. S = {} => SumFunctionOnSet(f, S) = 0
  BY SumEmpty
<1>9. ASSUME NEW x, S = {x}
      PROVE  SumFunctionOnSet(f, S) = f[x]
  BY <1>5, <1>9, SumOfOne
<1> QED
  BY <1>4, <1>5, <1>6, <1>7, <1>8, <1>9 DEF S, f

\* What becomes of a batch that there was.
LEMMA FilledOld ==
  ASSUME ItemInv, NEW t \in Transfers, NEW p, NEW turn, Receipt(t, p, turn), NEW b \in DOMAIN batches
  PROVE  /\ b \in DOMAIN batches' /\ batches'[b] \in BatchType
         /\ batches'[b].material = batches[b].material /\ batches'[b].cost = batches[b].cost
         /\ batches'[b].used = batches[b].used
         /\ batches'[b].initial = batches[b].initial + Gain(p, turn, b)
         /\ batches'[b].left = batches[b].left + Gain(p, turn, b)
         /\ batches'[b].status = IF Mine(p, turn, b) = {} THEN batches[b].status ELSE "ACTIVE"
<1>1. /\ b \in 1..Len(batches) /\ b \in 1..(Len(batches) + Cardinality(Created(p)))
      /\ Len(batches) \in Nat
  <2>1. Len(batches) \in Nat /\ Cardinality(Created(p)) \in Nat /\ b \in 1..Len(batches)
    BY ArrivedIs, BatchTyped DEF ItemInv
  <2> QED
    BY <2>1
<1>2. b \in DOMAIN batches' /\ batches'[b] = Filled(p, turn, b)
  BY <1>1 DEF Receipt, Receives
<1>3. /\ batches[b] \in BatchType /\ batches[b].initial \in Nat /\ batches[b].left \in Nat
      /\ Gain(p, turn, b) \in Nat
  BY BatchTyped, GainIs DEF ItemInv
<1>4. CASE Mine(p, turn, b) = {}
  <2>1. batches'[b] = batches[b] /\ Gain(p, turn, b) = 0
    BY <1>2, <1>4, GainIs DEF Filled
  <2> QED
    BY <1>2, <1>3, <1>4, <2>1
<1>5. CASE Mine(p, turn, b) # {}
  <2> DEFINE q == Gain(p, turn, b)
             new == [batches[b] EXCEPT !.initial = batches[b].initial + q, !.left = batches[b].left + q,
                                       !.status = "ACTIVE"]
  <2>1. batches'[b] = new
    BY <1>1, <1>2, <1>5 DEF Filled, Gain
  <2>2. q \in Nat
    BY <1>3
  <2> HIDE DEF q
  <2>3. /\ new \in BatchType /\ new.initial = batches[b].initial + q /\ new.left = batches[b].left + q
        /\ new.status = "ACTIVE" /\ new.used = batches[b].used
        /\ new.material = batches[b].material /\ new.cost = batches[b].cost
    <3> DEFINE old == batches[b]
    <3>1. old \in BatchType /\ old.initial + q \in Nat /\ old.left + q \in Nat
      BY <1>3, <2>2
    <3> HIDE DEF old
    <3>2. LET row == [old EXCEPT !.initial = old.initial + q, !.left = old.left + q, !.status = "ACTIVE"]
          IN  /\ row \in BatchType /\ row.initial = old.initial + q /\ row.left = old.left + q
              /\ row.status = "ACTIVE" /\ row.used = old.used
              /\ row.material = old.material /\ row.cost = old.cost
      BY <3>1 DEF BatchType
    <3> QED
      BY <3>2 DEF old
  <2> QED
    BY <1>2, <1>5, <2>1, <2>3 DEF q
<1> QED
  BY <1>4, <1>5

\* Every new batch is the one line's that created it.
LEMMA FilledNew ==
  ASSUME ItemInv, NEW t \in Transfers, NEW p, NEW turn, Receipt(t, p, turn), NEW n \in DOMAIN batches' \ DOMAIN batches
  PROVE  /\ n > Len(batches)
         /\ batches'[n] \in BatchType
         /\ \E x \in Created(p) :
              /\ Mine(p, turn, n) = {x} /\ x \in Arrived(p)
              /\ batches'[n] = NewBatch(Destination[x[1]], Arrives(p)[x], batches[x[2]].cost)
              /\ batches'[n].initial = Arrives(p)[x] /\ batches'[n].left = Arrives(p)[x]
              /\ batches'[n].used = 0 /\ batches'[n].material = Destination[x[1]]
              /\ batches'[n].status = "ACTIVE"
<1> DEFINE L == Len(batches)
           C == Cardinality(Created(p))
<1>1. L \in Nat /\ C \in Nat /\ DOMAIN batches = 1..L
  BY ArrivedIs DEF ItemInv, StockInv
<1>2. DOMAIN batches' = 1..(L + C) /\ batches'[n] = Filled(p, turn, n)
  BY DEF Receipt, Receives
<1>3. n \in (L + 1)..(L + C) /\ n > L /\ ~ (n <= L)
  BY <1>1, <1>2
<1>4. PICK x \in Created(p) : Mine(p, turn, n) = {x}
  BY <1>3, ArrivedIs
<1>5. batches'[n] = NewBatch(Destination[x[1]], Arrives(p)[x], batches[x[2]].cost)
  <2>1. (CHOOSE y \in Mine(p, turn, n) : TRUE) = x /\ Mine(p, turn, n) # {}
    BY <1>4
  <2> QED
    BY <1>2, <1>3, <1>4, <2>1 DEF Filled
<1>6. x \in Arrived(p) /\ x[1] \in Items /\ x[2] \in DOMAIN batches /\ Arrives(p)[x] \in Nat
  BY <1>4, ArrivedIs
<1>7. Destination[x[1]] \in Materials /\ batches[x[2]].cost \in Nat
  BY <1>6, TransfersAssumption, BatchTyped DEF ItemInv
<1>8. /\ batches'[n] \in BatchType
      /\ batches'[n].initial = Arrives(p)[x] /\ batches'[n].left = Arrives(p)[x]
      /\ batches'[n].used = 0 /\ batches'[n].material = Destination[x[1]]
      /\ batches'[n].status = "ACTIVE"
  BY <1>5, <1>6, <1>7, NewBatchTyped
<1> QED
  BY <1>3, <1>4, <1>5, <1>6, <1>8

LEMMA ReceiveStock ==
  ASSUME ItemInv, NEW t \in Transfers, NEW p, NEW turn, Receipt(t, p, turn)
  PROVE  StockInv' /\ BatchesStay
<1>1. \A b \in DOMAIN batches :
        b \in DOMAIN batches' /\ batches'[b] \in BatchType /\ batches'[b].cost = batches[b].cost
  BY FilledOld
<1>2. \A b \in DOMAIN batches' : batches'[b] \in BatchType
  BY <1>1, FilledNew
<1>3. batches' \in Seq(BatchType)
  <2> DEFINE N == Len(batches) + Cardinality(Created(p))
  <2>1. N \in Nat
    <3>1. Len(batches) \in Nat /\ Cardinality(Created(p)) \in Nat
      BY ArrivedIs
    <3> QED
      BY <3>1
  <2>2. batches' = [n \in 1..N |-> Filled(p, turn, n)]
    BY DEF Receipt, Receives
  <2> HIDE DEF N
  <2>3. batches' \in [1..N -> BatchType]
    BY <1>2, <2>2
  <2> QED
    BY <2>1, <2>3, SeqDef
<1>4. stock' \in [Materials -> Int]
  <2>1. stock' = [m \in Materials |-> stock[m] + Sought(p, {i \in DOMAIN p : Destination[i] = m})]
    BY DEF Receipt, Receives
  <2>2. ASSUME NEW m \in Materials
        PROVE  Sought(p, {i \in DOMAIN p : Destination[i] = m}) \in Nat
    <3> DEFINE S == {i \in DOMAIN p : Destination[i] = m}
    <3>1. S \subseteq Items /\ \A i \in S : p[i] \in Nat
      BY DEF Receipt, ItemsOf
    <3> HIDE DEF S
    <3>2. Sought(p, S) \in Nat
      BY <3>1, AskedSum
    <3> QED
      BY <3>2 DEF S
  <2> QED
    BY <2>1, <2>2 DEF ItemInv, StockInv
<1>5. call' = call
  BY DEF Receipt, Receives
<1>6. \A c \in Calls : CallOk(c)'
  <2>1. DOMAIN batches \subseteq DOMAIN batches'
    BY <1>1
  <2> QED
    BY <1>5, <2>1 DEF ItemInv, StockInv, CallOk
<1> QED
  BY <1>1, <1>3, <1>4, <1>5, <1>6 DEF ItemInv, StockInv, BatchesStay

\* What a receipt leaves in transit of an item.
LEMMA ReceivedItem ==
  ASSUME ItemInv, NEW t \in Transfers, NEW p, NEW turn, Receipt(t, p, turn), BatchesStay, StockInv',
         Open(t)' \/ Closed(t)', NEW i \in DOMAIN p
  PROVE  AllocationOk(i)' /\ LossOk(i)'
<1> DEFINE a == InTransit(i)
           r == InTransit(i)'
           s == Lost(i)
           q == p[i]
<1>1. /\ i \in Items /\ TransferOf[i] = t /\ q \in Nat /\ s \in Nat /\ s + q <= Total(a)
      /\ \A b \in DOMAIN allocations[i] :
           /\ b \in DOMAIN batches /\ Arriving(i, q)[b] \in Nat
           /\ Arriving(i, q)[b] <= a[b]
           /\ <<i, b>> \in Arrived(p) <=> Arriving(i, q)[b] > 0
           /\ <<i, b>> \in Arrived(p) => Arrives(p)[<<i, b>>] = Arriving(i, q)[b]
      /\ Arriving(i, q) = Draw(a, s, q)
  BY ArrivingIs
<1>2. /\ StockInv /\ AllocationOk(i) /\ LossOk(i) /\ dispatched[i] \in Nat /\ received[i] \in Nat
  BY <1>1, ItemFacts DEF ItemInv
<1>3. /\ DOMAIN allocations'[i] = DOMAIN allocations[i]
      /\ \A b \in DOMAIN allocations[i] :
           allocations'[i][b] =
             IF <<i, b>> \in Arrived(p)
             THEN [allocations[i][b] EXCEPT !.received = @ + Arrives(p)[<<i, b>>],
                                      !.batch = Into(p, turn, <<i, b>>)]
             ELSE allocations[i][b]
      /\ received'[i] = received[i] + q /\ dispatched' = dispatched /\ lossCost' = lossCost
      /\ \A reasons : ResolvedFor(i, reasons)' = ResolvedFor(i, reasons)
  BY <1>1 DEF Receipt, Receives, ResolvedFor, SumOver
<1>4. ASSUME NEW b \in DOMAIN allocations[i]
      PROVE  /\ b \in DOMAIN batches' /\ r[b] = a[b] - Arriving(i, q)[b]
             /\ allocations'[i][b] \in [quantity : Nat \ {0}, received : Nat, batch : 0..Len(batches')]
             /\ allocations'[i][b].received <= allocations'[i][b].quantity
  <2> DEFINE x == allocations[i][b]
             y == allocations'[i][b]
             d == Arriving(i, q)[b]
  <2>1. /\ x \in [quantity : Nat \ {0}, received : Nat, batch : 0..Len(batches)]
        /\ x.received <= x.quantity /\ a[b] = x.quantity - x.received
        /\ d \in Nat /\ d <= a[b]
    BY <1>1, <1>2 DEF AllocationOk, InTransit
  <2>2. r[b] = y.quantity - y.received
    BY <1>3 DEF InTransit
  <2>3. 0..Len(batches) \subseteq 0..Len(batches') /\ b \in DOMAIN batches'
    <3> DEFINE m == Len(batches)
               n == Len(batches')
    <3>1. m <= n /\ m \in Nat /\ n \in Nat
      BY <1>2, StayingCosts
    <3>2. b \in DOMAIN batches'
      BY <1>1 DEF BatchesStay
    <3> HIDE DEF m, n
    <3>3. 0..m \subseteq 0..n
      BY <3>1
    <3> QED
      BY <3>2, <3>3 DEF m, n
  <2>4. CASE <<i, b>> \in Arrived(p)
    <3>1. y = [x EXCEPT !.received = x.received + d, !.batch = Into(p, turn, <<i, b>>)]
      BY <1>1, <1>3, <2>4
    <3>2. Into(p, turn, <<i, b>>) \in 0..Len(batches')
      <4> DEFINE z == <<i, b>>
                 C == Cardinality(Created(p))
      <4>1. /\ z \in Arrived(p) /\ C \in Nat /\ Len(batches) \in Nat
            /\ z \in Created(p) => Into(p, turn, z) \in (Len(batches) + 1)..(Len(batches) + C)
            /\ z \notin Created(p) => Into(p, turn, z) \in 1..Len(batches)
        BY <2>4, ArrivedIs
      <4>2. Len(batches') = Len(batches) + C
        <5>1. DOMAIN batches' = 1..(Len(batches) + C)
          BY DEF Receipt, Receives
        <5>2. DOMAIN batches' = 1..Len(batches') /\ Len(batches') \in Nat
          BY <1>2, StayingCosts
        <5>3. \A m, n \in Nat : 1..m = 1..n => m = n
          <6> SUFFICES ASSUME NEW m \in Nat, NEW n \in Nat, 1..m = 1..n PROVE m = n
            OBVIOUS
          <6>1. Cardinality(1..m) = m /\ Cardinality(1..n) = n
            BY FS_Interval
          <6> QED
            BY <6>1
        <5>4. Len(batches) + C \in Nat
          BY <4>1
        <5> QED
          BY <5>1, <5>2, <5>3, <5>4
      <4> HIDE DEF z, C
      <4>3. Into(p, turn, z) \in 0..Len(batches')
        BY <4>1, <4>2
      <4> QED
        BY <4>3 DEF z
    <3> DEFINE e == Into(p, turn, <<i, b>>)
               To == 0..Len(batches')
    <3>0. e \in To /\ y = [x EXCEPT !.received = x.received + d, !.batch = e]
      BY <3>1, <3>2
    <3> HIDE DEF x, y, d, e
    <3>3. /\ y.quantity = x.quantity /\ y.received = x.received + d
          /\ y \in [quantity : Nat \ {0}, received : Nat, batch : To]
      <4> HIDE DEF To
      <4>1. x.quantity \in Nat \ {0} /\ x.received \in Nat /\ x.received + d \in Nat
        BY <2>1
      <4> QED
        BY <2>1, <3>0, <4>1
    <3>4. x.quantity \in Nat /\ x.received \in Nat
      BY <2>1
    <3>5. r[b] = a[b] - d /\ y.received <= y.quantity
      BY <2>1, <2>2, <3>3, <3>4
    <3> QED
      BY <2>3, <3>3, <3>5 DEF y, d
  <2>5. CASE <<i, b>> \notin Arrived(p)
    <3>1. y = x /\ d = 0
      <4>1. y = x
        BY <1>3, <2>5
      <4>2. d \in Nat /\ ~ (d > 0)
        BY <1>1, <2>5
      <4> QED
        BY <4>1, <4>2
    <3> HIDE DEF x, y, d
    <3>2. y \in [quantity : Nat \ {0}, received : Nat, batch : 0..Len(batches')] /\ y.received <= y.quantity
      BY <2>1, <2>3, <3>1
    <3>3. r[b] = a[b] - d
      <4>1. x.quantity \in Nat /\ x.received \in Nat
        BY <2>1
      <4> QED
        BY <2>1, <2>2, <3>1, <4>1
    <3> QED
      BY <2>3, <3>2, <3>3 DEF y, d
  <2> QED
    BY <2>4, <2>5
<1>5. /\ Stack(a, Len(batches)) /\ Len(batches) \in Nat /\ DOMAIN a = DOMAIN allocations[i]
      /\ Costed(a, costs) /\ DOMAIN r = DOMAIN a
  <2>1. DOMAIN r = DOMAIN allocations[i]
    BY <1>3 DEF InTransit
  <2> QED
    BY <1>1, <1>2, <2>1, TransitStack
<1>6. /\ Total(r) = Total(a) - q /\ \A b \in DOMAIN a : Draw(r, 0, s)[b] = Draw(a, 0, s)[b]
      /\ Total(a) \in Nat
  <2>1. \A b \in DOMAIN a : r[b] = a[b] - Draw(a, s, q)[b]
    BY <1>1, <1>4, <1>5
  <2> DEFINE N == Len(batches)
  <2>2. /\ N \in Nat /\ Stack(a, N) /\ s \in Nat /\ q \in Nat /\ s + q <= Total(a)
        /\ DOMAIN r = DOMAIN a
    BY <1>1, <1>5
  <2> HIDE DEF a, r, s, q, N
  <2>3. /\ Stack(r, N) /\ Total(r) = Total(a) - q
        /\ \A b \in DOMAIN a : Draw(r, 0, s)[b] = Draw(a, 0, s)[b]
    BY ONLY <2>1, <2>2, DrawLeaves, SMTT(30)
  <2>4. Total(a) \in Nat
    BY <2>2, StackSums
  <2> QED
    BY <2>3, <2>4
<1>7. AllocationOk(i)'
  <2>1. Total(r) = dispatched[i] - (received[i] + q)
    BY <1>1, <1>2, <1>6 DEF AllocationOk
  <2>2. Total(InTransit(i))' = dispatched'[i] - received'[i]
    BY <1>3, <2>1
  <2> HIDE DEF a, r, s, q
  <2> QED
    BY <1>1, <1>3, <1>4, <2>2 DEF AllocationOk
<1>8. LossOk(i)'
  <2>1. Lost(i)' = s /\ ResolvedFor(i, {"NOT_DISPATCHED"})' = ResolvedFor(i, {"NOT_DISPATCHED"})
    BY <1>3 DEF Lost
  <2>2. Priced(i)' = Price(r, 0, s, costs') /\ Priced(i) = Price(a, 0, s, costs)
    BY <2>1 DEF Priced
  <2>3. \A b \in DOMAIN a : costs'[b] = costs[b]
    BY <1>1, <1>2, <1>5, StayingCosts
  <2>4. Total(InTransit(i))' = Total(r)
    OBVIOUS
  <2> HIDE DEF a, r, s, q
  <2>5. Price(r, 0, s, costs') = Price(a, 0, s, costs)
    BY <1>1, <1>5, <1>6, <2>3, PriceKept
  <2>6. s <= Total(r)
    BY <1>1, <1>6
  <2> QED
    BY <1>2, <1>3, <2>1, <2>2, <2>4, <2>5, <2>6 DEF LossOk
<1> QED
  BY <1>7, <1>8

LEMMA ReceiveIsReceipt ==
  ASSUME NEW t \in Transfers, NEW k, NEW p \in Requests(t, Asked),
         NEW turn \in Turns(DOMAIN p), Receive(t, k, p, turn)
  PROVE  Receipt(t, p, turn)
<1>1. DOMAIN p \subseteq ItemsOf(t) /\ \A i \in DOMAIN p : p[i] \in Nat
  BY RequestsAsked, TransfersAssumption DEF ItemsOf
<1> QED
  BY <1>1, ReceiveDoes, TurnsOrder DEF Receipt

LEMMA ItemReceive ==
  ASSUME ItemInv, RecordInv', NEW t \in Transfers, NEW p, NEW turn, Receipt(t, p, turn)
  PROVE  ItemInv'
<1>1. StockInv' /\ BatchesStay
  BY ReceiveStock
<1>2. /\ Open(t) /\ DOMAIN p \subseteq ItemsOf(t)
      /\ received' = [i \in Items |-> IF i \in DOMAIN p THEN received[i] + p[i] ELSE received[i]]
      /\ status' = [status EXCEPT ![t] = DerivedStatus(t, received', resolved')]
      /\ resolved' = resolved /\ dispatched' = dispatched /\ resolutions' = resolutions
      /\ lossCost' = lossCost
  BY DEF Receipt, Receives
<1>3. /\ \A u \in Transfers : StatusOk(u)'
      /\ \A u \in Transfers \ {t} : (Open(u)' <=> Open(u)) /\ (Closed(u)' <=> Closed(u))
      /\ Open(t)' \/ Closed(t)'
  <2>1. \A i \in Items \ ItemsOf(t) : received'[i] = received[i] /\ resolved'[i] = resolved[i]
    BY <1>2
  <2> QED
    BY <1>2, <2>1, DerivedIs
<1>4. ASSUME NEW i \in Items, i \notin DOMAIN p
      PROVE  AllocationOk(i)' /\ LossOk(i)'
  <2>1. /\ DOMAIN allocations'[i] = DOMAIN allocations[i]
        /\ \A b \in DOMAIN allocations[i] : allocations'[i][b] = allocations[i][b]
    <3>1. \A b \in DOMAIN allocations[i] : <<i, b>> \notin Arrived(p)
      <4> SUFFICES ASSUME NEW b, <<i, b>> \in Arrived(p) PROVE FALSE
        OBVIOUS
      <4>1. <<i, b>>[1] \in DOMAIN p
        BY ArrivedIs
      <4> QED
        BY <1>4, <4>1
    <3> QED
      BY <3>1 DEF Receipt, Receives
  <2>2. \A reasons : ResolvedFor(i, reasons)' = ResolvedFor(i, reasons)
    BY <1>2 DEF ResolvedFor, SumOver
  <2>3. Open(TransferOf[i])' \/ Closed(TransferOf[i])' <=> Open(TransferOf[i]) \/ Closed(TransferOf[i])
    BY <1>2, <1>3, TransfersAssumption
  <2>4. ItemSame(i)
    BY <1>2, <1>4, <2>1, <2>2, <2>3 DEF ItemSame
  <2> QED
    BY <1>1, <2>4, ItemStays
<1>5. \A i \in Items : AllocationOk(i)' /\ LossOk(i)'
  BY <1>1, <1>3, <1>4, ReceivedItem
<1>6. DOMAIN allocations' = Items /\ lossCost' = [i \in Items |-> lossCost'[i]]
  BY <1>2 DEF Receipt, Receives, ItemInv
<1> QED
  BY <1>1, <1>3, <1>5, <1>6 DEF ItemInv

-----------------------------------------------------------------------------
\* The stock starts with its opening batches, whole.
LEMMA StockStarts ==
  ASSUME StockInit
  PROVE  /\ StockInv /\ DOMAIN batches = DOMAIN Opening
         /\ \A b \in DOMAIN batches : batches[b].initial = batches[b].left /\ batches[b].used = 0
<1>1. /\ DOMAIN Opening = 1..Len(Opening) /\ Len(Opening) \in Nat
      /\ \A n \in DOMAIN Opening : Opening[n][1] \in Materials /\ Opening[n][2] \in Nat /\ Opening[n][3] \in Nat
  <2>1. Opening \in Seq(Materials \X (Nat \ {0}) \X Nat)
    BY StockAssumption
  <2>2. \A n \in DOMAIN Opening : Opening[n] \in Materials \X (Nat \ {0}) \X Nat
    BY <2>1
  <2> QED
    BY <2>1, <2>2
<1>2. /\ batches = [n \in DOMAIN Opening |-> NewBatch(Opening[n][1], Opening[n][2], Opening[n][3])]
      /\ stock = [m \in Materials |->
           SumFunctionOnSet([n \in DOMAIN Opening |-> Opening[n][2]],
                            {n \in DOMAIN Opening : Opening[n][1] = m})]
      /\ call = [c \in Calls |-> NoCall]
  BY DEF StockInit
<1>3. DOMAIN batches = DOMAIN Opening
  BY <1>2
<1>4. \A b \in DOMAIN batches :
        batches[b] \in BatchType /\ batches[b].initial = batches[b].left /\ batches[b].used = 0
  BY <1>1, <1>2, NewBatchTyped
<1>5. batches \in Seq(BatchType)
  <2>1. batches \in [1..Len(Opening) -> BatchType]
    BY <1>1, <1>2, <1>4
  <2> QED
    BY <1>1, <2>1, SeqDef
<1>6. stock \in [Materials -> Int]
  <2> SUFFICES ASSUME NEW m \in Materials
               PROVE  SumFunctionOnSet([n \in DOMAIN Opening |-> Opening[n][2]],
                                       {n \in DOMAIN Opening : Opening[n][1] = m}) \in Int
    BY <1>2
  <2> DEFINE f == [n \in DOMAIN Opening |-> Opening[n][2]]
             S == {n \in DOMAIN Opening : Opening[n][1] = m}
  <2>1. IsFiniteSet(DOMAIN Opening)
    BY <1>1, FS_Interval
  <2>2. IsFiniteSet(S) /\ \A n \in S : f[n] \in Nat
    BY <1>1, <2>1, FS_Subset
  <2>3. Summable(f, S)
    BY <2>2 DEF Summable
  <2> HIDE DEF f, S
  <2>4. SumFunctionOnSet(f, S) \in Nat
    BY <2>3, SumType
  <2> QED
    BY <2>4 DEF f, S
<1>7. call \in [Calls -> CallType] /\ \A c \in Calls : call[c].pc = "new"
  <2>1. NoCall \in CallType /\ NoCall.pc = "new"
    BY DEF NoCall, CallType
  <2> QED
    BY <1>2, <2>1
<1>8. \A c \in Calls : CallOk(c)
  BY <1>7 DEF CallOk
<1> QED
  BY <1>3, <1>4, <1>5, <1>6, <1>7, <1>8 DEF StockInv

LEMMA ItemInit == Init => ItemInv
<1> SUFFICES ASSUME Init PROVE ItemInv
  OBVIOUS
<1>1. RecordInv /\ StockInv
  BY RecordInit, StockStarts DEF Init
<1>2. /\ allocations = [i \in Items |-> <<>>] /\ lossCost = [i \in Items |-> 0]
      /\ status = [t \in Transfers |-> IF t \in Pushed THEN "APPROVED" ELSE "REQUESTED"]
      /\ dispatched = [i \in Items |-> 0] /\ received = [i \in Items |-> 0] /\ resolved = [i \in Items |-> 0]
  BY DEF Init, TransferInit
<1>3. \A t \in Transfers : ~Open(t) /\ ~Closed(t)
  BY <1>2 DEF Open, Closed
<1>4. ASSUME NEW i \in Items
      PROVE  AllocationOk(i) /\ LossOk(i)
  <2>1. DOMAIN allocations[i] = {} /\ DOMAIN InTransit(i) = {}
    BY <1>2 DEF InTransit
  <2>2. Total(InTransit(i)) = 0
    BY <2>1, SumEmpty DEF Total
  <2>3. Priced(i) = 0
    BY <2>1, SumEmpty DEF Priced, Price
  <2>4. /\ resolved[i] = ResolvedFor(i, {"NOT_DISPATCHED"}) + Lost(i) /\ Requested[i] \in Nat
        /\ ResolvedFor(i, {"NOT_DISPATCHED"}) \in Nat /\ Lost(i) \in Nat
    BY <1>1, ResolvedSplit, ResolvedLines, TransfersAssumption DEF RecordInv, Counted, Lost
  <2>5. Lost(i) = 0 /\ ResolvedFor(i, {"NOT_DISPATCHED"}) = 0
    BY <1>2, <2>4
  <2> QED
    BY <1>2, <2>1, <2>2, <2>3, <2>4, <2>5 DEF AllocationOk, LossOk
<1>5. DOMAIN allocations = Items /\ lossCost = [i \in Items |-> lossCost[i]]
  BY <1>2
<1> QED
  BY <1>1, <1>3, <1>4, <1>5 DEF ItemInv, StatusOk

LEMMA ItemNext == ItemInv /\ [Next]_vars => ItemInv'
<1> SUFFICES ASSUME ItemInv, [Next]_vars
             PROVE  ItemInv'
  OBVIOUS
<1>1. RecordInv'
  BY RecordNext DEF ItemInv
<1>2. CASE \E t \in Transfers : TransferStep(t)
  <2> PICK t \in Transfers : TransferStep(t)
    BY <1>2
  <2>1. CASE Approve(t) \/ Reject(t) \/ Cancel(t)
    BY <1>1, <2>1, ItemMoves
  <2>2. CASE \E p \in Requests(t, Asked) : \E turn \in Turns(DOMAIN p) :
                 DOMAIN p = ItemsOf(t) /\ Dispatch(t, p, turn)
    BY <1>1, <2>2, ItemDispatch
  <2>3. CASE \E k \in Keys, p \in Requests(t, Asked) : \E turn \in Turns(DOMAIN p) :
                 Receive(t, k, p, turn)
    BY <1>1, <2>3, ReceiveIsReceipt, ItemReceive
  <2>4. CASE \E k \in Keys, p \in Requests(t, Lines) : ResolveVariance(t, k, p)
    BY <1>1, <2>4, ItemResolve
  <2> QED
    BY <2>1, <2>2, <2>3, <2>4 DEF TransferStep
<1>3. CASE \E c \in Calls : StockStep(c) /\ UNCHANGED transferVars
  BY <1>1, <1>3, ItemStock
<1>4. CASE UNCHANGED vars
  <2>1. BatchesStay /\ StockInv'
    BY <1>4 DEF vars, stockVars, BatchesStay, ItemInv, StockInv, CallOk
  <2> QED
    BY <1>1, <1>4, <2>1, ItemsStay DEF vars, transferVars, Open, Closed
<1> QED
  BY <1>2, <1>3, <1>4 DEF Next

\* Types, and no batch or allocation below zero: what a dispatch takes is there, though several
\* of its items draw on one material, and what a receipt takes is still in transit, whatever
\* sales and expiries come between.
THEOREM Typing == Spec => []TypeOK
<1>1. ASSUME ItemInv
      PROVE  TypeOK
  <2>1. RowTypeOK /\ stock \in [Materials -> Int] /\ batches \in Seq(BatchType) /\ lossCost = [i \in Items |-> lossCost[i]]
    BY <1>1 DEF ItemInv, RecordInv, RowInv, StockInv
  <2>2. ASSUME NEW i \in Items
        PROVE  lossCost[i] \in Nat
    <3>1. lossCost[i] = Price(InTransit(i), 0, Lost(i), costs) /\ Lost(i) \in Nat
      BY <1>1, ItemFacts DEF LossOk, Priced
    <3>2. /\ Stack(InTransit(i), Len(batches)) /\ Len(batches) \in Nat /\ Costed(InTransit(i), costs)
      BY <1>1, TransitStack DEF ItemInv
    <3> QED
      BY <3>1, <3>2, PriceSums
  <2>3. ASSUME NEW i \in Items, NEW b \in DOMAIN allocations[i]
        PROVE  /\ b \in DOMAIN batches
               /\ allocations[i][b] \in [quantity : Nat \ {0}, received : Nat, batch : 0..Len(batches)]
               /\ InTransit(i)[b] >= 0
    <3>1. /\ Stack(InTransit(i), Len(batches)) /\ DOMAIN InTransit(i) = DOMAIN allocations[i]
      BY <1>1, TransitStack DEF ItemInv
    <3>2. InTransit(i)[b] \in Nat
      BY <3>1 DEF Stack
    <3> QED
      BY <1>1, <3>2 DEF ItemInv, AllocationOk
  <2>4. lossCost \in [Items -> Nat]
    BY <2>1, <2>2
  <2> QED
    BY <2>1, <2>3, <2>4 DEF TypeOK
<1> QED
  BY ItemInit, ItemNext, <1>1, PTL DEF Spec

\* What is sent and not received is in transit, and no more than that is lost.
LEMMA ItemAccount ==
  ASSUME ItemInv, NEW i \in Items
  PROVE  /\ TransferOf[i] \in Transfers /\ Requested[i] \in Nat /\ dispatched[i] \in Nat
         /\ received[i] \in Nat /\ Lost(i) \in Nat /\ ResolvedFor(i, {"NOT_DISPATCHED"}) \in Nat
         /\ resolved[i] = ResolvedFor(i, {"NOT_DISPATCHED"}) + Lost(i)
         /\ Total(InTransit(i)) = dispatched[i] - received[i] /\ Lost(i) <= Total(InTransit(i))
         /\ ResolvedFor(i, {"NOT_DISPATCHED"}) <= Requested[i] - dispatched[i]
  BY ItemFacts DEF ItemInv, AllocationOk, LossOk

\* A closed transfer has accounted for every unit: all that is in transit is lost.
LEMMA ClosedAccount ==
  ASSUME ItemInv, NEW i \in Items, Closed(TransferOf[i])
  PROVE  Total(InTransit(i)) = Lost(i) /\ NotDispatched(i) = 0
<1>1. received[i] + resolved[i] = Requested[i]
  BY ItemAccount DEF ItemInv, StatusOk, FullyAccounted, ItemsOf
<1> QED
  BY <1>1, ItemAccount DEF NotDispatched

\* A transfer closes with nothing on the way: what was not received was not sent, or resolved as
\* lost.  Until then it has a unit that the next receipt or resolution may name.
THEOREM ClosingAccounts == Spec => []ClosesWhenAccounted
<1>1. ASSUME ItemInv, NEW i \in Items, Closed(TransferOf[i])
      PROVE  Total(InTransit(i)) = Lost(i) /\ NotDispatched(i) = 0
  BY <1>1, ClosedAccount
<1>2. ASSUME ItemInv, NEW t \in Transfers, Open(t)
      PROVE  \E i \in ItemsOf(t) : \/ Fits(InTransit(i), ToSkip(i), 1)
                                    \/ \E reason \in Reasons :
                                         Resolvable(i, [quantity |-> 1, reason |-> reason])
  <2>1. PICK i \in ItemsOf(t) : received[i] + resolved[i] # Requested[i]
    BY <1>2 DEF ItemInv, StatusOk, FullyAccounted
  <2>2. i \in Items
    BY <1>2, <2>1 DEF ItemsOf
  <2>4. Lost(i) + 1 <= Total(InTransit(i)) \/ 1 <= NotDispatched(i)
    BY <1>2, <2>1, <2>2, ItemAccount DEF NotDispatched
  <2>5. Lost(i) + 1 <= Total(InTransit(i)) => Fits(InTransit(i), ToSkip(i), 1)
    BY DEF Fits, ToSkip
  <2>6. 1 <= NotDispatched(i) => Resolvable(i, [quantity |-> 1, reason |-> "NOT_DISPATCHED"])
    BY DEF Resolvable
  <2> QED
    BY <2>4, <2>5, <2>6 DEF Reasons
<1>3. ItemInv => ClosesWhenAccounted
  BY <1>1, <1>2 DEF ClosesWhenAccounted, ClosedIsAccounted, OpenHasWork
<1> QED
  BY ItemInit, ItemNext, <1>3, PTL DEF Spec

\* The loss that a closed transfer was charged is the cost of the units that never arrived: each
\* resolution priced the oldest units in transit behind those resolved before, and the receipts
\* in between took others.
THEOREM LossesPriced == Spec => []LossIsPriced
<1>1. ASSUME ItemInv, NEW i \in Items, Closed(TransferOf[i])
      PROVE  lossCost[i] = SumOver(DOMAIN allocations[i], LAMBDA b : InTransit(i)[b] * batches[b].cost)
  <2> DEFINE a == InTransit(i)
  <2>1. Total(a) = Lost(i)
    BY <1>1, ClosedAccount
  <2>2. StockInv /\ AllocationOk(i) /\ lossCost[i] = Price(a, 0, Lost(i), costs)
    BY <1>1 DEF ItemInv, LossOk, Priced
  <2>3. /\ Stack(a, Len(batches)) /\ Len(batches) \in Nat /\ DOMAIN a = DOMAIN allocations[i]
    BY <2>2, TransitStack
  <2>4. Price(a, 0, Total(a), costs) = SumFunctionOnSet([b \in DOMAIN a |-> a[b] * costs[b]], DOMAIN a)
    BY <2>3, PriceOfAll
  <2>5. [b \in DOMAIN a |-> a[b] * costs[b]] = [b \in DOMAIN allocations[i] |-> InTransit(i)[b] * batches[b].cost]
    BY <2>2, <2>3 DEF costs, AllocationOk
  <2> QED
    BY <2>1, <2>2, <2>3, <2>4, <2>5 DEF SumOver
<1>2. ItemInv => LossIsPriced
  BY <1>1 DEF LossIsPriced
<1> QED
  BY ItemInit, ItemNext, <1>2, PTL DEF Spec

-----------------------------------------------------------------------------
(* The units of every batch.                                                *)

\* The units of a batch that the allocations took, an item without any taking none.
Out(al, b) ==
  SumFunctionOnSet([i \in Items |-> IF b \in DOMAIN al[i] THEN al[i][b].quantity ELSE 0], Items)

LEMMA OutIs ==
  ASSUME NEW al, NEW b, \A i \in Items : b \in DOMAIN al[i] => al[i][b].quantity \in Nat
  PROVE  /\ Summable([i \in Items |-> IF b \in DOMAIN al[i] THEN al[i][b].quantity ELSE 0], Items)
         /\ Out(al, b) \in Nat
         /\ (\A i \in Items : b \notin DOMAIN al[i]) => Out(al, b) = 0
         /\ SumFunctionOnSet([i \in {j \in Items : b \in DOMAIN al[j]} |-> al[i][b].quantity],
                             {j \in Items : b \in DOMAIN al[j]}) = Out(al, b)
<1> DEFINE S == {j \in Items : b \in DOMAIN al[j]}
           f == [i \in Items |-> IF b \in DOMAIN al[i] THEN al[i][b].quantity ELSE 0]
           g == [i \in S |-> al[i][b].quantity]
<1>1. IsFiniteSet(Items) /\ S \subseteq Items
  BY TransfersAssumption
<1>2. /\ \A i \in Items : f[i] \in Nat
      /\ \A i \in Items \ S : f[i] = 0
      /\ \A i \in S : f[i] = g[i]
  OBVIOUS
<1>3. (\A i \in Items : b \notin DOMAIN al[i]) => \A i \in Items : f[i] = 0
  OBVIOUS
<1>4. Out(al, b) = SumFunctionOnSet(f, Items)
  BY DEF Out
<1> HIDE DEF f, g, S
<1>5. Summable(f, Items) /\ Summable(f, S)
  BY <1>1, <1>2, FS_Subset DEF Summable
<1>6. SumFunctionOnSet(f, Items) = SumFunctionOnSet(f, S)
  BY <1>1, <1>2, <1>5, SumPart
<1>7. SumFunctionOnSet(f, S) = SumFunctionOnSet(g, S)
  BY <1>2, <1>5, SumSame
<1>8. SumFunctionOnSet(f, Items) \in Nat
  BY <1>5, SumType
<1>9. (\A i \in Items : f[i] = 0) => SumFunctionOnSet(f, Items) = 0
  BY <1>1, SumZero
<1> QED
  BY <1>3, <1>4, <1>5, <1>6, <1>7, <1>8, <1>9 DEF f, g, S

\* What left a batch was sold or dispatched.
Balanced == \A b \in DOMAIN batches :
              batches[b].initial = batches[b].left + batches[b].used + Out(allocations, b)

\* What an allocation received is in the batch that it created.
Delivered ==
  \A i \in Items : \A b \in DOMAIN allocations[i] :
    allocations[i][b].received =
      IF allocations[i][b].batch = 0 THEN 0 ELSE batches[allocations[i][b].batch].initial

\* No two allocations deliver to one batch.
Apart ==
  \A i, j \in Items : \A b \in DOMAIN allocations[i], c \in DOMAIN allocations[j] :
    allocations[i][b].batch = allocations[j][c].batch /\ allocations[i][b].batch # 0
      => i = j /\ b = c

BalanceInv == ItemInv /\ Balanced /\ Delivered /\ Apart

\* A step that leaves the allocations alone.
LEMMA BalanceKept ==
  ASSUME BalanceInv, UNCHANGED allocations, Kept, batches' \in Seq(BatchType)
  PROVE  Balanced' /\ Delivered' /\ Apart'
<1>1. \A i \in Items : \A b \in DOMAIN allocations[i] :
        b \in DOMAIN batches /\ allocations[i][b].quantity \in Nat
        /\ allocations[i][b].batch \in 0..Len(batches)
  BY DEF BalanceInv, ItemInv, AllocationOk
<1>2. DOMAIN batches = 1..Len(batches) /\ Len(batches) \in Nat
  BY DEF BalanceInv, ItemInv, StockInv
<1>3. ASSUME NEW b \in DOMAIN batches'
      PROVE  batches'[b].initial = batches'[b].left + batches'[b].used + Out(allocations, b)
  <2>1. Out(allocations, b) \in Nat
    BY <1>1, OutIs
  <2>2. CASE b \in DOMAIN batches
    <3>1. /\ batches'[b].initial = batches[b].initial
          /\ batches'[b].left + batches'[b].used = batches[b].left + batches[b].used
      BY <2>2 DEF Kept
    <3>2. batches[b].initial = batches[b].left + batches[b].used + Out(allocations, b)
      BY <2>2 DEF BalanceInv, Balanced
    <3> QED
      BY <3>1, <3>2
  <2>3. CASE b \notin DOMAIN batches
    <3>1. Out(allocations, b) = 0
      BY <1>1, <2>3, OutIs
    <3>2. batches'[b].initial = batches'[b].left /\ batches'[b].used = 0 /\ batches'[b].left \in Nat
      <4>1. batches'[b] \in BatchType
        OBVIOUS
      <4> QED
        BY <2>3, <4>1 DEF Kept, BatchType
    <3> QED
      BY <3>1, <3>2
  <2> QED
    BY <2>2, <2>3
<1>4. Balanced'
  BY <1>3 DEF Balanced
<1>5. Delivered'
  <2>1. \A i \in Items : \A b \in DOMAIN allocations[i] :
          allocations[i][b].batch # 0 => allocations[i][b].batch \in DOMAIN batches
    BY <1>1, <1>2
  <2> QED
    BY <2>1 DEF BalanceInv, Delivered, Kept
<1>6. Apart'
  BY DEF BalanceInv, Apart
<1> QED
  BY <1>4, <1>5, <1>6

\* A dispatch: what leaves a batch is what the items of the transfer are given.
LEMMA BalanceDispatch ==
  ASSUME BalanceInv, NEW t \in Transfers, NEW p, NEW turn,
         (\A i \in ItemsOf(t) : p[i] \in Nat), Dispatched(t, p, turn)
  PROVE  Balanced' /\ Delivered' /\ Apart'
<1>1. /\ DOMAIN batches' = DOMAIN batches
      /\ \A b \in DOMAIN batches :
           /\ batches'[b].initial = batches[b].initial /\ batches'[b].used = batches[b].used
           /\ batches'[b].left = batches[b].left - Leaves(t, p, turn, b)
  BY DispatchStock DEF BalanceInv, ItemInv
<1>2. /\ \A i \in ItemsOf(t) :
           /\ DOMAIN allocations'[i] = Used(p, turn, i)
           /\ \A b \in DOMAIN allocations'[i] :
                /\ allocations'[i][b].quantity = Taken(p, turn, i)[b]
                /\ allocations'[i][b].received = 0 /\ allocations'[i][b].batch = 0
      /\ \A i \in Items \ ItemsOf(t) : allocations'[i] = allocations[i]
      /\ ItemsOf(t) \subseteq Items
  BY DEF Dispatched, ItemsOf
<1>3. \A i \in ItemsOf(t) : DOMAIN allocations[i] = {}
  BY DEF ItemsOf, Dispatched, Open, Closed, BalanceInv, ItemInv, AllocationOk
<1>4. \A i \in Items : \A b \in DOMAIN allocations[i] :
        b \in DOMAIN batches /\ allocations[i][b].quantity \in Nat
        /\ allocations[i][b].batch \in 0..Len(batches)
  BY DEF BalanceInv, ItemInv, AllocationOk
<1>5. DOMAIN batches = 1..Len(batches) /\ Len(batches) \in Nat
  BY DEF BalanceInv, ItemInv, StockInv
<1>6. ASSUME NEW b \in DOMAIN batches
      PROVE  Out(allocations', b) = Out(allocations, b) + Leaves(t, p, turn, b)
             /\ Out(allocations, b) \in Nat /\ Leaves(t, p, turn, b) \in Nat
  <2> DEFINE S == ItemsOf(t)
             took == [i \in S |-> Taken(p, turn, i)[b]]
             f == [i \in Items |-> IF b \in DOMAIN allocations[i] THEN allocations[i][b].quantity ELSE 0]
             g == [i \in Items |-> IF i \in S THEN Taken(p, turn, i)[b] ELSE 0]
             h == [i \in Items |-> IF b \in DOMAIN allocations'[i] THEN allocations'[i][b].quantity ELSE 0]
  <2>1. /\ Summable(took, S) /\ Leaves(t, p, turn, b) = SumFunctionOnSet(took, S)
        /\ Leaves(t, p, turn, b) \in Nat
    <3>1. Leaves(t, p, turn, b) \in 0..batches[b].left /\ batches[b].left \in Nat
      BY LeavesIs, BatchTyped DEF Dispatched, BalanceInv, ItemInv
    <3>2. Summable(took, S) /\ Leaves(t, p, turn, b) = SumFunctionOnSet(took, S)
      BY LeavesIs DEF Dispatched, BalanceInv, ItemInv
    <3> QED
      BY <3>1, <3>2
  <2>2. Summable(f, Items) /\ Out(allocations, b) = SumFunctionOnSet(f, Items)
        /\ Out(allocations, b) \in Nat
    <3>1. Summable(f, Items) /\ Out(allocations, b) \in Nat
      BY <1>4, OutIs
    <3> QED
      BY <3>1 DEF Out
  <2>3. /\ \A i \in S : g[i] = took[i] /\ took[i] \in Nat
        /\ \A i \in Items \ S : g[i] = 0
    BY <1>2, <2>1 DEF Summable
  <2>4. Out(allocations', b) = SumFunctionOnSet(h, Items)
    BY DEF Out
  <2>5. \A i \in Items : h[i] = f[i] + g[i]
    <3> SUFFICES ASSUME NEW i \in Items PROVE h[i] = f[i] + g[i]
      OBVIOUS
    <3>1. CASE i \in S
      <4>1. f[i] = 0 /\ g[i] = Taken(p, turn, i)[b] /\ g[i] \in Nat
        BY <1>3, <2>3, <3>1
      <4>2. CASE b \in Used(p, turn, i)
        <5>1. h[i] = Taken(p, turn, i)[b]
          BY <1>2, <3>1, <4>2
        <5> HIDE DEF f, g, h
        <5> QED
          BY <4>1, <5>1
      <4>3. CASE b \notin Used(p, turn, i)
        <5>1. h[i] = 0
          BY <1>2, <3>1, <4>3
        <5>2. ~ (Taken(p, turn, i)[b] > 0)
          BY <4>3 DEF Used
        <5> HIDE DEF f, g, h
        <5> QED
          BY <4>1, <5>1, <5>2
      <4> QED
        BY <4>2, <4>3
    <3>2. CASE i \notin S
      <4>1. h[i] = f[i] /\ g[i] = 0 /\ f[i] \in Nat
        BY <1>2, <2>2, <3>2 DEF Summable
      <4> HIDE DEF f, g, h
      <4> QED
        BY <4>1
    <3> QED
      BY <3>1, <3>2
  <2>6. S \subseteq Items /\ IsFiniteSet(Items)
    BY <1>2, TransfersAssumption
  <2> HIDE DEF S, took, f, g, h
  <2>7. Summable(g, Items)
    <3>1. \A i \in Items : g[i] \in Nat
      BY <2>3
    <3> QED
      BY <2>6, <3>1 DEF Summable
  <2>8. SumFunctionOnSet(g, Items) = SumFunctionOnSet(g, S)
    BY <2>3, <2>6, <2>7, SumPart
  <2>9. SumFunctionOnSet(took, S) = SumFunctionOnSet(g, S)
    <3>1. \A i \in S : took[i] = g[i]
      BY <2>3
    <3> QED
      BY <2>1, <3>1, SumSame
  <2>10. SumFunctionOnSet(h, Items) = SumFunctionOnSet(f, Items) + SumFunctionOnSet(g, Items)
    <3>1. Summable(f, Items) /\ Summable(g, Items) /\ \A i \in Items : h[i] = f[i] + g[i]
      BY <2>2, <2>5, <2>7
    <3> QED
      BY ONLY <3>1, SumPlus
  <2> QED
    BY <2>1, <2>2, <2>4, <2>8, <2>9, <2>10
<1>7. Balanced'
  <2> SUFFICES ASSUME NEW b \in DOMAIN batches
               PROVE  batches'[b].initial = batches'[b].left + batches'[b].used + Out(allocations', b)
    BY <1>1 DEF Balanced
  <2>1. batches[b].initial = batches[b].left + batches[b].used + Out(allocations, b)
    BY DEF BalanceInv, Balanced
  <2>2. batches[b].left \in Nat /\ batches[b].used \in Nat
    BY BatchTyped DEF BalanceInv, ItemInv
  <2>3. /\ batches'[b].initial = batches[b].initial /\ batches'[b].used = batches[b].used
        /\ batches'[b].left = batches[b].left - Leaves(t, p, turn, b)
    BY <1>1
  <2>4. Out(allocations', b) = Out(allocations, b) + Leaves(t, p, turn, b)
        /\ Out(allocations, b) \in Nat /\ Leaves(t, p, turn, b) \in Nat
    BY <1>6
  <2> QED
    BY <2>1, <2>2, <2>3, <2>4
<1>8. Delivered'
  <2> SUFFICES ASSUME NEW i \in Items, NEW b \in DOMAIN allocations'[i]
               PROVE  allocations'[i][b].received =
                        IF allocations'[i][b].batch = 0 THEN 0
                        ELSE batches'[allocations'[i][b].batch].initial
    BY DEF Delivered
  <2>1. CASE i \in ItemsOf(t)
    BY <1>2, <2>1
  <2>2. CASE i \notin ItemsOf(t)
    <3>1. allocations'[i] = allocations[i] /\ allocations[i][b].batch \in 0..Len(batches)
      BY <1>2, <1>4, <2>2
    <3>2. allocations[i][b].batch # 0 => allocations[i][b].batch \in DOMAIN batches
      BY <1>5, <3>1
    <3> QED
      BY <1>1, <3>1, <3>2 DEF BalanceInv, Delivered
  <2> QED
    BY <2>1, <2>2
<1>9. Apart'
  BY <1>2 DEF BalanceInv, Apart
<1> QED
  BY <1>7, <1>8, <1>9

\* The batch that an allocation delivers to after a receipt.
LEMMA DeliversTo ==
  ASSUME BalanceInv, NEW t \in Transfers, NEW p, NEW turn, Receipt(t, p, turn), NEW i \in Items,
         NEW b \in DOMAIN allocations[i]
  PROVE  /\ allocations'[i][b].quantity = allocations[i][b].quantity
         /\ <<i, b>> \in Arrived(p) =>
              /\ allocations'[i][b].batch = Into(p, turn, <<i, b>>)
              /\ allocations'[i][b].received = allocations[i][b].received + Arrives(p)[<<i, b>>]
         /\ <<i, b>> \notin Arrived(p) =>
              /\ allocations'[i][b].batch = allocations[i][b].batch
              /\ allocations'[i][b].received = allocations[i][b].received
         /\ <<i, b>> \notin Created(p) =>
              /\ allocations'[i][b].batch = allocations[i][b].batch
              /\ allocations'[i][b].batch \in 0..Len(batches)
         /\ <<i, b>> \in Created(p) =>
              /\ <<i, b>> \in Arrived(p) /\ allocations[i][b].batch = 0
              /\ allocations'[i][b].batch \in DOMAIN batches' \ DOMAIN batches
<1> DEFINE x == allocations[i][b]
           y == allocations'[i][b]
           z == <<i, b>>
<1>1. /\ x \in [quantity : Nat \ {0}, received : Nat, batch : 0..Len(batches)]
      /\ DOMAIN batches = 1..Len(batches) /\ Len(batches) \in Nat
  BY DEF BalanceInv, ItemInv, AllocationOk, StockInv
<1>2. y = IF z \in Arrived(p)
          THEN [x EXCEPT !.received = x.received + Arrives(p)[z], !.batch = Into(p, turn, z)]
          ELSE x
  BY DEF Receipt, Receives
<1>3. /\ z \in Created(p) => /\ z \in Arrived(p) /\ x.batch = 0
                             /\ Into(p, turn, z) \in (Len(batches) + 1)..(Len(batches) + Cardinality(Created(p)))
      /\ z \in Arrived(p) /\ z \notin Created(p) => Into(p, turn, z) = x.batch
      /\ Cardinality(Created(p)) \in Nat
  BY ArrivedIs DEF BalanceInv
<1>4. DOMAIN batches' = 1..(Len(batches) + Cardinality(Created(p)))
  BY DEF Receipt, Receives
<1>5. z \in Created(p) => Into(p, turn, z) \in DOMAIN batches' \ DOMAIN batches
  BY <1>1, <1>3, <1>4
<1> HIDE DEF x, y, z
<1>6. /\ y.quantity = x.quantity
      /\ z \in Arrived(p) => y.batch = Into(p, turn, z) /\ y.received = x.received + Arrives(p)[z]
      /\ z \notin Arrived(p) => y.batch = x.batch /\ y.received = x.received
  BY <1>1, <1>2
<1>7. z \notin Created(p) => y.batch = x.batch /\ y.batch \in 0..Len(batches)
  BY <1>1, <1>3, <1>6
<1> QED
  BY <1>3, <1>5, <1>6, <1>7 DEF x, y, z

\* A receipt: what an allocation receives goes to the batch it created, and no other to that.
LEMMA BalanceReceive ==
  ASSUME BalanceInv, NEW t \in Transfers, NEW p, NEW turn, Receipt(t, p, turn)
  PROVE  Balanced' /\ Delivered' /\ Apart'
<1>1. /\ DOMAIN batches = 1..Len(batches) /\ Len(batches) \in Nat
      /\ DOMAIN allocations = Items /\ ItemInv
  BY DEF BalanceInv, ItemInv, StockInv
<1>2. \A i \in Items : DOMAIN allocations'[i] = DOMAIN allocations[i]
  BY DEF Receipt, Receives
<1>3. \A i \in Items : \A b \in DOMAIN allocations[i] :
        /\ b \in DOMAIN batches /\ allocations[i][b].quantity \in Nat
        /\ allocations[i][b].received \in Nat /\ allocations[i][b].batch \in 0..Len(batches)
  BY DEF BalanceInv, ItemInv, AllocationOk
<1>4. \A b : Out(allocations', b) = Out(allocations, b)
  <2> SUFFICES ASSUME NEW b PROVE Out(allocations', b) = Out(allocations, b)
    OBVIOUS
  <2>1. [i \in Items |-> IF b \in DOMAIN allocations'[i] THEN allocations'[i][b].quantity ELSE 0]
          = [i \in Items |-> IF b \in DOMAIN allocations[i] THEN allocations[i][b].quantity ELSE 0]
    BY <1>2, DeliversTo
  <2> QED
    BY <2>1 DEF Out
<1>5. Balanced'
  <2> SUFFICES ASSUME NEW b \in DOMAIN batches'
               PROVE  batches'[b].initial = batches'[b].left + batches'[b].used + Out(allocations', b)
    BY DEF Balanced
  <2>1. CASE b \in DOMAIN batches
    <3>1. /\ batches'[b].used = batches[b].used
          /\ batches'[b].initial = batches[b].initial + Gain(p, turn, b)
          /\ batches'[b].left = batches[b].left + Gain(p, turn, b)
      BY <1>1, <2>1, FilledOld
    <3>2. batches[b].initial = batches[b].left + batches[b].used + Out(allocations, b)
      BY <2>1 DEF BalanceInv, Balanced
    <3>3. Gain(p, turn, b) \in Nat /\ batches[b].left \in Nat /\ batches[b].used \in Nat
      BY <1>1, <2>1, GainIs, BatchTyped DEF ItemInv
    <3>4. Out(allocations, b) \in Nat /\ Out(allocations', b) = Out(allocations, b)
      BY <1>3, <1>4, OutIs
    <3> QED
      BY <3>1, <3>2, <3>3, <3>4
  <2>2. CASE b \notin DOMAIN batches
    <3>1. PICK x \in Created(p) :
            /\ x \in Arrived(p)
            /\ batches'[b].initial = Arrives(p)[x] /\ batches'[b].left = Arrives(p)[x]
            /\ batches'[b].used = 0
      BY <1>1, <2>2, FilledNew
    <3>2. Arrives(p)[x] \in Nat
      BY <1>1, <3>1, ArrivedIs
    <3>3. Out(allocations', b) = 0
      BY <1>3, <1>4, <2>2, OutIs
    <3> QED
      BY <3>1, <3>2, <3>3
  <2> QED
    BY <2>1, <2>2
<1>6. ASSUME NEW n \in DOMAIN batches, NEW x \in Mine(p, turn, n)
      PROVE  /\ x = <<x[1], x[2]>> /\ x[1] \in Items /\ x[2] \in DOMAIN allocations[x[1]]
             /\ x \in Arrived(p) /\ x \notin Created(p)
             /\ allocations[x[1]][x[2]].batch = n /\ n # 0
  <2>1. x \in Arrived(p) /\ Into(p, turn, x) = n /\ n \in 1..Len(batches)
    BY <1>1 DEF Mine
  <2>2. x = <<x[1], x[2]>> /\ x[1] \in Items /\ x[2] \in DOMAIN allocations[x[1]]
    BY <1>1, <2>1, ArrivedIs
  <2>3. Cardinality(Created(p)) \in Nat
        /\ (x \in Created(p) => Into(p, turn, x) \in (Len(batches) + 1)..(Len(batches) + Cardinality(Created(p))))
        /\ (x \notin Created(p) => Into(p, turn, x) = allocations[x[1]][x[2]].batch)
    BY <1>1, <2>1, ArrivedIs
  <2> QED
    BY <1>1, <2>1, <2>2, <2>3
<1>7. ASSUME NEW i \in Items, NEW b \in DOMAIN allocations[i]
      PROVE  allocations'[i][b].received =
               IF allocations'[i][b].batch = 0 THEN 0 ELSE batches'[allocations'[i][b].batch].initial
  <2> DEFINE z == <<i, b>>
             n == allocations[i][b].batch
             m == allocations'[i][b].batch
  <2>1. allocations[i][b].received = IF n = 0 THEN 0 ELSE batches[n].initial
    BY DEF BalanceInv, Delivered
  <2>2. n \in 0..Len(batches) /\ (n # 0 => n \in DOMAIN batches)
    BY <1>1, <1>3
  <2>3. n # 0 => Mine(p, turn, n) = IF z \in Arrived(p) THEN {z} ELSE {}
    <3> SUFFICES ASSUME n # 0 PROVE Mine(p, turn, n) = IF z \in Arrived(p) THEN {z} ELSE {}
      OBVIOUS
    <3>1. \A x \in Mine(p, turn, n) : x = z /\ z \in Arrived(p)
      <4> SUFFICES ASSUME NEW x \in Mine(p, turn, n) PROVE x = z /\ z \in Arrived(p)
        OBVIOUS
      <4>1. /\ x = <<x[1], x[2]>> /\ x[1] \in Items /\ x[2] \in DOMAIN allocations[x[1]]
            /\ x \in Arrived(p) /\ allocations[x[1]][x[2]].batch = n
        BY <1>6, <2>2
      <4>2. x[1] = i /\ x[2] = b
        BY <4>1 DEF BalanceInv, Apart
      <4> QED
        BY <4>1, <4>2
    <3>2. z \in Arrived(p) => z \in Mine(p, turn, n)
      <4>1. z \notin Created(p)
        BY DEF Created, DestinationBatch
      <4> QED
        BY <4>1 DEF Mine, Into, DestinationBatch
    <3> HIDE DEF z, n
    <3> QED
      BY <3>1, <3>2
  <2>4. CASE z \in Created(p)
    <3>1. /\ z \in Arrived(p) /\ n = 0 /\ m \in DOMAIN batches' \ DOMAIN batches
          /\ m = Into(p, turn, z)
          /\ allocations'[i][b].received = allocations[i][b].received + Arrives(p)[z]
      BY <2>4, DeliversTo
    <3>2. PICK x \in Created(p) : Mine(p, turn, m) = {x} /\ batches'[m].initial = Arrives(p)[x] /\ m > Len(batches)
      BY <1>1, <3>1, FilledNew
    <3>3. x = z
      BY <3>1, <3>2 DEF Mine
    <3>4. Arrives(p)[z] \in Nat
      BY <1>1, <3>1, ArrivedIs
    <3>5. m # 0
      BY <1>1, <3>2
    <3>6. allocations[i][b].received = 0
      BY <2>1, <3>1
    <3>7. allocations'[i][b].received = Arrives(p)[z]
      BY <3>1, <3>4, <3>6
    <3> QED
      BY <3>2, <3>3, <3>5, <3>7
  <2>5. CASE z \in Arrived(p) /\ z \notin Created(p)
    <3>1. /\ m = n /\ allocations'[i][b].received = allocations[i][b].received + Arrives(p)[z]
          /\ n # 0
      <4>1. n # 0
        BY <2>5 DEF Created, DestinationBatch
      <4> QED
        BY <2>5, <4>1, DeliversTo
    <3>2. Mine(p, turn, n) = {z} /\ n \in DOMAIN batches
      BY <2>2, <2>3, <2>5, <3>1
    <3>3. Gain(p, turn, n) = Arrives(p)[z]
      BY <1>1, <3>2, GainIs
    <3>4. batches'[n].initial = batches[n].initial + Gain(p, turn, n)
      BY <1>1, <3>2, FilledOld
    <3> QED
      BY <2>1, <3>1, <3>3, <3>4
  <2>6. CASE z \notin Arrived(p)
    <3>1. m = n /\ allocations'[i][b].received = allocations[i][b].received
      BY <2>6, DeliversTo
    <3>2. CASE n = 0
      BY <2>1, <3>1, <3>2
    <3>3. CASE n # 0
      <4>1. Mine(p, turn, n) = {} /\ n \in DOMAIN batches
        BY <2>2, <2>3, <2>6, <3>3
      <4>2. Gain(p, turn, n) = 0
        BY <1>1, <4>1, GainIs
      <4>3. batches'[n].initial = batches[n].initial + Gain(p, turn, n) /\ batches[n].initial \in Nat
        BY <1>1, <4>1, FilledOld, BatchTyped DEF ItemInv
      <4> QED
        BY <2>1, <3>1, <3>3, <4>2, <4>3
    <3> QED
      BY <3>2, <3>3
  <2> QED
    BY <2>4, <2>5, <2>6
<1>8. Delivered'
  BY <1>2, <1>7 DEF Delivered
<1>9. ASSUME NEW i \in Items, NEW j \in Items, NEW b \in DOMAIN allocations[i], NEW c \in DOMAIN allocations[j],
             allocations'[i][b].batch = allocations'[j][c].batch, allocations'[i][b].batch # 0
      PROVE  i = j /\ b = c
  <2> DEFINE n == allocations'[i][b].batch
  <2>1. CASE n \in DOMAIN batches' \ DOMAIN batches
    <3>1. n \notin 0..Len(batches)
      BY <1>1, <1>9, <2>1
    <3>2. <<i, b>> \in Created(p) /\ <<j, c>> \in Created(p)
      BY <1>9, <3>1, DeliversTo
    <3>3. <<i, b>> \in Mine(p, turn, n) /\ <<j, c>> \in Mine(p, turn, n)
      BY <1>9, <3>2, DeliversTo DEF Mine
    <3>4. \E x : Mine(p, turn, n) = {x}
      <4> HIDE DEF n
      <4>1. \E x \in Created(p) : Mine(p, turn, n) = {x}
        BY <1>1, <2>1, FilledNew
      <4> QED
        BY <4>1
    <3>5. <<i, b>> = <<j, c>>
      BY <3>3, <3>4
    <3> QED
      BY <3>5
  <2>2. CASE n \notin DOMAIN batches' \ DOMAIN batches
    <3>1. <<i, b>> \notin Created(p) /\ <<j, c>> \notin Created(p)
      BY <1>9, <2>2, DeliversTo
    <3>2. allocations[i][b].batch = n /\ allocations[j][c].batch = n
      BY <1>9, <3>1, DeliversTo
    <3> QED
      BY <1>9, <3>2 DEF BalanceInv, Apart
  <2> QED
    BY <2>1, <2>2
<1>10. Apart'
  BY <1>2, <1>9 DEF Apart
<1> QED
  BY <1>5, <1>8, <1>10

LEMMA BalanceInit == Init => BalanceInv
<1> SUFFICES ASSUME Init PROVE BalanceInv
  OBVIOUS
<1>1. ItemInv
  BY ItemInit
<1>2. \A i \in Items : DOMAIN allocations[i] = {}
  BY DEF Init, TransferInit
<1>3. \A b \in DOMAIN batches :
        /\ batches[b].initial = batches[b].left /\ batches[b].used = 0 /\ batches[b].left \in Nat
        /\ Out(allocations, b) = 0
  <2> SUFFICES ASSUME NEW b \in DOMAIN batches
               PROVE  /\ batches[b].initial = batches[b].left /\ batches[b].used = 0
                      /\ batches[b].left \in Nat /\ Out(allocations, b) = 0
    OBVIOUS
  <2>1. batches[b].initial = batches[b].left /\ batches[b].used = 0
    BY StockStarts DEF Init
  <2>2. batches[b].left \in Nat
    BY <1>1, BatchTyped DEF ItemInv
  <2>3. Out(allocations, b) = 0
    BY <1>2, OutIs
  <2> QED
    BY <2>1, <2>2, <2>3
<1>4. Balanced
  BY <1>3 DEF Balanced
<1>5. Delivered /\ Apart
  BY <1>2 DEF Delivered, Apart
<1> QED
  BY <1>1, <1>4, <1>5 DEF BalanceInv

LEMMA BalanceNext == BalanceInv /\ [Next]_vars => BalanceInv'
<1> SUFFICES ASSUME BalanceInv, [Next]_vars
             PROVE  BalanceInv'
  OBVIOUS
<1>1. ItemInv' /\ ItemInv
  BY ItemNext DEF BalanceInv
<1>2. SUFFICES Balanced' /\ Delivered' /\ Apart'
  BY <1>1 DEF BalanceInv
<1>3. batches' = batches => Kept /\ batches' \in Seq(BatchType)
  BY <1>1 DEF Kept, ItemInv, StockInv
<1>4. CASE \E t \in Transfers : TransferStep(t)
  <2> PICK t \in Transfers : TransferStep(t)
    BY <1>4
  <2>1. CASE Approve(t) \/ Reject(t) \/ Cancel(t)
    <3>1. UNCHANGED allocations /\ batches' = batches
      BY <2>1 DEF Approve, Reject, Cancel, Move, stockVars
    <3> QED
      BY <1>3, <3>1, BalanceKept
  <2>2. CASE \E p \in Requests(t, Asked) : \E turn \in Turns(DOMAIN p) :
                 DOMAIN p = ItemsOf(t) /\ Dispatch(t, p, turn)
    <3>1. PICK p \in Requests(t, Asked) :
            \E turn \in Turns(DOMAIN p) : DOMAIN p = ItemsOf(t) /\ Dispatch(t, p, turn)
      BY <2>2
    <3>2. PICK turn \in Turns(DOMAIN p) : DOMAIN p = ItemsOf(t) /\ Dispatch(t, p, turn)
      BY <3>1
    <3>3. \A i \in ItemsOf(t) : p[i] \in Nat
      BY <3>2, RequestsAsked, TransfersAssumption DEF ItemsOf
    <3>4. Dispatched(t, p, turn)
      BY <3>2, DispatchDoes
    <3> QED
      BY <3>3, <3>4, BalanceDispatch
  <2>3. CASE \E k \in Keys, p \in Requests(t, Asked) : \E turn \in Turns(DOMAIN p) :
                 Receive(t, k, p, turn)
    BY <2>3, ReceiveIsReceipt, BalanceReceive
  <2>4. CASE \E k \in Keys, p \in Requests(t, Lines) : ResolveVariance(t, k, p)
    <3>1. UNCHANGED allocations /\ batches' = batches
      BY <2>4 DEF ResolveVariance, stockVars
    <3> QED
      BY <1>3, <3>1, BalanceKept
  <2> QED
    BY <2>1, <2>2, <2>3, <2>4 DEF TransferStep
<1>5. CASE \E c \in Calls : StockStep(c) /\ UNCHANGED transferVars
  <2>1. UNCHANGED allocations /\ Kept /\ batches' \in Seq(BatchType)
    BY <1>1, <1>5, StockSteps DEF ItemInv, StockInv, transferVars
  <2> QED
    BY <2>1, BalanceKept
<1>6. CASE UNCHANGED vars
  <2>1. UNCHANGED allocations /\ batches' = batches
    BY <1>6 DEF vars, stockVars, transferVars
  <2> QED
    BY <1>3, <2>1, BalanceKept
<1> QED
  BY <1>4, <1>5, <1>6 DEF Next

\* No unit is in two places, however sales, expiries, quarantines, dispatches and receipts
\* interleave: what left a batch was sold or is in an allocation, and what an allocation received
\* is what the one batch it created at the destination was given.
THEOREM UnitsBalance == Spec => []BatchesBalance
<1>1. ASSUME BalanceInv
      PROVE  BatchesBalance
  <2>1. ASSUME NEW b \in DOMAIN batches
        PROVE  batches[b].initial = batches[b].left + batches[b].used
                 + SumOver({i \in Items : b \in DOMAIN allocations[i]},
                           LAMBDA i : allocations[i][b].quantity)
    <3>1. \A i \in Items : b \in DOMAIN allocations[i] => allocations[i][b].quantity \in Nat
      BY <1>1 DEF BalanceInv, ItemInv, AllocationOk
    <3>2. SumFunctionOnSet([i \in {j \in Items : b \in DOMAIN allocations[j]} |-> allocations[i][b].quantity],
                           {j \in Items : b \in DOMAIN allocations[j]}) = Out(allocations, b)
      BY <3>1, OutIs
    <3>3. batches[b].initial = batches[b].left + batches[b].used + Out(allocations, b)
      BY <1>1 DEF BalanceInv, Balanced
    <3> QED
      BY <3>2, <3>3 DEF SumOver
  <2> QED
    BY <1>1, <2>1 DEF BatchesBalance, BalanceInv, Delivered
<1> QED
  BY BalanceInit, BalanceNext, <1>1, PTL DEF Spec
-----------------------------------------------------------------------------
(* The total and the batches.                                               *)

\* Only sales and purchases have touched the stock, and none was cut short.
Serial == \A c \in Calls : call[c].kind \in {"none", "deduct", "purchase"} /\ ~call[c].failed

\* A call is of the kind that it started as.
KindOk(c) ==
  /\ call[c].pc = "new" => call[c].kind = "none" /\ ~call[c].failed
  /\ call[c].pc = "adjust" => call[c].kind = "adjust"
  /\ call[c].pc = "purchase" => call[c].kind = "purchase"
  /\ call[c].pc \in {"expire", "expiring"} => call[c].kind = "expire"
  /\ call[c].pc \in {"quarantine", "quarantining"} => call[c].kind = "quarantine"

\* Every batch is in FIFO, or has nothing left.
InFifo ==
  \A b \in DOMAIN batches : /\ batches[b].status \in {"ACTIVE", "DEPLETED"}
                            /\ batches[b].status = "DEPLETED" => batches[b].left = 0

\* The units of a purchase whose batch is committed, and its total not yet.
PendingOf(c, m) ==
  IF call[c].pc = "purchase" /\ call[c].material = m THEN call[c].quantity ELSE 0

Pending(m) == SumFunctionOnSet([c \in Calls |-> PendingOf(c, m)], Calls)

\* The total lags behind the batches by the purchases that are under way.
Agree(m) == stock[m] + Pending(m) = Total(Available(m))

\* What an allocation has received is in a batch of the material its item is sent to.
Located ==
  \A i \in Items : \A b \in DOMAIN allocations[i] :
    allocations[i][b].batch # 0 => batches[allocations[i][b].batch].material = Destination[i]

SerialInv ==
  /\ BalanceInv /\ Located /\ \A c \in Calls : KindOk(c)
  /\ Serial => InFifo /\ \A m \in Materials : Agree(m)

\* A call changes its kind only when it starts, and a failure is not forgotten.
LEMMA KindStep ==
  ASSUME StockInv, \A c \in Calls : KindOk(c), NEW c \in Calls, StockStep(c)
  PROVE  /\ \A d \in Calls : KindOk(d)'
         /\ \A d \in Calls \ {c} : call'[d] = call[d]
         /\ Serial' => Serial /\ (Deduct(c) \/ PurchaseBatch(c) \/ PurchaseStock(c))
<1> DEFINE old == call[c]
           new == call'[c]
<1>1. /\ call \in [Calls -> CallType] /\ old \in CallType /\ KindOk(c)
  BY CallTyped DEF StockInv
<1>2. CASE Deduct(c)
  <2>1. /\ new.pc = "done" /\ new.kind = "deduct" /\ new.failed = old.failed /\ old.pc = "new"
        /\ \A d \in Calls \ {c} : call'[d] = call[d]
    BY <1>1, <1>2 DEF Deduct, CallType
  <2> QED
    BY <1>1, <1>2, <2>1 DEF KindOk, Serial
<1>3. ASSUME NEW kind \in {"adjust", "expire", "quarantine"},
             new.kind = kind, new.pc = "done" \/ (KindOk(c)' /\ new.pc \notin {"new", "purchase"}),
             \A d \in Calls \ {c} : call'[d] = call[d]
      PROVE  /\ \A d \in Calls : KindOk(d)'
             /\ Serial' => Serial /\ (Deduct(c) \/ PurchaseBatch(c) \/ PurchaseStock(c))
  BY <1>3 DEF KindOk, Serial
<1>4. CASE AdjustRead(c)
  <2>1. new.pc = "adjust" /\ new.kind = "adjust" /\ \A d \in Calls \ {c} : call'[d] = call[d]
    BY <1>1, <1>4 DEF AdjustRead, CallType
  <2> QED
    BY <2>1, <1>3 DEF KindOk
<1>5. CASE AdjustWrite(c)
  <2>1. /\ new.pc = "done" /\ new.kind = "adjust" /\ \A d \in Calls \ {c} : call'[d] = call[d]
    BY <1>1, <1>5 DEF AdjustWrite, Finish, CallType, KindOk
  <2> QED
    BY <2>1, <1>3
<1>6. CASE ExpireScan(c)
  <2>1. new.pc = "expire" /\ new.kind = "expire" /\ \A d \in Calls \ {c} : call'[d] = call[d]
    BY <1>1, <1>6 DEF ExpireScan, CallType
  <2> QED
    BY <2>1, <1>3 DEF KindOk
<1>7. CASE ExpireClaim(c)
  <2>1. PICK b \in call[c].due :
          /\ call[c].pc = "expire"
          /\ call' = [call EXCEPT
               ![c].pc = IF batches[b].status = "ACTIVE" THEN "expiring" ELSE NextDue(call[c].due \ {b}),
               ![c].due = @ \ {b}, ![c].batch = b, ![c].seen = stock[batches[b].material]]
    BY <1>7 DEF ExpireClaim
  <2> DEFINE pc == IF batches[b].status = "ACTIVE" THEN "expiring" ELSE NextDue(call[c].due \ {b})
             it == [old EXCEPT !.pc = pc, !.due = old.due \ {b}, !.batch = b,
                               !.seen = stock[batches[b].material]]
  <2>2. pc \in {"expiring", "expire", "done"} /\ old.kind = "expire"
    BY <1>1, <2>1 DEF NextDue, KindOk
  <2>3. call' = [call EXCEPT ![c] = it]
    BY <2>1
  <2> HIDE DEF pc
  <2>4. it.pc = pc /\ it.kind = old.kind
    BY <1>1 DEF CallType
  <2> HIDE DEF it
  <2>5. new = it /\ \A d \in Calls \ {c} : call'[d] = call[d]
    BY <1>1, <2>3
  <2>6. new.pc \in {"expiring", "expire", "done"} /\ new.kind = "expire"
    BY <2>2, <2>4, <2>5
  <2> QED
    BY <2>5, <2>6, <1>3 DEF KindOk
<1>8. CASE ExpireWrite(c)
  <2>1. /\ new.pc \in {"expire", "done"} /\ new.kind = "expire"
        /\ \A d \in Calls \ {c} : call'[d] = call[d]
    BY <1>1, <1>8 DEF ExpireWrite, NextDue, CallType, KindOk
  <2> QED
    BY <2>1, <1>3 DEF KindOk
<1>9. CASE QuarantineRead(c)
  <2>1. /\ new.pc = "quarantine" /\ new.kind = "quarantine"
        /\ \A d \in Calls \ {c} : call'[d] = call[d]
    BY <1>1, <1>9 DEF QuarantineRead, CallType
  <2> QED
    BY <2>1, <1>3 DEF KindOk
<1>10. CASE QuarantineClaim(c) \/ QuarantineWrite(c)
  <2>1. /\ new.pc \in {"quarantining", "done"} /\ new.kind = "quarantine"
        /\ \A d \in Calls \ {c} : call'[d] = call[d]
    BY <1>1, <1>10 DEF QuarantineClaim, QuarantineWrite, Finish, CallType, KindOk
  <2> QED
    BY <2>1, <1>3 DEF KindOk
<1>11. CASE PurchaseBatch(c)
  <2>1. /\ new.pc = "purchase" /\ new.kind = "purchase" /\ new.failed = old.failed /\ old.pc = "new"
        /\ \A d \in Calls \ {c} : call'[d] = call[d]
    BY <1>1, <1>11 DEF PurchaseBatch, CallType
  <2> QED
    BY <1>1, <1>11, <2>1 DEF KindOk, Serial
<1>12. CASE PurchaseStock(c)
  <2>1. /\ new.pc = "done" /\ new.kind = old.kind /\ new.failed = old.failed /\ old.kind = "purchase"
        /\ \A d \in Calls \ {c} : call'[d] = call[d]
    BY <1>1, <1>12 DEF PurchaseStock, Finish, CallType, KindOk
  <2> QED
    BY <1>1, <1>12, <2>1 DEF KindOk, Serial
<1>13. CASE CallFails(c)
  <2>1. new.pc = "done" /\ new.failed /\ \A d \in Calls \ {c} : call'[d] = call[d]
    BY <1>1, <1>13 DEF CallFails, CallType
  <2> QED
    BY <1>1, <2>1 DEF KindOk, Serial
<1> QED
  BY <1>2, <1>4, <1>5, <1>6, <1>7, <1>8, <1>9, <1>10, <1>11, <1>12, <1>13 DEF StockStep

LEMMA PendingTyped ==
  ASSUME StockInv, NEW m
  PROVE  /\ \A c \in Calls : PendingOf(c, m) \in Nat
         /\ Pending(m) \in Nat
<1> DEFINE f == [c \in Calls |-> PendingOf(c, m)]
<1>1. \A c \in Calls : PendingOf(c, m) \in Nat
  BY CallTyped DEF PendingOf
<1>2. Summable(f, Calls)
  BY <1>1, StockAssumption DEF Summable
<1> HIDE DEF f
<1>3. SumFunctionOnSet(f, Calls) \in Nat
  BY <1>2, SumType
<1> QED
  BY <1>1, <1>3 DEF Pending, f

\* The purchases under way change by what one call does.
LEMMA PendingMoves ==
  ASSUME StockInv, StockInv', NEW m, NEW c \in Calls, \A d \in Calls \ {c} : call'[d] = call[d]
  PROVE  /\ Pending(m) \in Nat /\ Pending(m)' \in Nat
         /\ PendingOf(c, m) \in Nat /\ PendingOf(c, m)' \in Nat
         /\ Pending(m)' + PendingOf(c, m) = Pending(m) + PendingOf(c, m)'
<1> DEFINE f == [d \in Calls |-> PendingOf(d, m)]
           g == [d \in Calls |-> PendingOf(d, m)']
           R == Calls \ {c}
<1>1. IsFiniteSet(Calls) /\ IsFiniteSet(R) /\ R \subseteq Calls
  BY StockAssumption, FS_Subset
<1>2. \A d \in Calls : f[d] \in Nat /\ g[d] \in Nat
  <2>1. \A d \in Calls : call[d].quantity \in Nat /\ call'[d].quantity \in Nat
    BY DEF StockInv, CallType
  <2> QED
    BY <2>1 DEF PendingOf
<1>3. \A d \in R : f[d] = g[d]
  BY DEF PendingOf
<1>4. /\ Pending(m) = SumFunctionOnSet(f, Calls) /\ Pending(m)' = SumFunctionOnSet(g, Calls)
      /\ PendingOf(c, m) = f[c] /\ PendingOf(c, m)' = g[c]
  BY DEF Pending
<1> HIDE DEF f, g
<1>5. Summable(f, Calls) /\ Summable(g, Calls) /\ Summable(f, R) /\ Summable(g, R)
  BY <1>1, <1>2 DEF Summable
<1>6. SumFunctionOnSet(f, R) = SumFunctionOnSet(g, R) /\ SumFunctionOnSet(f, R) \in Nat
  BY <1>3, <1>5, SumSame, SumType
<1>7. /\ SumFunctionOnSet(f, Calls) = f[c] + SumFunctionOnSet(f, R)
      /\ SumFunctionOnSet(g, Calls) = g[c] + SumFunctionOnSet(g, R)
  BY <1>5, SumRemove
<1> QED
  BY <1>2, <1>4, <1>6, <1>7

\* What is left of a material in some batches.
LEMMA LeftIs ==
  ASSUME NEW bs \in Seq(BatchType), NEW m, NEW a,
         a = [b \in DOMAIN bs |-> IF bs[b].material = m THEN bs[b].left ELSE 0]
  PROVE  /\ Summable(a, DOMAIN bs) /\ IsFiniteSet(DOMAIN bs)
         /\ Total(a) = SumFunctionOnSet(a, DOMAIN bs) /\ Total(a) \in Nat
         /\ \A b \in DOMAIN bs : bs[b].left \in Nat
<1>1. DOMAIN bs = 1..Len(bs) /\ Len(bs) \in Nat /\ \A b \in DOMAIN bs : bs[b] \in BatchType
  OBVIOUS
<1>2. \A b \in DOMAIN bs : bs[b].left \in Nat
  BY <1>1 DEF BatchType
<1>3. IsFiniteSet(DOMAIN bs)
  BY <1>1, FS_Interval
<1>4. Summable(a, DOMAIN bs)
  BY <1>2, <1>3 DEF Summable
<1>5. Total(a) = SumFunctionOnSet(a, DOMAIN bs)
  BY DEF Total
<1> QED
  BY <1>2, <1>3, <1>4, <1>5, SumType

\* With every batch in FIFO, what a sale may take is all that is left.
LEMMA FifoIs ==
  ASSUME StockInv, InFifo, NEW m
  PROVE  Available(m) = [b \in DOMAIN batches |->
                           IF batches[b].material = m THEN batches[b].left ELSE 0]
  BY DEF Available, InFifo

LEMMA FifoIsNext ==
  ASSUME StockInv', InFifo', NEW m
  PROVE  Available(m)' = [b \in DOMAIN batches' |->
                            IF batches'[b].material = m THEN batches'[b].left ELSE 0]
  BY DEF Available, InFifo

\* A batch that units leave stays in FIFO, or has nothing left.
LEMMA DrawnStatus ==
  ASSUME StockInv, InFifo, NEW b \in DOMAIN batches, NEW q \in 0..batches[b].left
  PROVE  /\ Drawn(batches[b], q).status \in {"ACTIVE", "DEPLETED"}
         /\ Drawn(batches[b], q).status = "DEPLETED" => Drawn(batches[b], q).left = 0
<1>1. /\ batches[b] \in BatchType /\ batches[b].left \in Nat /\ q \in Nat
      /\ batches[b].status \in {"ACTIVE", "DEPLETED"}
      /\ batches[b].status = "DEPLETED" => batches[b].left = 0
  BY BatchTyped DEF InFifo
<1>2. CASE q = 0
  BY <1>1, <1>2 DEF Drawn
<1>3. CASE q # 0
  <2>1. Drawn(batches[b], q) = [batches[b] EXCEPT !.left = batches[b].left - q,
                                !.status = IF batches[b].left = q THEN "DEPLETED" ELSE "ACTIVE"]
    BY <1>3 DEF Drawn
  <2> QED
    BY <1>1, <2>1 DEF BatchType
<1> QED
  BY <1>2, <1>3

\* Units leave the batches of a material.
LEMMA TotalFalls ==
  ASSUME StockInv, StockInv', InFifo, InFifo', DOMAIN batches' = DOMAIN batches, NEW m, NEW g,
         \A b \in DOMAIN batches :
           /\ g[b] \in Nat /\ batches'[b].material = batches[b].material
           /\ batches[b].material = m => batches'[b].left = batches[b].left - g[b]
           /\ batches[b].material # m => g[b] = 0
  PROVE  /\ Total(Available(m))' \in Nat /\ Total(Available(m)) \in Nat
         /\ Total(Available(m))' + SumFunctionOnSet(g, DOMAIN batches) = Total(Available(m))
<1> DEFINE S == DOMAIN batches
           a == Available(m)
           z == Available(m)'
<1>1. /\ a = [b \in S |-> IF batches[b].material = m THEN batches[b].left ELSE 0]
      /\ z = [b \in S |-> IF batches'[b].material = m THEN batches'[b].left ELSE 0]
      /\ batches \in Seq(BatchType) /\ batches' \in Seq(BatchType)
  BY FifoIs, FifoIsNext DEF StockInv
<1> HIDE DEF a, z
<1>2. /\ Summable(a, S) /\ Total(a) = SumFunctionOnSet(a, S) /\ Total(a) \in Nat
      /\ \A b \in S : batches[b].left \in Nat
  BY <1>1, LeftIs
<1>3. Summable(z, S) /\ Total(z) = SumFunctionOnSet(z, S) /\ Total(z) \in Nat
      /\ \A b \in S : batches'[b].left \in Nat
  BY <1>1, LeftIs
<1>4. \A b \in S : a[b] = z[b] + g[b]
  BY <1>1, <1>2, <1>3
<1>5. Summable(g, S)
  BY <1>2 DEF Summable
<1> HIDE DEF S
<1>6. SumFunctionOnSet(a, S) = SumFunctionOnSet(z, S) + SumFunctionOnSet(g, S)
  BY ONLY <1>2, <1>3, <1>4, <1>5, SumPlus
<1> QED
  BY <1>2, <1>3, <1>6 DEF S, a, z

\* Units come into the batches of a material, new ones among them.
LEMMA TotalRises ==
  ASSUME StockInv, StockInv', InFifo, InFifo', DOMAIN batches \subseteq DOMAIN batches', NEW m, NEW g,
         \A b \in DOMAIN batches' :
           /\ g[b] \in Nat
           /\ batches'[b].material # m => g[b] = 0
           /\ b \notin DOMAIN batches /\ batches'[b].material = m => batches'[b].left = g[b],
         \A b \in DOMAIN batches :
           /\ batches'[b].material = batches[b].material
           /\ batches[b].material = m => batches'[b].left = batches[b].left + g[b]
  PROVE  /\ Total(Available(m))' \in Nat /\ Total(Available(m)) \in Nat
         /\ Total(Available(m))' = Total(Available(m)) + SumFunctionOnSet(g, DOMAIN batches')
<1> DEFINE S == DOMAIN batches
           T == DOMAIN batches'
           a == Available(m)
           z == Available(m)'
           y == [b \in T |-> IF b \in S THEN a[b] ELSE 0]
<1>1. /\ a = [b \in S |-> IF batches[b].material = m THEN batches[b].left ELSE 0]
      /\ z = [b \in T |-> IF batches'[b].material = m THEN batches'[b].left ELSE 0]
      /\ batches \in Seq(BatchType) /\ batches' \in Seq(BatchType)
  BY FifoIs, FifoIsNext DEF StockInv
<1> HIDE DEF a, z
<1>2. /\ Summable(a, S) /\ Total(a) = SumFunctionOnSet(a, S) /\ Total(a) \in Nat
      /\ \A b \in S : batches[b].left \in Nat
  BY <1>1, LeftIs
<1>3. Summable(z, T) /\ Total(z) = SumFunctionOnSet(z, T) /\ Total(z) \in Nat
      /\ \A b \in T : batches'[b].left \in Nat
  BY <1>1, LeftIs
<1>4. \A b \in T : z[b] = y[b] + g[b]
  BY <1>1, <1>2, <1>3
<1>5. /\ \A b \in T : y[b] \in Nat
      /\ \A b \in S : y[b] = a[b]
      /\ \A b \in T \ S : y[b] = 0
      /\ S \subseteq T
  BY <1>2 DEF Summable
<1> HIDE DEF S, T, y
<1>6. Summable(g, T) /\ Summable(y, T) /\ Summable(y, S)
  BY <1>2, <1>3, <1>5 DEF Summable, T
<1>7. SumFunctionOnSet(z, T) = SumFunctionOnSet(y, T) + SumFunctionOnSet(g, T)
  BY ONLY <1>4, <1>6, SumPlus
<1>8. SumFunctionOnSet(y, T) = SumFunctionOnSet(y, S)
  BY <1>5, <1>6, SumPart
<1>9. SumFunctionOnSet(y, S) = SumFunctionOnSet(a, S)
  BY <1>5, <1>6, SumSame
<1> QED
  BY <1>2, <1>3, <1>7, <1>8, <1>9 DEF a, z, T

\* A sale.
LEMMA SerialDeduct ==
  ASSUME StockInv, StockInv', InFifo, \A m \in Materials : Agree(m), NEW c \in Calls, Deduct(c),
         \A d \in Calls \ {c} : call'[d] = call[d]
  PROVE  InFifo' /\ \A m \in Materials : Agree(m)'
<1>1. PICK m \in Materials, q \in Quantities :
        /\ call[c].pc = "new"
        /\ call' = [call EXCEPT ![c].pc = "done", ![c].kind = "deduct"]
        /\ \/ UNCHANGED <<stock, batches>>
           \/ LET taken == Draw(Available(m), 0, q) IN
              /\ Fits(Available(m), 0, q)
              /\ batches' = [b \in DOMAIN batches |->
                   [Drawn(batches[b], taken[b]) EXCEPT !.used = @ + taken[b]]]
              /\ stock' = [stock EXCEPT ![m] = @ - q]
  BY DEF Deduct
<1>2. ASSUME NEW n PROVE Pending(n)' = Pending(n) /\ Pending(n) \in Nat
  <2>1. PendingOf(c, n) = 0 /\ PendingOf(c, n)' = 0
    BY <1>1, CallTyped DEF PendingOf, StockInv, CallType
  <2> QED
    BY <2>1, PendingMoves
<1>3. CASE UNCHANGED <<stock, batches>>
  BY <1>2, <1>3 DEF InFifo, Agree, Available
<1>4. CASE LET taken == Draw(Available(m), 0, q) IN
           /\ Fits(Available(m), 0, q)
           /\ batches' = [b \in DOMAIN batches |->
                [Drawn(batches[b], taken[b]) EXCEPT !.used = @ + taken[b]]]
           /\ stock' = [stock EXCEPT ![m] = @ - q]
  <2> DEFINE a == Available(m)
             taken == Draw(a, 0, q)
  <2>1. q \in Nat /\ Stack(a, Len(batches)) /\ Len(batches) \in Nat /\ DOMAIN a = DOMAIN batches
        /\ \A b \in DOMAIN batches :
             a[b] \in 0..batches[b].left /\ (a[b] > 0 => batches[b].material = m)
    BY StockAssumption, AvailableStack, BatchTyped DEF Stack
  <2>2. 0 + q <= Total(a) /\ stock' = [stock EXCEPT ![m] = @ - q]
    BY <1>4 DEF Fits
  <2>3. batches' = [b \in DOMAIN batches |->
                      [Drawn(batches[b], taken[b]) EXCEPT !.used = @ + taken[b]]]
    BY <1>4
  <2> HIDE DEF a
  <2>4. /\ DOMAIN taken = DOMAIN batches /\ \A b \in DOMAIN batches : taken[b] \in 0..a[b]
        /\ Total(taken) = q
    BY <2>1, <2>2, DrawIs, DrawTotal
  <2> HIDE DEF taken
  <2>5. ASSUME NEW b \in DOMAIN batches
        PROVE  /\ taken[b] \in 0..batches[b].left /\ batches'[b].left = batches[b].left - taken[b]
               /\ batches'[b].material = batches[b].material
               /\ batches[b].material # m => taken[b] = 0
               /\ batches'[b].status \in {"ACTIVE", "DEPLETED"}
               /\ batches'[b].status = "DEPLETED" => batches'[b].left = 0
    <3> DEFINE d == Drawn(batches[b], taken[b])
    <3>1. taken[b] \in 0..batches[b].left /\ (taken[b] > 0 => batches[b].material = m)
      BY <2>1, <2>4, BatchTyped
    <3>2. /\ d \in BatchType /\ d.material = batches[b].material /\ d.used \in Nat
          /\ d.left = batches[b].left - taken[b]
      BY <3>1, DrawnRow, BatchTyped
    <3>3. d.status \in {"ACTIVE", "DEPLETED"} /\ (d.status = "DEPLETED" => d.left = 0)
      BY <3>1, DrawnStatus
    <3>4. batches'[b] = [d EXCEPT !.used = d.used + taken[b]]
      BY <2>3
    <3> HIDE DEF d
    <3>5. batches'[b].left = d.left /\ batches'[b].material = d.material /\ batches'[b].status = d.status
      BY <3>2, <3>4 DEF BatchType
    <3> QED
      BY <3>1, <3>2, <3>3, <3>5, BatchTyped
  <2>6. DOMAIN batches' = DOMAIN batches
    BY <2>3
  <2>7. InFifo'
    BY <2>5, <2>6 DEF InFifo
  <2>8. ASSUME NEW n \in Materials PROVE Agree(n)'
    <3> DEFINE g == IF n = m THEN taken ELSE [b \in DOMAIN batches |-> 0]
    <3>1. \A b \in DOMAIN batches :
            /\ g[b] \in Nat /\ batches'[b].material = batches[b].material
            /\ batches[b].material = n => batches'[b].left = batches[b].left - g[b]
            /\ batches[b].material # n => g[b] = 0
      BY <2>5, BatchTyped
    <3>2. SumFunctionOnSet(g, DOMAIN batches) = IF n = m THEN q ELSE 0
      <4>1. CASE n = m
        BY <2>4, <4>1 DEF Total
      <4>2. CASE n # m
        <5>1. IsFiniteSet(DOMAIN batches) /\ \A b \in DOMAIN batches : g[b] = 0
          BY <4>2, <2>1, FS_Interval DEF StockInv
        <5> HIDE DEF g
        <5> QED
          BY <4>2, <5>1, SumZero
      <4> QED
        BY <4>1, <4>2
    <3> HIDE DEF g
    <3>3. /\ Total(Available(n))' \in Nat /\ Total(Available(n)) \in Nat
          /\ Total(Available(n))' + SumFunctionOnSet(g, DOMAIN batches) = Total(Available(n))
      BY <2>6, <2>7, <3>1, TotalFalls
    <3>4. stock'[n] = IF n = m THEN stock[n] - q ELSE stock[n]
      BY <2>2 DEF StockInv
    <3>5. stock[n] \in Int /\ stock[n] + Pending(n) = Total(Available(n))
      BY DEF Agree, StockInv
    <3>6. Pending(n)' = Pending(n) /\ Pending(n) \in Nat
      BY <1>2
    <3> DEFINE out == IF n = m THEN q ELSE 0
    <3>7. /\ out \in Nat /\ stock'[n] = stock[n] - out
          /\ Total(Available(n))' + out = Total(Available(n))
      BY <2>1, <3>2, <3>3, <3>4, <3>5
    <3> HIDE DEF out
    <3>8. stock'[n] + Pending(n)' = Total(Available(n))'
      BY <3>3, <3>5, <3>6, <3>7
    <3> QED
      BY <3>8 DEF Agree
  <2> QED
    BY <2>7, <2>8
<1> QED
  BY <1>1, <1>3, <1>4

\* A purchase commits its batch.
LEMMA SerialPurchase ==
  ASSUME StockInv, StockInv', InFifo, \A m \in Materials : Agree(m), NEW c \in Calls, PurchaseBatch(c),
         \A d \in Calls \ {c} : call'[d] = call[d]
  PROVE  InFifo' /\ \A m \in Materials : Agree(m)'
<1>1. PICK m \in Materials, q \in Quantities :
        /\ call[c].pc = "new"
        /\ call' = [call EXCEPT ![c].pc = "purchase", ![c].kind = "purchase",
                          ![c].material = m, ![c].quantity = q, ![c].seen = stock[m]]
        /\ batches' = Append(batches, NewBatch(m, q, 1))
        /\ UNCHANGED stock
  BY DEF PurchaseBatch
<1>2. q \in Nat /\ Len(batches) \in Nat
  BY StockAssumption DEF StockInv
<1> DEFINE N == Len(batches) + 1
           row == NewBatch(m, q, 1)
<1>3. /\ row \in BatchType /\ row.left = q /\ row.material = m /\ row.status = "ACTIVE"
  <2>1. m \in Materials /\ 1 \in Nat
    OBVIOUS
  <2> QED
    BY <1>2, <2>1, NewBatchTyped
<1>4. batches' = Append(batches, row)
  BY <1>1
<1> HIDE DEF row
<1>5. /\ DOMAIN batches = 1..Len(batches) /\ DOMAIN batches' = 1..N /\ batches'[N] = row
      /\ \A b \in DOMAIN batches : batches'[b] = batches[b]
  BY <1>3, <1>4 DEF StockInv
<1>6. N \in DOMAIN batches' /\ DOMAIN batches' = DOMAIN batches \cup {N} /\ N \notin DOMAIN batches
  BY <1>2, <1>5
<1>7. InFifo'
  BY <1>3, <1>5, <1>6 DEF InFifo
<1>8. ASSUME NEW n \in Materials PROVE Agree(n)'
  <2> DEFINE g == [b \in DOMAIN batches' |-> IF b = N /\ n = m THEN q ELSE 0]
  <2>1. /\ \A b \in DOMAIN batches' :
             /\ g[b] \in Nat
             /\ batches'[b].material # n => g[b] = 0
             /\ b \notin DOMAIN batches /\ batches'[b].material = n => batches'[b].left = g[b]
        /\ \A b \in DOMAIN batches :
             /\ batches'[b].material = batches[b].material
             /\ batches[b].material = n => batches'[b].left = batches[b].left + g[b]
    BY <1>2, <1>3, <1>5, <1>6, BatchTyped
  <2>2. SumFunctionOnSet(g, DOMAIN batches') = IF n = m THEN q ELSE 0
    <3>1. IsFiniteSet(DOMAIN batches')
      BY <1>2, <1>5, FS_Interval
    <3>2. Summable(g, DOMAIN batches') /\ {N} \subseteq DOMAIN batches'
          /\ g[N] = (IF n = m THEN q ELSE 0) /\ g[N] \in Nat
          /\ \A b \in DOMAIN batches' \ {N} : g[b] = 0
      BY <1>2, <1>6, <2>1, <3>1 DEF Summable
    <3> HIDE DEF g, N
    <3>3. SumFunctionOnSet(g, DOMAIN batches') = SumFunctionOnSet(g, {N})
      BY <3>2, SumPart
    <3> QED
      BY <3>2, <3>3, SumOfOne
  <2> HIDE DEF g, N
  <2>3. /\ Total(Available(n))' \in Nat /\ Total(Available(n)) \in Nat
        /\ Total(Available(n))' = Total(Available(n)) + SumFunctionOnSet(g, DOMAIN batches')
    BY <1>6, <1>7, <2>1, TotalRises
  <2>4. PendingOf(c, n) = 0 /\ PendingOf(c, n)' = IF n = m THEN q ELSE 0
    <3>1. call[c] \in CallType /\ call \in [Calls -> CallType]
      BY DEF StockInv
    <3>2. call'[c].pc = "purchase" /\ call'[c].material = m /\ call'[c].quantity = q
      BY <1>1, <3>1 DEF CallType
    <3> QED
      BY <1>1, <3>2 DEF PendingOf
  <2>5. Pending(n) \in Nat /\ Pending(n)' \in Nat
        /\ Pending(n)' + PendingOf(c, n) = Pending(n) + PendingOf(c, n)'
    BY PendingMoves
  <2>6. stock'[n] = stock[n] /\ stock[n] \in Int /\ stock[n] + Pending(n) = Total(Available(n))
    BY <1>1 DEF Agree, StockInv
  <2> QED
    BY <1>2, <2>2, <2>3, <2>4, <2>5, <2>6 DEF Agree
<1> QED
  BY <1>7, <1>8

\* And increments the total.
LEMMA SerialTotal ==
  ASSUME StockInv, StockInv', InFifo, \A m \in Materials : Agree(m), NEW c \in Calls, PurchaseStock(c),
         \A d \in Calls \ {c} : call'[d] = call[d]
  PROVE  InFifo' /\ \A m \in Materials : Agree(m)'
<1> DEFINE m == call[c].material
           q == call[c].quantity
<1>1. /\ call[c].pc = "purchase" /\ call' = [call EXCEPT ![c].pc = "done"]
      /\ stock' = [stock EXCEPT ![m] = stock[m] + q] /\ batches' = batches
  BY DEF PurchaseStock, Purchased, Finish
<1>2. m \in Materials /\ q \in Nat /\ call'[c].pc = "done"
  BY <1>1, CallTyped DEF StockInv, CallOk, CallType
<1>3. InFifo' /\ \A n : Total(Available(n))' = Total(Available(n))
  BY <1>1 DEF InFifo, Available
<1>4. ASSUME NEW n \in Materials PROVE Agree(n)'
  <2>1. PendingOf(c, n) = (IF n = m THEN q ELSE 0) /\ PendingOf(c, n)' = 0
    BY <1>1, <1>2 DEF PendingOf
  <2>2. Pending(n) \in Nat /\ Pending(n)' \in Nat
        /\ Pending(n)' + PendingOf(c, n) = Pending(n) + PendingOf(c, n)'
    BY PendingMoves
  <2>3. stock[n] \in Int /\ stock[n] + Pending(n) = Total(Available(n))
    BY DEF Agree, StockInv
  <2>4. stock'[n] = IF n = m THEN stock[n] + q ELSE stock[n]
    BY <1>1, <1>2 DEF StockInv
  <2> HIDE DEF m, q
  <2> QED
    BY <1>2, <1>3, <2>1, <2>2, <2>3, <2>4 DEF Agree
<1> QED
  BY <1>3, <1>4

\* A dispatch takes from the batches of a material what it takes from its total, however many of
\* its items draw on it.
LEMMA SerialDispatch ==
  ASSUME ItemInv, StockInv', InFifo, \A m \in Materials : Agree(m), NEW t \in Transfers, NEW p,
         NEW turn, (\A i \in ItemsOf(t) : p[i] \in Nat), Dispatched(t, p, turn)
  PROVE  InFifo' /\ \A m \in Materials : Agree(m)'
<1>1. /\ StockInv /\ DOMAIN batches' = DOMAIN batches
      /\ \A b \in DOMAIN batches :
           /\ batches'[b].left = batches[b].left - Leaves(t, p, turn, b)
           /\ batches'[b].material = batches[b].material
  BY DispatchStock DEF ItemInv
<1>2. /\ batches' = [b \in DOMAIN batches |-> Drawn(batches[b], Leaves(t, p, turn, b))]
      /\ stock' = [m \in Materials |-> stock[m] - Sought(p, From(t, m))]
      /\ call' = call
      /\ DOMAIN p = ItemsOf(t) /\ Ordered(turn, ItemsOf(t))
  BY DEF Dispatched
<1>3. InFifo'
  <2> SUFFICES ASSUME NEW b \in DOMAIN batches
               PROVE  /\ batches'[b].status \in {"ACTIVE", "DEPLETED"}
                      /\ batches'[b].status = "DEPLETED" => batches'[b].left = 0
    BY <1>1 DEF InFifo
  <2>1. Leaves(t, p, turn, b) \in 0..batches[b].left
    BY <1>1, <1>2, LeavesIs
  <2>2. batches'[b] = Drawn(batches[b], Leaves(t, p, turn, b))
    BY <1>2
  <2> QED
    BY <1>1, <2>1, <2>2, DrawnStatus
<1>4. ASSUME NEW m \in Materials PROVE Agree(m)'
  <2> DEFINE S == From(t, m)
             a == Available(m)
             g == Draw(a, 0, Sought(p, S))
  <2>1. /\ Sought(p, S) \in Nat /\ Sought(p, S) <= Total(a)
        /\ Stack(a, Len(batches)) /\ Len(batches) \in Nat /\ DOMAIN a = DOMAIN batches
        /\ \A b \in DOMAIN batches : a[b] > 0 => batches[b].material = m
    BY <1>1, SoughtFits, AvailableStack
  <2>2. ASSUME NEW b \in DOMAIN batches, batches[b].material = m
        PROVE  Leaves(t, p, turn, b) = g[b]
    <3>1. Leaves(t, p, turn, b) = Draw(Available(batches[b].material), 0,
                                       Sought(p, From(t, batches[b].material)))[b]
      BY <1>1, <1>2, LeavesIs
    <3> QED
      BY <2>2, <3>1
  <2> HIDE DEF S, a
  <2>3. /\ Total(g) = Sought(p, S) /\ DOMAIN g = DOMAIN batches
        /\ \A b \in DOMAIN batches : g[b] \in 0..a[b] /\ a[b] \in Nat
    <3>1. 0 \in Nat /\ 0 + Sought(p, S) = Sought(p, S)
      BY <2>1
    <3>2. DOMAIN g = DOMAIN batches /\ \A b \in DOMAIN batches : g[b] \in 0..a[b] /\ a[b] \in Nat
      BY <2>1, <3>1, DrawIs DEF Stack
    <3>3. 0 + Sought(p, S) <= Total(a) => Total(g) = Sought(p, S)
      BY <2>1, <3>1, DrawTotal
    <3> QED
      BY <2>1, <3>1, <3>2, <3>3
  <2> HIDE DEF g
  <2>4. \A b \in DOMAIN batches :
          /\ g[b] \in Nat /\ batches'[b].material = batches[b].material
          /\ batches[b].material = m => batches'[b].left = batches[b].left - g[b]
          /\ batches[b].material # m => g[b] = 0
    <3> SUFFICES ASSUME NEW b \in DOMAIN batches
                 PROVE  g[b] \in Nat /\ (batches[b].material # m => g[b] = 0)
      BY <1>1, <2>2
    <3> QED
      BY <2>1, <2>3
  <2>5. /\ Total(Available(m))' \in Nat /\ Total(Available(m)) \in Nat
        /\ Total(Available(m))' + SumFunctionOnSet(g, DOMAIN batches) = Total(Available(m))
    BY <1>1, <1>3, <2>4, TotalFalls
  <2>6. SumFunctionOnSet(g, DOMAIN batches) = Sought(p, S)
    BY <2>3 DEF Total
  <2>7. Pending(m)' = Pending(m)
    BY <1>2 DEF Pending, PendingOf
  <2>8. stock[m] \in Int /\ stock[m] + Pending(m) = Total(Available(m))
        /\ stock'[m] = stock[m] - Sought(p, S)
    BY <1>1, <1>2 DEF Agree, StockInv, S
  <2>9. Pending(m) \in Nat
    BY <1>1, PendingTyped
  <2>10. Sought(p, S) \in Nat
    BY <2>1
  <2> QED
    BY <2>5, <2>6, <2>7, <2>8, <2>9, <2>10 DEF Agree
<1> QED
  BY <1>3, <1>4

\* What comes out of transit goes to a batch of its own, of the material its item is sent to.
LEMMA GoesInto ==
  ASSUME BalanceInv, Located, NEW t \in Transfers, NEW p, NEW turn, Receipt(t, p, turn), NEW x \in Arrived(p)
  PROVE  /\ Into(p, turn, x) \in DOMAIN batches' /\ Mine(p, turn, Into(p, turn, x)) = {x}
         /\ Gain(p, turn, Into(p, turn, x)) = Arrives(p)[x]
         /\ batches'[Into(p, turn, x)].material = Destination[x[1]]
<1> DEFINE n == Into(p, turn, x)
<1>1. /\ ItemInv /\ DOMAIN batches = 1..Len(batches) /\ Len(batches) \in Nat
      /\ DOMAIN batches' = 1..(Len(batches) + Cardinality(Created(p)))
      /\ Cardinality(Created(p)) \in Nat /\ x \in Mine(p, turn, n)
  <2>1. ItemInv /\ StockInv
    BY DEF BalanceInv, ItemInv
  <2>2. Cardinality(Created(p)) \in Nat
    BY <2>1, ArrivedIs
  <2>3. DOMAIN batches' = 1..(Len(batches) + Cardinality(Created(p)))
    BY DEF Receipt, Receives
  <2>4. x \in Mine(p, turn, n)
    BY DEF Mine
  <2> QED
    BY <2>1, <2>2, <2>3, <2>4 DEF StockInv
<1>2. CASE x \in Created(p)
  <2>1. n \in DOMAIN batches' \ DOMAIN batches
    <3>1. n \in (Len(batches) + 1)..(Len(batches) + Cardinality(Created(p)))
      BY <1>1, <1>2, ArrivedIs
    <3> HIDE DEF n
    <3> QED
      BY <1>1, <3>1
  <2> HIDE DEF n
  <2>2. PICK y \in Created(p) : Mine(p, turn, n) = {y} /\ batches'[n].material = Destination[y[1]]
    BY <1>1, <2>1, FilledNew
  <2>3. Mine(p, turn, n) = {x} /\ y = x
    BY <1>1, <2>2
  <2>4. Gain(p, turn, n) = Arrives(p)[x]
    BY <1>1, <2>3, GainIs
  <2> QED
    BY <2>1, <2>2, <2>3, <2>4 DEF n
<1>3. CASE x \notin Created(p)
  <2>1. /\ n = allocations[x[1]][x[2]].batch /\ n \in DOMAIN batches /\ n # 0
        /\ x[1] \in Items /\ x[2] \in DOMAIN allocations[x[1]] /\ x = <<x[1], x[2]>>
    BY <1>1, <1>3, ArrivedIs
  <2>2. ASSUME NEW y \in Mine(p, turn, n) PROVE y = x
    <3>1. y \in Arrived(p) /\ Into(p, turn, y) = n
      BY DEF Mine
    <3>2. y \notin Created(p)
      <4>1. y \in Created(p) => Into(p, turn, y) \in (Len(batches) + 1)..(Len(batches) + Cardinality(Created(p)))
        BY <1>1, ArrivedIs
      <4> HIDE DEF n
      <4> QED
        BY <1>1, <2>1, <3>1, <4>1
    <3>3. /\ n = allocations[y[1]][y[2]].batch /\ y[1] \in Items
          /\ y[2] \in DOMAIN allocations[y[1]] /\ y = <<y[1], y[2]>>
      BY <1>1, <3>1, <3>2, ArrivedIs
    <3> HIDE DEF n
    <3>4. Apart /\ allocations[y[1]][y[2]].batch = allocations[x[1]][x[2]].batch
          /\ allocations[y[1]][y[2]].batch # 0
      BY <2>1, <3>3 DEF BalanceInv
    <3>5. ASSUME NEW k \in Items, NEW l \in Items, NEW d \in DOMAIN allocations[k],
                 NEW e \in DOMAIN allocations[l],
                 allocations[k][d].batch = allocations[l][e].batch, allocations[k][d].batch # 0
          PROVE  k = l /\ d = e
      BY <3>4, <3>5 DEF Apart
    <3> DEFINE i == y[1]
               j == x[1]
               b == y[2]
               c == x[2]
    <3>6. /\ i \in Items /\ j \in Items /\ b \in DOMAIN allocations[i] /\ c \in DOMAIN allocations[j]
          /\ allocations[i][b].batch = allocations[j][c].batch /\ allocations[i][b].batch # 0
      BY <2>1, <3>3, <3>4
    <3> HIDE DEF i, j, b, c
    <3>7. i = j /\ b = c
      BY <3>5, <3>6
    <3> QED
      BY <2>1, <3>3, <3>7 DEF i, j, b, c
  <2>3. batches[n].material = Destination[x[1]]
    BY <2>1 DEF Located
  <2> HIDE DEF n
  <2>4. Mine(p, turn, n) = {x}
    BY <1>1, <2>2
  <2>5. Gain(p, turn, n) = Arrives(p)[x] /\ n \in DOMAIN batches' /\ batches'[n].material = batches[n].material
    <3>1. Gain(p, turn, n) = Arrives(p)[x]
      BY <1>1, <2>4, GainIs
    <3>2. n \in DOMAIN batches' /\ batches'[n].material = batches[n].material
      BY <1>1, <2>1, FilledOld
    <3> QED
      BY <3>1, <3>2
  <2> QED
    BY <2>3, <2>4, <2>5 DEF n
<1> QED
  BY <1>2, <1>3

\* The lines of some items bring what the receipt says of these items.
LEMMA BroughtIs ==
  ASSUME ItemInv, NEW t \in Transfers, NEW p, NEW turn, Receipt(t, p, turn),
         NEW S, S \subseteq DOMAIN p, NEW A, A = {x \in Arrived(p) : x[1] \in S},
         NEW f, \A x \in A : f[x] = Arrives(p)[x]
  PROVE  Summable(f, A) /\ SumFunctionOnSet(f, A) = Sought(p, S) /\ Sought(p, S) \in Nat
<1> DEFINE part == [x \in A |-> x[1]]
           g == [i \in S |-> p[i]]
<1>1. /\ S \subseteq Items /\ IsFiniteSet(S) /\ \A i \in S : p[i] \in Nat
      /\ \A x \in A : part[x] \in S
  <2>1. S \subseteq Items /\ \A i \in S : p[i] \in Nat
    BY DEF Receipt, ItemsOf
  <2> QED
    BY <2>1, TransfersAssumption, FS_Subset
<1>2. Summable(f, A)
  <2>1. A \subseteq Arrived(p) /\ IsFiniteSet(A)
    BY ArrivedIs, FS_Subset
  <2>2. \A x \in A : f[x] \in Nat
    BY <2>1, ArrivedIs
  <2> QED
    BY <2>1, <2>2 DEF Summable
<1>3. ASSUME NEW i \in S
      PROVE  SumFunctionOnSet(f, {x \in A : part[x] = i}) = p[i]
  <2> DEFINE a == InTransit(i)
             comes == Arriving(i, p[i])
             B == {x \in A : part[x] = i}
             U == {b \in DOMAIN comes : comes[b] > 0}
             h == [b \in U |-> <<i, b>>]
  <2>1. /\ comes = Draw(a, Lost(i), p[i]) /\ Lost(i) \in Nat /\ p[i] \in Nat
        /\ Lost(i) + p[i] <= Total(a)
        /\ Stack(a, Len(batches)) /\ Len(batches) \in Nat /\ DOMAIN a = DOMAIN allocations[i]
        /\ \A b \in DOMAIN allocations[i] :
             /\ <<i, b>> \in Arrived(p) <=> comes[b] > 0
             /\ <<i, b>> \in Arrived(p) => Arrives(p)[<<i, b>>] = comes[b]
    BY <1>1, ArrivingIs, TransitStack DEF ItemInv
  <2>2. DOMAIN comes = DOMAIN allocations[i] /\ Total(comes) = p[i] /\ Stack(comes, Len(batches))
    <3> HIDE DEF a
    <3> QED
      BY <2>1, DrawIs, DrawTotal
  <2>3. /\ \A b \in U : h[b] = <<i, b>> /\ h[b] \in B /\ f[h[b]] = comes[b]
        /\ \A x \in B : \E b \in U : h[b] = x
    <3>1. ASSUME NEW b \in U PROVE h[b] = <<i, b>> /\ h[b] \in B /\ f[h[b]] = comes[b]
      <4>1. <<i, b>> \in Arrived(p) /\ Arrives(p)[<<i, b>>] = comes[b] /\ h[b] = <<i, b>>
        BY <2>1, <2>2
      <4> HIDE DEF comes, U, h
      <4> QED
        BY <4>1
    <3>2. ASSUME NEW x \in B PROVE \E b \in U : h[b] = x
      <4>1. x \in Arrived(p) /\ x[1] = i
        OBVIOUS
      <4>2. x = <<i, x[2]>> /\ x[2] \in DOMAIN allocations[i]
        BY <4>1, ArrivedIs
      <4>3. x[2] \in U
        BY <2>1, <2>2, <4>1, <4>2
      <4> QED
        BY <4>2, <4>3
    <3> QED
      BY <3>1, <3>2
  <2>4. /\ U \subseteq DOMAIN comes /\ \A b \in DOMAIN comes \ U : comes[b] = 0
    BY <2>2 DEF Stack
  <2>5. B \subseteq A /\ DOMAIN h = U
    OBVIOUS
  <2>6. h \in [U -> B]
    BY <2>3
  <2> HIDE DEF comes, U, B, h
  <2>7. \A b, c \in U : h[b] = h[c] => b = c
    BY <2>3
  <2>8. h \in Bijection(U, B)
    BY <2>3, <2>6, <2>7 DEF Bijection, Injection, Surjection, IsInjective
  <2>9. Summable(comes, DOMAIN comes) /\ Total(comes) = SumFunctionOnSet(comes, DOMAIN comes)
    BY <2>1, <2>2, StackSums DEF Total
  <2>10. Summable(comes, U) /\ Summable(f, B)
    BY <1>2, <2>4, <2>5, <2>9, FS_Subset DEF Summable
  <2>11. SumFunctionOnSet(comes, DOMAIN comes) = SumFunctionOnSet(comes, U)
    BY <2>4, <2>9, SumPart
  <2>12. SumFunctionOnSet(comes, U) = SumFunctionOnSet(f, B)
    BY <2>3, <2>8, <2>10, SumRenamed
  <2> QED
    BY <2>2, <2>9, <2>11, <2>12 DEF B
<1>4. \A i \in S : g[i] = p[i]
  OBVIOUS
<1> HIDE DEF part, g
<1>5. \A i \in S : g[i] = SumFunctionOnSet(f, {x \in A : part[x] = i})
  BY <1>3, <1>4
<1>6. SumFunctionOnSet(f, A) = SumFunctionOnSet(g, S)
  <2>1. /\ Summable(f, A) /\ IsFiniteSet(S) /\ \A x \in A : part[x] \in S
        /\ \A i \in S : g[i] = SumFunctionOnSet(f, {x \in A : part[x] = i})
    BY <1>1, <1>2, <1>5
  <2> QED
    BY ONLY <2>1, SumByParts
<1>7. Sought(p, S) \in Nat
  BY <1>1, AskedSum
<1> QED
  BY <1>2, <1>6, <1>7 DEF Sought, g

\* A receipt adds to the batches of a material what it adds to its total, however many of its
\* items are sent there.
LEMMA SerialReceive ==
  ASSUME BalanceInv, Located, StockInv', InFifo, \A m \in Materials : Agree(m),
         NEW t \in Transfers, NEW p, NEW turn, Receipt(t, p, turn)
  PROVE  InFifo' /\ \A m \in Materials : Agree(m)'
<1>1. ItemInv /\ StockInv
  BY DEF BalanceInv, ItemInv
<1>2. \A n : Gain(p, turn, n) \in Nat /\ (Mine(p, turn, n) = {} => Gain(p, turn, n) = 0)
             /\ \A x : Mine(p, turn, n) = {x} => Gain(p, turn, n) = Arrives(p)[x]
  <2>1. ItemInv /\ t \in Transfers /\ Receipt(t, p, turn)
    BY <1>1
  <2> QED
    BY ONLY <2>1, GainIs
<1>3. /\ ItemInv /\ StockInv /\ DOMAIN batches \subseteq DOMAIN batches'
      /\ \A b \in DOMAIN batches :
           /\ batches'[b].material = batches[b].material
           /\ batches'[b].left = batches[b].left + Gain(p, turn, b) /\ Gain(p, turn, b) \in Nat
           /\ batches'[b].status = IF Mine(p, turn, b) = {} THEN batches[b].status ELSE "ACTIVE"
           /\ Mine(p, turn, b) = {} => Gain(p, turn, b) = 0
  BY <1>1, <1>2, FilledOld
<1>4. \A n \in DOMAIN batches' \ DOMAIN batches :
        \E x \in Created(p) : /\ Mine(p, turn, n) = {x} /\ batches'[n].left = Arrives(p)[x]
                              /\ batches'[n].status = "ACTIVE"
  BY <1>3, FilledNew
<1>5. InFifo'
  <2> SUFFICES ASSUME NEW b \in DOMAIN batches'
               PROVE  /\ batches'[b].status \in {"ACTIVE", "DEPLETED"}
                      /\ batches'[b].status = "DEPLETED" => batches'[b].left = 0
    BY DEF InFifo
  <2>1. CASE b \in DOMAIN batches
    <3>1. /\ batches[b].status \in {"ACTIVE", "DEPLETED"}
          /\ batches[b].status = "DEPLETED" => batches[b].left = 0
      BY <2>1 DEF InFifo
    <3> QED
      BY <1>3, <2>1, <3>1
  <2>2. CASE b \notin DOMAIN batches
    BY <1>4, <2>2
  <2> QED
    BY <2>1, <2>2
<1>6. ASSUME NEW m \in Materials PROVE Agree(m)'
  <2> DEFINE S == {i \in DOMAIN p : Destination[i] = m}
             g == [n \in DOMAIN batches' |->
                     IF batches'[n].material = m THEN Gain(p, turn, n) ELSE 0]
  <2>1. /\ \A b \in DOMAIN batches' :
             /\ g[b] \in Nat
             /\ batches'[b].material # m => g[b] = 0
             /\ b \notin DOMAIN batches /\ batches'[b].material = m => batches'[b].left = g[b]
        /\ \A b \in DOMAIN batches :
             /\ batches'[b].material = batches[b].material
             /\ batches[b].material = m => batches'[b].left = batches[b].left + g[b]
    <3>1. \A b \in DOMAIN batches' \ DOMAIN batches : batches'[b].left = Gain(p, turn, b)
      BY <1>4, <1>2
    <3> QED
      BY <1>3, <1>2, <3>1
  <2>2. IsFiniteSet(DOMAIN batches') /\ Summable(g, DOMAIN batches')
    <3>1. DOMAIN batches' = 1..Len(batches') /\ Len(batches') \in Nat
      BY DEF StockInv
    <3>2. IsFiniteSet(DOMAIN batches')
      BY <3>1, FS_Interval
    <3> HIDE DEF g
    <3> QED
      BY <2>1, <3>2 DEF Summable
  <2>3. SumFunctionOnSet(g, DOMAIN batches') = Sought(p, S) /\ Sought(p, S) \in Nat
    <3> DEFINE A == {x \in Arrived(p) : x[1] \in S}
               f == [x \in A |-> Arrives(p)[x]]
               T == {n \in DOMAIN batches' : batches'[n].material = m /\ Mine(p, turn, n) # {}}
               h == [x \in A |-> Into(p, turn, x)]
    <3>1. /\ Summable(f, A) /\ SumFunctionOnSet(f, A) = Sought(p, S) /\ Sought(p, S) \in Nat
      <4>1. S \subseteq DOMAIN p /\ \A x \in A : f[x] = Arrives(p)[x]
        OBVIOUS
      <4> HIDE DEF S, f
      <4> QED
        BY <1>3, <4>1, BroughtIs
    <3>2. \A x \in A : /\ h[x] \in T /\ Mine(p, turn, h[x]) = {x} /\ g[h[x]] = f[x]
      <4> SUFFICES ASSUME NEW x \in Arrived(p), x[1] \in S
                   PROVE  /\ Into(p, turn, x) \in T /\ Mine(p, turn, Into(p, turn, x)) = {x}
                          /\ g[Into(p, turn, x)] = Arrives(p)[x]
        OBVIOUS
      <4> DEFINE n == Into(p, turn, x)
      <4>1. /\ n \in DOMAIN batches' /\ Mine(p, turn, n) = {x} /\ Gain(p, turn, n) = Arrives(p)[x]
            /\ batches'[n].material = Destination[x[1]]
        BY GoesInto
      <4>2. Destination[x[1]] = m
        OBVIOUS
      <4> HIDE DEF n, S
      <4> QED
        BY <4>1, <4>2 DEF n
    <3>3. \A n \in T : \E x \in A : h[x] = n
      <4> SUFFICES ASSUME NEW n \in T PROVE \E x \in A : h[x] = n
        OBVIOUS
      <4>1. PICK x \in Mine(p, turn, n) : TRUE
        OBVIOUS
      <4>2. x \in Arrived(p) /\ Into(p, turn, x) = n /\ x[1] \in DOMAIN p
        BY <1>3, ArrivedIs DEF Mine
      <4>3. Destination[x[1]] = m
        BY <4>2, GoesInto
      <4> QED
        BY <4>2, <4>3
    <3>4. \A n \in DOMAIN batches' \ T : g[n] = 0
      BY <1>2
    <3>5. T \subseteq DOMAIN batches' /\ DOMAIN h = A
      OBVIOUS
    <3>6. h \in [A -> T]
      BY <3>2
    <3> HIDE DEF g, A, T, h, f, S
    <3>7. \A x, y \in A : h[x] = h[y] => x = y
      <4> SUFFICES ASSUME NEW x \in A, NEW y \in A, h[x] = h[y] PROVE x = y
        OBVIOUS
      <4>1. Mine(p, turn, h[x]) = {x} /\ Mine(p, turn, h[x]) = {y}
        BY <3>2
      <4> QED
        BY <4>1
    <3>8. h \in Bijection(A, T)
      BY <3>2, <3>3, <3>6, <3>7 DEF Bijection, Injection, Surjection, IsInjective
    <3>9. Summable(g, T) /\ SumFunctionOnSet(g, DOMAIN batches') = SumFunctionOnSet(g, T)
      BY <2>2, <3>4, <3>5, SumPart, FS_Subset DEF Summable
    <3>10. SumFunctionOnSet(f, A) = SumFunctionOnSet(g, T)
      BY <3>1, <3>2, <3>8, <3>9, SumRenamed
    <3> QED
      BY <3>1, <3>9, <3>10
  <2>4. /\ stock'[m] = stock[m] + Sought(p, S) /\ stock[m] \in Int
        /\ stock[m] + Pending(m) = Total(Available(m)) /\ Pending(m)' = Pending(m) /\ Pending(m) \in Nat
    <3>1. stock' = [n \in Materials |-> stock[n] + Sought(p, {i \in DOMAIN p : Destination[i] = n})]
          /\ call' = call
      BY DEF Receipt, Receives
    <3> QED
      BY <1>3, <3>1, PendingTyped DEF Agree, StockInv, Pending, PendingOf
  <2> HIDE DEF g, S
  <2>5. /\ Total(Available(m))' \in Nat /\ Total(Available(m)) \in Nat
        /\ Total(Available(m))' = Total(Available(m)) + SumFunctionOnSet(g, DOMAIN batches')
    BY <1>3, <1>5, <2>1, TotalRises
  <2> QED
    BY <2>3, <2>4, <2>5 DEF Agree
<1> QED
  BY <1>5, <1>6

\* A batch stays of its material, so that what was received where it is sent to stays there.
LEMMA LocatedKept ==
  ASSUME ItemInv, Located, UNCHANGED allocations,
         \A b \in DOMAIN batches : batches'[b].material = batches[b].material
  PROVE  Located'
<1> SUFFICES ASSUME NEW i \in Items, NEW b \in DOMAIN allocations[i], allocations[i][b].batch # 0
             PROVE  batches'[allocations[i][b].batch].material = Destination[i]
  BY DEF Located
<1>1. allocations[i][b].batch \in DOMAIN batches
  BY DEF ItemInv, AllocationOk, StockInv
<1> QED
  BY <1>1 DEF Located

LEMMA LocatedDispatch ==
  ASSUME ItemInv, Located, NEW t \in Transfers, NEW p, NEW turn,
         (\A i \in ItemsOf(t) : p[i] \in Nat), Dispatched(t, p, turn)
  PROVE  Located'
<1> SUFFICES ASSUME NEW i \in Items, NEW b \in DOMAIN allocations'[i], allocations'[i][b].batch # 0
             PROVE  batches'[allocations'[i][b].batch].material = Destination[i]
  BY DEF Located
<1>1. i \notin ItemsOf(t)
  BY DEF Dispatched
<1>2. allocations'[i] = allocations[i]
  BY <1>1 DEF Dispatched
<1>3. allocations[i][b].batch \in DOMAIN batches
  BY <1>2 DEF ItemInv, AllocationOk, StockInv
<1>4. batches'[allocations[i][b].batch].material = batches[allocations[i][b].batch].material
  <2>1. \A n \in DOMAIN batches : batches'[n].material = batches[n].material
    BY DispatchStock DEF ItemInv
  <2> QED
    BY <1>3, <2>1
<1> QED
  BY <1>2, <1>4 DEF Located

LEMMA LocatedReceive ==
  ASSUME BalanceInv, Located, NEW t \in Transfers, NEW p, NEW turn, Receipt(t, p, turn)
  PROVE  Located'
<1> SUFFICES ASSUME NEW i \in Items, NEW b \in DOMAIN allocations'[i], allocations'[i][b].batch # 0
             PROVE  batches'[allocations'[i][b].batch].material = Destination[i]
  BY DEF Located
<1>1. b \in DOMAIN allocations[i] /\ ItemInv
  BY DEF Receipt, Receives, BalanceInv
<1>2. CASE <<i, b>> \in Arrived(p)
  <2>1. allocations'[i][b].batch = Into(p, turn, <<i, b>>)
    BY <1>1, <1>2, DeliversTo
  <2>2. batches'[Into(p, turn, <<i, b>>)].material = Destination[i]
    BY <1>2, GoesInto
  <2> QED
    BY <2>1, <2>2
<1>3. CASE <<i, b>> \notin Arrived(p)
  <2>1. allocations'[i][b].batch = allocations[i][b].batch
    BY <1>1, <1>3, DeliversTo
  <2>2. allocations[i][b].batch \in DOMAIN batches
    BY <1>1, <2>1 DEF ItemInv, AllocationOk, StockInv
  <2>3. batches'[allocations[i][b].batch].material = batches[allocations[i][b].batch].material
    BY <1>1, <2>2, FilledOld
  <2> QED
    BY <1>1, <2>1, <2>3 DEF Located
<1> QED
  BY <1>2, <1>3

\* At the start, the total of a material is what its opening batches hold.
LEMMA SerialInit == Init => SerialInv
<1> SUFFICES ASSUME Init PROVE SerialInv
  OBVIOUS
<1>1. BalanceInv /\ StockInv /\ DOMAIN batches = DOMAIN Opening
  BY BalanceInit, StockStarts DEF Init
<1>2. /\ batches = [n \in DOMAIN Opening |-> NewBatch(Opening[n][1], Opening[n][2], Opening[n][3])]
      /\ stock = [m \in Materials |->
           SumFunctionOnSet([n \in DOMAIN Opening |-> Opening[n][2]],
                            {n \in DOMAIN Opening : Opening[n][1] = m})]
      /\ call = [c \in Calls |-> NoCall]
  BY DEF Init, StockInit
<1>3. Located
  BY DEF Init, TransferInit, Located
<1>4. \A c \in Calls : KindOk(c) /\ call[c].pc = "new"
  BY <1>2 DEF KindOk, NoCall
<1>5. /\ \A b \in DOMAIN batches : /\ batches[b].status = "ACTIVE" /\ batches[b].left = Opening[b][2]
                                   /\ batches[b].material = Opening[b][1]
      /\ InFifo
  BY <1>1, <1>2 DEF InFifo, NewBatch
<1>6. ASSUME NEW m \in Materials PROVE Agree(m)
  <2> DEFINE S == {n \in DOMAIN Opening : Opening[n][1] = m}
             f == [n \in DOMAIN Opening |-> Opening[n][2]]
             a == Available(m)
             z == [c \in Calls |-> PendingOf(c, m)]
  <2>1. \A c \in Calls : z[c] = 0
    BY <1>4 DEF PendingOf
  <2>2. Pending(m) = SumFunctionOnSet(z, Calls) /\ IsFiniteSet(Calls)
    BY StockAssumption DEF Pending
  <2>3. a = [b \in DOMAIN batches |-> IF batches[b].material = m THEN batches[b].left ELSE 0]
    BY <1>1, <1>5, FifoIs
  <2>4. stock[m] = SumFunctionOnSet(f, S)
    BY <1>2
  <2>5. /\ S \subseteq DOMAIN batches /\ \A n \in S : a[n] = f[n]
        /\ \A n \in DOMAIN batches \ S : a[n] = 0
    BY <1>1, <1>5, <2>3
  <2> HIDE DEF S, f, a, z
  <2>6. Summable(a, DOMAIN batches) /\ Total(a) = SumFunctionOnSet(a, DOMAIN batches) /\ Total(a) \in Nat
    BY <1>1, <2>3, LeftIs DEF StockInv
  <2>7. SumFunctionOnSet(a, DOMAIN batches) = SumFunctionOnSet(a, S)
    BY <2>5, <2>6, SumPart
  <2>8. Summable(a, S)
    BY <2>5, <2>6, FS_Subset DEF Summable
  <2>9. SumFunctionOnSet(a, S) = SumFunctionOnSet(f, S)
    BY <2>5, <2>8, SumSame
  <2>10. Pending(m) = 0
    BY <2>1, <2>2, SumZero
  <2> QED
    BY <2>4, <2>6, <2>7, <2>9, <2>10 DEF Agree, a
<1> QED
  BY <1>1, <1>3, <1>4, <1>5, <1>6 DEF SerialInv

LEMMA SerialNext == SerialInv /\ [Next]_vars => SerialInv'
<1> SUFFICES ASSUME SerialInv, [Next]_vars
             PROVE  SerialInv'
  OBVIOUS
<1>1. BalanceInv /\ BalanceInv' /\ ItemInv /\ StockInv /\ StockInv'
  BY BalanceNext DEF SerialInv, BalanceInv, ItemInv
<1>2. ASSUME UNCHANGED call PROVE (\A c \in Calls : KindOk(c)') /\ (Serial' <=> Serial)
  BY <1>2 DEF SerialInv, KindOk, Serial
<1>3. ASSUME UNCHANGED <<stockVars, allocations>> PROVE SerialInv'
  <2>1. Located'
    BY <1>1, <1>3, LocatedKept DEF SerialInv, stockVars
  <2>2. /\ UNCHANGED call
        /\ InFifo' <=> InFifo
        /\ \A m : Agree(m)' <=> Agree(m)
    BY <1>3 DEF stockVars, InFifo, Agree, Pending, PendingOf, Available
  <2> QED
    BY <1>1, <1>2, <2>1, <2>2 DEF SerialInv
<1>4. CASE \E t \in Transfers : TransferStep(t)
  <2> PICK t \in Transfers : TransferStep(t)
    BY <1>4
  <2>1. CASE Approve(t) \/ Reject(t) \/ Cancel(t)
    BY <1>3, <2>1 DEF Approve, Reject, Cancel, Move
  <2>2. CASE \E p \in Requests(t, Asked) : \E turn \in Turns(DOMAIN p) :
                 DOMAIN p = ItemsOf(t) /\ Dispatch(t, p, turn)
    <3>1. PICK p \in Requests(t, Asked) :
            \E turn \in Turns(DOMAIN p) : DOMAIN p = ItemsOf(t) /\ Dispatch(t, p, turn)
      BY <2>2
    <3>2. PICK turn \in Turns(DOMAIN p) : DOMAIN p = ItemsOf(t) /\ Dispatch(t, p, turn)
      BY <3>1
    <3>3. (\A i \in ItemsOf(t) : p[i] \in Nat) /\ Dispatched(t, p, turn)
      BY <3>2, RequestsAsked, TransfersAssumption, DispatchDoes DEF ItemsOf
    <3>4. UNCHANGED call
      BY <3>3 DEF Dispatched
    <3>5. Located'
      BY <1>1, <3>3, LocatedDispatch DEF SerialInv
    <3>6. Serial => InFifo' /\ \A m \in Materials : Agree(m)'
      BY <1>1, <3>3, SerialDispatch DEF SerialInv
    <3> QED
      BY <1>1, <1>2, <3>4, <3>5, <3>6 DEF SerialInv
  <2>3. CASE \E k \in Keys, p \in Requests(t, Asked) : \E turn \in Turns(DOMAIN p) :
                 Receive(t, k, p, turn)
    <3> PICK p, turn : Receipt(t, p, turn)
      BY <2>3, ReceiveIsReceipt
    <3>1. UNCHANGED call
      BY DEF Receipt, Receives
    <3>2. Located'
      BY <1>1, LocatedReceive DEF SerialInv
    <3>3. Serial => InFifo' /\ \A m \in Materials : Agree(m)'
      BY <1>1, SerialReceive DEF SerialInv
    <3> QED
      BY <1>1, <1>2, <3>1, <3>2, <3>3 DEF SerialInv
  <2>4. CASE \E k \in Keys, p \in Requests(t, Lines) : ResolveVariance(t, k, p)
    BY <1>3, <2>4 DEF ResolveVariance
  <2> QED
    BY <2>1, <2>2, <2>3, <2>4 DEF TransferStep
<1>5. CASE \E c \in Calls : StockStep(c) /\ UNCHANGED transferVars
  <2> PICK c \in Calls : StockStep(c) /\ UNCHANGED transferVars
    BY <1>5
  <2>1. /\ \A d \in Calls : KindOk(d)'
        /\ \A d \in Calls \ {c} : call'[d] = call[d]
        /\ Serial' => Serial /\ (Deduct(c) \/ PurchaseBatch(c) \/ PurchaseStock(c))
    BY <1>1, KindStep DEF SerialInv
  <2>2. Kept
    BY <1>1, StockSteps
  <2>3. Located'
    BY <1>1, <2>2, LocatedKept DEF SerialInv, transferVars, Kept
  <2>4. ASSUME Serial' PROVE InFifo' /\ \A m \in Materials : Agree(m)'
    <3>1. InFifo /\ \A m \in Materials : Agree(m)
      BY <2>1, <2>4 DEF SerialInv
    <3> QED
      BY <1>1, <2>1, <2>4, <3>1, SerialDeduct, SerialPurchase, SerialTotal
  <2> QED
    BY <1>1, <2>1, <2>3, <2>4 DEF SerialInv
<1>6. CASE UNCHANGED vars
  BY <1>3, <1>6 DEF vars, transferVars
<1> QED
  BY <1>4, <1>5, <1>6 DEF Next

\* The total of a material is the sum of its batches as long as only sales, purchases and
\* transfers have touched it: a purchase is the one call that shows a batch before its total, and
\* a transfer takes from both, and brings to both, the same units.
THEOREM TotalFollowsBatches == Spec => []StockIsBatchesWhenSerial
<1>1. ASSUME SerialInv
      PROVE  StockIsBatchesWhenSerial
  <2> SUFFICES ASSUME \A c \in Calls : call[c].kind \in {"none", "deduct", "purchase"}, Quiet,
                      NEW m \in Materials
               PROVE  stock[m] = Total(Available(m))
    BY DEF StockIsBatchesWhenSerial, StockIsBatches
  <2>1. Serial
    BY DEF Serial, Quiet
  <2>2. Agree(m)
    BY <1>1, <2>1 DEF SerialInv
  <2> DEFINE z == [c \in Calls |-> PendingOf(c, m)]
  <2>3. \A c \in Calls : z[c] = 0
    BY DEF PendingOf, Quiet
  <2>4. Pending(m) = SumFunctionOnSet(z, Calls) /\ IsFiniteSet(Calls)
    BY StockAssumption DEF Pending
  <2> HIDE DEF z
  <2>5. Pending(m) = 0
    BY <2>3, <2>4, SumZero
  <2>6. stock[m] \in Int
    BY <1>1 DEF SerialInv, BalanceInv, ItemInv, StockInv
  <2> QED
    BY <2>2, <2>5, <2>6 DEF Agree
<1> QED
  BY SerialInit, SerialNext, <1>1, PTL DEF Spec
=============================================================================
