-------------------------- MODULE InterVenueTransfer --------------------------
(***************************************************************************)
(* Transfers of raw materials between two venues.  A transfer is asked     *)
(* for or pushed, approved, dispatched from the source's oldest batches,   *)
(* received in parts as batches of the destination, and what never arrives *)
(* is resolved as a variance.  Every operation is one Serializable         *)
(* transaction that locks the transfer, so that it happens at once or not  *)
(* at all, among the steps of the calls of StockBatches.                   *)
(*                                                                         *)
(* A request that is refused, or a replay that is answered from the record *)
(* changes nothing, and is no step.                                        *)
(***************************************************************************)
EXTENDS StockBatches

CONSTANTS
  Transfers,    \* InterVenueTransfer rows
  Pushed,       \* those created in mode PUSH
  Items,        \* InterVenueTransferItem rows
  TransferOf,   \* the transfer of an item
  Source,       \* its raw material at the source venue
  Destination,  \* and at the destination
  Requested,    \* its quantityRequested
  Keys          \* the idempotency keys that clients choose

ASSUME TransfersAssumption ==
  /\ Pushed \subseteq Transfers
  /\ IsFiniteSet(Items) /\ Items \subseteq Nat
  /\ TransferOf \in [Items -> Transfers]
  /\ \A t \in Transfers : \E i \in Items : TransferOf[i] = t
  /\ Source \in [Items -> Materials] /\ Destination \in [Items -> Materials]
  /\ Requested \in [Items -> Nat \ {0}]

\* What createInterVenueTransfer asks of the items: the venues of a transfer are two, each with
\* materials of its own, and no pair of materials comes twice.  Two items may share one of their
\* materials, and what one transfer brings another may send on, or back.
ASSUME MaterialsAssumption ==
  \A i, j \in Items : TransferOf[i] = TransferOf[j] =>
    /\ Source[i] # Destination[j]
    /\ i # j => Source[i] # Source[j] \/ Destination[i] # Destination[j]

VARIABLES
  status,       \* InterVenueTransfer.status
  dispatched,   \* quantityDispatched of each item
  received,     \* quantityReceived
  resolved,     \* quantityVarianceResolved
  allocations,  \* of each item, by source batch: quantity, received, destination batch
  receipts,     \* receipts of each transfer, by key: the request
  resolutions,  \* variance resolutions, likewise
  lossCost      \* costImpact of the variance lines of each item

transferVars == <<status, dispatched, received, resolved, allocations, receipts,
                  resolutions, lossCost>>
vars == <<stockVars, transferVars>>

-----------------------------------------------------------------------------
Reasons == {"NOT_DISPATCHED", "LOST"}

ItemsOf(t) == {i \in Items : TransferOf[i] = t}

SumOver(S, f(_)) == SumFunctionOnSet([x \in S |-> f(x)], S)

\* The turns in which a loop may come to the items: as the database lists those of a transfer,
\* or the request its own.
Turns(S) == Injection(S, 1..Cardinality(S))

\* Variant: a rejected request may still be approved.
AllowedAfterReject(t, action) ==
  \/ action \in {"APPROVE", "REJECT", "CANCEL"} /\ status[t] = "REQUESTED"
  \/ action \in {"DISPATCH", "CANCEL"} /\ status[t] = "APPROVED"
  \/ action \in {"RECEIVE", "RESOLVE_VARIANCE"}
       /\ status[t] \in {"IN_TRANSIT", "PARTIALLY_RECEIVED"}
  \/ action = "APPROVE" /\ status[t] = "REJECTED"

\* assertTransferTransition
Allowed(t, action) ==
  \/ action \in {"APPROVE", "REJECT", "CANCEL"} /\ status[t] = "REQUESTED"
  \/ action \in {"DISPATCH", "CANCEL"} /\ status[t] = "APPROVED"
  \/ action \in {"RECEIVE", "RESOLVE_VARIANCE"}
       /\ status[t] \in {"IN_TRANSIT", "PARTIALLY_RECEIVED"}

\* assertTransferQuantities
QuantitiesOk(i, sent, arrived, variance) ==
  /\ sent <= Requested[i]
  /\ arrived <= sent
  /\ variance <= Requested[i] - arrived

\* Variant: only what arrived counts.
FullyAccountedByArrival(t, arrived, variance) ==
  \A i \in ItemsOf(t) : arrived[i] = Requested[i]

FullyAccounted(t, arrived, variance) ==
  \A i \in ItemsOf(t) : arrived[i] + variance[i] = Requested[i]

\* deriveTransferCompletionStatus
DerivedStatus(t, arrived, variance) ==
  IF FullyAccounted(t, arrived, variance)
  THEN IF \E i \in ItemsOf(t) : variance[i] > 0 THEN "COMPLETED_WITH_VARIANCE"
       ELSE "COMPLETED"
  ELSE IF \E i \in ItemsOf(t) : arrived[i] > 0 THEN "PARTIALLY_RECEIVED"
       ELSE "IN_TRANSIT"

TransferInit ==
  /\ status = [t \in Transfers |-> IF t \in Pushed THEN "APPROVED" ELSE "REQUESTED"]
  /\ dispatched = [i \in Items |-> 0]
  /\ received = [i \in Items |-> 0]
  /\ resolved = [i \in Items |-> 0]
  /\ allocations = [i \in Items |-> <<>>]
  /\ receipts = [t \in Transfers |-> <<>>]
  /\ resolutions = [t \in Transfers |-> <<>>]
  /\ lossCost = [i \in Items |-> 0]

Init == StockInit /\ TransferInit

-----------------------------------------------------------------------------
(* Agreement.                                                               *)

Move(t, action, to) ==
  /\ Allowed(t, action)
  /\ status' = [status EXCEPT ![t] = to]
  /\ UNCHANGED <<stockVars, dispatched, received, resolved, allocations, receipts,
                 resolutions, lossCost>>

Approve(t) == Move(t, "APPROVE", "APPROVED")

Reject(t) == Move(t, "REJECT", "REJECTED")

Cancel(t) == Move(t, "CANCEL", "CANCELLED")

-----------------------------------------------------------------------------
(* dispatchInterVenueTransfer: p is the quantity of every item, which may   *)
(* fall short of the one requested.  Each item finds what those before it   *)
(* in the transaction have left.                                            *)

\* Variant: every item finds the stock as it was.
AheadNone(p, turn, i) == 0

\* What the items before it draw from the material of an item.
Ahead(p, turn, i) ==
  SumOver({j \in DOMAIN p : Source[j] = Source[i] /\ turn[j] < turn[i]}, LAMBDA j : p[j])

Dispatch(t, p, turn) ==
  LET drawn(i) == Draw(Available(Source[i]), Ahead(p, turn, i), p[i])
      leaves(b) == SumOver(ItemsOf(t), LAMBDA i : drawn(i)[b])
      used(i) == {b \in DOMAIN batches : drawn(i)[b] > 0} IN
  /\ Allowed(t, "DISPATCH")
  /\ \A i \in ItemsOf(t) :
       /\ QuantitiesOk(i, p[i], 0, 0)
       /\ Ahead(p, turn, i) + p[i] <= stock[Source[i]]
       /\ Fits(Available(Source[i]), Ahead(p, turn, i), p[i]) /\ Lockable(Source[i])
  /\ status' = [status EXCEPT ![t] = "IN_TRANSIT"]
  /\ dispatched' = [i \in Items |-> IF i \in ItemsOf(t) THEN p[i] ELSE dispatched[i]]
  /\ allocations' = [i \in Items |->
       IF i \in ItemsOf(t)
       THEN [b \in used(i) |-> [quantity |-> drawn(i)[b], received |-> 0, batch |-> 0]]
       ELSE allocations[i]]
  /\ batches' = [b \in DOMAIN batches |-> Drawn(batches[b], leaves(b))]
  /\ stock' = [m \in Materials |->
       stock[m] - SumOver({i \in ItemsOf(t) : Source[i] = m}, LAMBDA i : p[i])]
  /\ UNCHANGED <<call, received, resolved, receipts, resolutions, lossCost>>

-----------------------------------------------------------------------------
(* receiveInterVenueTransfer: p is the quantity of some items, in turn.     *)

\* What is still in transit of each allocation of an item.
InTransit(i) ==
  [b \in DOMAIN allocations[i] |-> allocations[i][b].quantity - allocations[i][b].received]

\* The lines of an item with one of the reasons, summed.
ResolvedFor(i, reasons) ==
  LET lines == {k \in DOMAIN resolutions[TransferOf[i]] :
                  /\ i \in DOMAIN resolutions[TransferOf[i]][k]
                  /\ resolutions[TransferOf[i]][k][i].reason \in reasons}
  IN SumOver(lines, LAMBDA k : resolutions[TransferOf[i]][k][i].quantity)

Lost(i) == ResolvedFor(i, Reasons \ {"NOT_DISPATCHED"})

\* Variant: a key is not looked up among the earlier ones.
ReplayedNever(requests, k) == FALSE

\* A receipt, or a resolution, of the transfer already has the key.
Replayed(requests, k) == k \in DOMAIN requests

\* Variant: a receipt may take the units that were resolved as lost.
ToSkipNone(i) == 0

\* previouslyResolvedInTransit, of a receipt
ToSkip(i) == Lost(i)

\* allocateReceiptFIFO
Arriving(i, q) == Draw(InTransit(i), ToSkip(i), q)

\* Variant: each receipt creates its batches.
DestinationBatchOfReceipt(i, b) == 0

\* The batch that an earlier receipt created for the allocation, or none.
DestinationBatch(i, b) == allocations[i][b].batch

Receive(t, k, p, turn) ==
  LET pairs == {x \in (DOMAIN p) \X (DOMAIN batches) : x[2] \in DOMAIN allocations[x[1]]}
      arrives == [x \in pairs |-> Arriving(x[1], p[x[1]])[x[2]]]
      lines == {x \in DOMAIN arrives : arrives[x] > 0}
      creates == {x \in lines : DestinationBatch(x[1], x[2]) = 0}
      rank(x) == Len(batches) + Cardinality({y \in creates :
                   turn[y[1]] < turn[x[1]] \/ (y[1] = x[1] /\ y[2] <= x[2])})
      into(x) == IF x \in creates THEN rank(x) ELSE DestinationBatch(x[1], x[2])
      newReceived == [i \in Items |-> IF i \in DOMAIN p THEN received[i] + p[i] ELSE received[i]] IN
  /\ Allowed(t, "RECEIVE") /\ ~Replayed(receipts[t], k)
  /\ \A i \in DOMAIN p : Fits(InTransit(i), ToSkip(i), p[i])
  /\ \A x \in lines \ creates : ~Locked(into(x))
  /\ \A i \in DOMAIN p : QuantitiesOk(i, dispatched[i], newReceived[i], resolved[i])
  /\ receipts' = [receipts EXCEPT ![t] = [j \in DOMAIN @ \cup {k} |-> IF j = k THEN p ELSE @[j]]]
  /\ received' = newReceived
  /\ allocations' = [i \in Items |-> [b \in DOMAIN allocations[i] |->
       IF <<i, b>> \in lines
       THEN [allocations[i][b] EXCEPT !.received = @ + arrives[<<i, b>>], !.batch = into(<<i, b>>)]
       ELSE allocations[i][b]]]
  /\ batches' = [n \in 1..(Len(batches) + Cardinality(creates)) |->
       LET mine == {x \in lines : into(x) = n} IN
       CASE mine = {} -> batches[n]
         [] mine # {} /\ n <= Len(batches) ->
              LET q == SumOver(mine, LAMBDA x : arrives[x]) IN
              [batches[n] EXCEPT !.initial = @ + q, !.left = @ + q, !.status = "ACTIVE"]
         [] OTHER ->
              LET x == CHOOSE y \in mine : TRUE IN
              NewBatch(Destination[x[1]], arrives[x], batches[x[2]].cost)]
  /\ stock' = [m \in Materials |->
       stock[m] + SumOver({i \in DOMAIN p : Destination[i] = m}, LAMBDA i : p[i])]
  /\ status' = [status EXCEPT ![t] = DerivedStatus(t, newReceived, resolved)]
  /\ UNCHANGED <<call, dispatched, resolved, resolutions, lossCost>>

-----------------------------------------------------------------------------
(* resolveInterVenueTransferVariance: p is a quantity and a reason for some *)
(* items.                                                                   *)

\* calculateVarianceCostFIFO
VarianceCost(i, q) ==
  LET gone == Draw(InTransit(i), Lost(i), q)
  IN SumOver(DOMAIN gone, LAMBDA b : gone[b] * batches[b].cost)

\* What may still be resolved as never dispatched.
NotDispatched(i) == Requested[i] - dispatched[i] - ResolvedFor(i, {"NOT_DISPATCHED"})

Resolvable(i, line) ==
  /\ line.quantity > 0
  /\ IF line.reason = "NOT_DISPATCHED" THEN line.quantity <= NotDispatched(i)
     ELSE Fits(InTransit(i), Lost(i), line.quantity)

ResolveVariance(t, k, p) ==
  LET newResolved == [i \in Items |-> IF i \in DOMAIN p THEN resolved[i] + p[i].quantity
                                      ELSE resolved[i]] IN
  /\ Allowed(t, "RESOLVE_VARIANCE") /\ ~Replayed(resolutions[t], k)
  /\ \A i \in DOMAIN p : /\ QuantitiesOk(i, dispatched[i], received[i], newResolved[i])
                         /\ Resolvable(i, p[i])
  /\ resolutions' = [resolutions EXCEPT ![t] =
                       [j \in DOMAIN @ \cup {k} |-> IF j = k THEN p ELSE @[j]]]
  /\ resolved' = newResolved
  /\ lossCost' = [i \in Items |->
       IF i \in DOMAIN p /\ p[i].reason # "NOT_DISPATCHED"
       THEN lossCost[i] + VarianceCost(i, p[i].quantity) ELSE lossCost[i]]
  /\ status' = [status EXCEPT ![t] = DerivedStatus(t, received, newResolved)]
  /\ UNCHANGED <<stockVars, dispatched, received, allocations, receipts>>

-----------------------------------------------------------------------------
\* The quantities a request may ask of an item.
Asked(i) == 1..Requested[i]

Requests(t, Line(_)) ==
  UNION {{p \in [S -> UNION {Line(i) : i \in S}] : \A i \in S : p[i] \in Line(i)} :
           S \in SUBSET ItemsOf(t) \ {{}}}

Lines(i) == [quantity : Asked(i), reason : Reasons]

TransferStep(t) ==
  \/ Approve(t) \/ Reject(t) \/ Cancel(t)
  \/ \E p \in Requests(t, Asked) : \E turn \in Turns(DOMAIN p) :
       DOMAIN p = ItemsOf(t) /\ Dispatch(t, p, turn)
  \/ \E k \in Keys, p \in Requests(t, Asked) : \E turn \in Turns(DOMAIN p) :
       Receive(t, k, p, turn)
  \/ \E k \in Keys, p \in Requests(t, Lines) : ResolveVariance(t, k, p)

Next ==
  \/ \E t \in Transfers : TransferStep(t)
  \/ \E c \in Calls : StockStep(c) /\ UNCHANGED transferVars

Spec == Init /\ [][Next]_vars

-----------------------------------------------------------------------------
(* Properties.                                                              *)

Statuses == {"REQUESTED", "APPROVED", "IN_TRANSIT", "PARTIALLY_RECEIVED", "COMPLETED",
             "COMPLETED_WITH_VARIANCE", "REJECTED", "CANCELLED"}

\* The columns of the transfers and their items.
RowTypeOK ==
  /\ status \in [Transfers -> Statuses]
  /\ dispatched \in [Items -> Nat]
  /\ received \in [Items -> Nat]
  /\ resolved \in [Items -> Nat]
  /\ \A i \in Items : QuantitiesOk(i, dispatched[i], received[i], resolved[i])

\* Types, and no batch or total of an allocation below zero.
TypeOK ==
  /\ RowTypeOK
  /\ stock \in [Materials -> Int]
  /\ batches \in Seq(BatchType)
  /\ lossCost \in [Items -> Nat]
  /\ \A i \in Items : \A b \in DOMAIN allocations[i] :
       /\ b \in DOMAIN batches
       /\ allocations[i][b] \in [quantity : Nat \ {0}, received : Nat, batch : 0..Len(batches)]
       /\ InTransit(i)[b] >= 0

\* A receipt that a client sends again with its key counts once: what an item received is
\* the sum of the recorded receipts, and what was resolved the sum of the resolutions.
CountedOncePerKey ==
  \A i \in Items :
    LET got == receipts[TransferOf[i]] IN
    /\ received[i] = SumOver({k \in DOMAIN got : i \in DOMAIN got[k]}, LAMBDA k : got[k][i])
    /\ resolved[i] = ResolvedFor(i, Reasons)

\* No unit is in two places: what left a batch was sold or dispatched from it, and what a
\* destination batch was created with is what its allocation received, however sales,
\* expiries, quarantines and receipts interleave.
BatchesBalance ==
  /\ \A b \in DOMAIN batches :
       batches[b].initial = batches[b].left + batches[b].used
         + SumOver({i \in Items : b \in DOMAIN allocations[i]},
                   LAMBDA i : allocations[i][b].quantity)
  /\ \A i \in Items : \A b \in DOMAIN allocations[i] :
       LET x == allocations[i][b] IN
       x.received = IF x.batch = 0 THEN 0 ELSE batches[x.batch].initial

Closed(t) == status[t] \in {"COMPLETED", "COMPLETED_WITH_VARIANCE"}

Open(t) == status[t] \in {"IN_TRANSIT", "PARTIALLY_RECEIVED"}

\* A transfer closes with no unit forgotten on the way: what is still in transit of its
\* allocations is what was resolved as lost, and what was not sent as not dispatched.
ClosedIsAccounted ==
  \A i \in Items : Closed(TransferOf[i]) =>
    /\ Total(InTransit(i)) = Lost(i)
    /\ NotDispatched(i) = 0

\* The loss charged to the variances of a closed transfer is the cost of the very units that
\* never arrived, whatever the order of receipts and resolutions.
LossIsPriced ==
  \A i \in Items : Closed(TransferOf[i]) =>
    lossCost[i] = SumOver(DOMAIN allocations[i], LAMBDA b : InTransit(i)[b] * batches[b].cost)

\* An open transfer can always go on: some unit of it may still be received, or resolved.
OpenHasWork ==
  \A t \in Transfers : Open(t) =>
    \E i \in ItemsOf(t) : \/ Fits(InTransit(i), ToSkip(i), 1)
                           \/ \E reason \in Reasons :
                                Resolvable(i, [quantity |-> 1, reason |-> reason])

\* A transfer closes when its last unit is accounted for, not before and not never.
ClosesWhenAccounted == ClosedIsAccounted /\ OpenHasWork

phase ==
  [t \in Transfers |->
     CASE status[t] = "REQUESTED"                -> "asked"
       [] status[t] = "APPROVED"                 -> "agreed"
       [] status[t] \in {"REJECTED", "CANCELLED"} -> "dropped"
       [] Open(t)                                -> "moving"
       [] Closed(t)                              -> "closed"]

Ledger == INSTANCE TransferLedger
            WITH sent <- dispatched, arrived <- received, written <- resolved

\* The transfers implement the abstract ledger: sent whole and once, nothing arrives that was
\* not sent, closed with the last unit accounted for and only then, and final from there on.
ImplementsLedger == Ledger!Spec
=============================================================================
