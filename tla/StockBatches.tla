----------------------------- MODULE StockBatches -----------------------------
(***************************************************************************)
(* The stock of raw materials, kept twice: RawMaterial.currentStock is a   *)
(* total, and StockBatch rows hold the same quantity batch by batch, drawn *)
(* oldest first.                                                           *)
(*                                                                         *)
(* deductStockFIFO is a Serializable transaction that locks every ACTIVE   *)
(* batch of its material: it commits at once, or leaves nothing.  The      *)
(* other calls run under READ COMMITTED.  adjustStock reads the total      *)
(* before its transaction, receivePurchaseOrder commits the batch before   *)
(* the total, markExpiredBatches and quarantineBatch hold the row of one   *)
(* batch while they read and write the total.                              *)
(***************************************************************************)
EXTENDS Integers, Sequences, FiniteSets, FiniteSetsExt, Functions

CONSTANTS
  Materials,   \* RawMaterial rows, each of one venue
  Opening,     \* the StockBatch rows at the start: <<material, quantity, cost>>
  Calls,       \* HTTP calls and job runs on the stock, each of the kind it chooses
  Quantities,  \* what one of them deducts or adds
  Perishable   \* bound: materials of which a batch may be found past its date

ASSUME StockAssumption ==
  /\ IsFiniteSet(Materials) /\ IsFiniteSet(Calls) /\ Perishable \subseteq Materials
  /\ Opening \in Seq(Materials \X (Nat \ {0}) \X Nat)
  /\ Quantities \subseteq Nat \ {0}

VARIABLES
  stock,    \* RawMaterial.currentStock
  batches,  \* the StockBatch rows, in order of receivedDate
  call      \* where each call stands, and what it read

stockVars == <<stock, batches, call>>

-----------------------------------------------------------------------------
\* `used' adds up the batch's USAGE movements.
NewBatch(m, q, cost) ==
  [material |-> m, initial |-> q, left |-> q, used |-> 0, cost |-> cost,
   status |-> "ACTIVE"]

NoCall == [pc |-> "new", kind |-> "none", material |-> "none", quantity |-> 0,
           batch |-> 0, wasActive |-> FALSE, due |-> {}, seen |-> 0, failed |-> FALSE]

\* What FIFO may draw from each batch.
Available(m) ==
  [b \in DOMAIN batches |->
     IF batches[b].material = m /\ batches[b].status = "ACTIVE" THEN batches[b].left ELSE 0]

Total(avail) == SumFunctionOnSet(avail, DOMAIN avail)

Before(avail, b) == SumFunctionOnSet(avail, {x \in DOMAIN avail : x < b})

\* What the loops over the batches take from each one: laid end to end, the part of it
\* that falls in the q units after the first skip.
Draw(avail, skip, q) ==
  [b \in DOMAIN avail |->
     Max({0, Min({Before(avail, b) + avail[b], skip + q}) - Max({Before(avail, b), skip})})]

Fits(avail, skip, q) == q > 0 /\ skip + q <= Total(avail)

\* The row of a batch after q units leave it.
Drawn(batch, q) ==
  IF q = 0 THEN batch
  ELSE [batch EXCEPT !.left = @ - q,
                     !.status = IF batch.left = q THEN "DEPLETED" ELSE "ACTIVE"]

\* The row lock that an open transaction holds on the batch it has updated.
Locked(b) ==
  \E c \in Calls : call[c].pc \in {"expiring", "quarantining"} /\ call[c].batch = b

\* FOR UPDATE on the ACTIVE batches of a material finds none of them locked.
Lockable(m) == \A b \in DOMAIN batches : Available(m)[b] > 0 => ~Locked(b)

Finish(c) == call' = [call EXCEPT ![c].pc = "done"]

StockInit ==
  /\ batches = [n \in DOMAIN Opening |-> NewBatch(Opening[n][1], Opening[n][2], Opening[n][3])]
  /\ stock = [m \in Materials |->
       SumFunctionOnSet([n \in DOMAIN Opening |-> Opening[n][2]],
                        {n \in DOMAIN Opening : Opening[n][1] = m})]
  /\ call = [c \in Calls |-> NoCall]

-----------------------------------------------------------------------------
(* deductStockFIFO: a sale, or a negative adjustment.                       *)

\* Short of stock it is refused; with a batch locked (NOWAIT) and its tries spent, too.
Deduct(c) ==
  \E m \in Materials, q \in Quantities :
    /\ call[c].pc = "new"
    /\ call' = [call EXCEPT ![c].pc = "done", ![c].kind = "deduct"]
    /\ IF Fits(Available(m), 0, q) /\ Lockable(m)
       THEN LET taken == Draw(Available(m), 0, q) IN
            /\ batches' = [b \in DOMAIN batches |->
                 [Drawn(batches[b], taken[b]) EXCEPT !.used = @ + taken[b]]]
            /\ stock' = [stock EXCEPT ![m] = @ - q]
       ELSE UNCHANGED <<stock, batches>>

-----------------------------------------------------------------------------
(* adjustStock, adding: the new total comes from a read before the          *)
(* transaction that creates the batch.                                      *)

AdjustRead(c) ==
  \E m \in Materials, q \in Quantities :
    /\ call[c].pc = "new"
    /\ call' = [call EXCEPT ![c].pc = "adjust", ![c].kind = "adjust", ![c].material = m,
                            ![c].quantity = q, ![c].seen = stock[m]]
    /\ UNCHANGED <<stock, batches>>

AdjustWrite(c) ==
  /\ call[c].pc = "adjust"
  /\ Finish(c)
  /\ batches' = Append(batches, NewBatch(call[c].material, call[c].quantity, 1))
  /\ stock' = [stock EXCEPT ![call[c].material] = call[c].seen + call[c].quantity]

-----------------------------------------------------------------------------
(* receivePurchaseOrder: the batch, then a transaction with the total.      *)

PurchaseBatch(c) ==
  \E m \in Materials, q \in Quantities :
    /\ call[c].pc = "new"
    /\ call' = [call EXCEPT ![c].pc = "purchase", ![c].kind = "purchase",
                            ![c].material = m, ![c].quantity = q, ![c].seen = stock[m]]
    /\ batches' = Append(batches, NewBatch(m, q, 1))
    /\ UNCHANGED stock

\* Variant: the total that was read, plus the quantity.
PurchasedFromRead(c) == call[c].seen + call[c].quantity

\* An increment, not an assignment.
Purchased(c) == stock[call[c].material] + call[c].quantity

PurchaseStock(c) ==
  /\ call[c].pc = "purchase"
  /\ Finish(c)
  /\ stock' = [stock EXCEPT ![call[c].material] = Purchased(c)]
  /\ UNCHANGED batches

-----------------------------------------------------------------------------
(* markExpiredBatches: a list read outside, and one transaction per batch.  *)

ExpireScan(c) ==
  \E due \in SUBSET {b \in DOMAIN batches : /\ batches[b].status = "ACTIVE"
                                            /\ batches[b].material \in Perishable} \ {{}} :
    /\ call[c].pc = "new"
    /\ call' = [call EXCEPT ![c].pc = "expire", ![c].kind = "expire", ![c].due = due]
    /\ UNCHANGED <<stock, batches>>

NextDue(due) == IF due = {} THEN "done" ELSE "expire"

\* The conditional claim, then the remainder and the total.  A batch that is no longer
\* ACTIVE is skipped.
ExpireClaim(c) ==
  \E b \in call[c].due :
    /\ call[c].pc = "expire" /\ ~Locked(b)
    /\ call' = [call EXCEPT
         ![c].pc = IF batches[b].status = "ACTIVE" THEN "expiring" ELSE NextDue(call[c].due \ {b}),
         ![c].due = @ \ {b}, ![c].batch = b, ![c].seen = stock[batches[b].material]]
    /\ UNCHANGED <<stock, batches>>

\* The batch leaves FIFO with its remainder, and so does the total that was read.
ExpireWrite(c) ==
  LET b == call[c].batch IN
  /\ call[c].pc = "expiring"
  /\ call' = [call EXCEPT ![c].pc = NextDue(call[c].due)]
  /\ batches' = [batches EXCEPT ![b].status = "EXPIRED"]
  /\ stock' = [stock EXCEPT ![batches[b].material] = call[c].seen - batches[b].left]

-----------------------------------------------------------------------------
(* quarantineBatch.                                                         *)

QuarantineRead(c) ==
  \E b \in DOMAIN batches :
    /\ call[c].pc = "new"
    /\ call' = [call EXCEPT ![c].pc = "quarantine", ![c].kind = "quarantine",
                            ![c].batch = b, ![c].wasActive = batches[b].status = "ACTIVE"]
    /\ UNCHANGED <<stock, batches>>

\* The status is written whatever it is by now.  The total follows if the batch was ACTIVE
\* when it was read, before the transaction.
QuarantineClaim(c) ==
  LET b == call[c].batch
      counts == call[c].wasActive /\ batches[b].left > 0 IN
  /\ call[c].pc = "quarantine" /\ ~Locked(b)
  /\ IF counts
     THEN /\ call' = [call EXCEPT ![c].pc = "quarantining",
                                  ![c].seen = stock[batches[b].material]]
          /\ UNCHANGED batches
     ELSE /\ Finish(c)
          /\ batches' = [batches EXCEPT ![b].status = "QUARANTINED"]
  /\ UNCHANGED stock

QuarantineWrite(c) ==
  LET b == call[c].batch IN
  /\ call[c].pc = "quarantining"
  /\ Finish(c)
  /\ batches' = [batches EXCEPT ![b].status = "QUARANTINED"]
  /\ stock' = [stock EXCEPT ![batches[b].material] = call[c].seen - batches[b].left]

\* A call fails or dies: its open transaction is undone, what it committed stays.
CallFails(c) ==
  /\ call[c].pc \notin {"new", "done"}
  /\ call' = [call EXCEPT ![c].pc = "done", ![c].failed = TRUE]
  /\ UNCHANGED <<stock, batches>>

StockStep(c) ==
  \/ Deduct(c)
  \/ AdjustRead(c) \/ AdjustWrite(c)
  \/ PurchaseBatch(c) \/ PurchaseStock(c)
  \/ ExpireScan(c) \/ ExpireClaim(c) \/ ExpireWrite(c)
  \/ QuarantineRead(c) \/ QuarantineClaim(c) \/ QuarantineWrite(c)
  \/ CallFails(c)

-----------------------------------------------------------------------------
(* Properties.                                                              *)

BatchType ==
  [material : Materials, initial : Nat, left : Nat, used : Nat, cost : Nat,
   status : {"ACTIVE", "DEPLETED", "EXPIRED", "QUARANTINED"}]

\* No call is between two of its steps, or was cut between them.
Quiet == \A c \in Calls : call[c].pc \in {"new", "done"} /\ ~call[c].failed

\* currentStock === the sum of remainingQuantity over the ACTIVE batches, once every call has
\* ended and none has failed.
StockIsBatches == Quiet => \A m \in Materials : stock[m] = Total(Available(m))

\* The same, as long as only sales, purchases and transfers have touched the stock.
StockIsBatchesWhenSerial ==
  (\A c \in Calls : call[c].kind \in {"none", "deduct", "purchase"}) => StockIsBatches
=============================================================================
