--------------------------- MODULE TerminalPayment ---------------------------
(***************************************************************************)
(* The arbitration of card charges that a point of sale sends to a payment *)
(* terminal: src/services/terminal-payment.service.ts, the watchdog job,   *)
(* the socket handler that delivers terminal results, and cancelOrder.     *)
(*                                                                         *)
(* A charge is a durable row (TerminalPaymentRequest).  A partial unique   *)
(* index over the rows whose status holds the slot is the mutex of the     *)
(* terminal.  Every await of the code is the end of one action here: the   *)
(* HTTP calls, the socket events, the watchdog sweeps and a server restart *)
(* interleave between any two database round trips.                        *)
(*                                                                         *)
(* The terminal itself is external.  It is modelled from the messages the  *)
(* server exchanges with it and from the cases the server's comments name. *)
(***************************************************************************)
EXTENDS Naturals, Sequences, FiniteSets

CONSTANTS
  Requests,     \* requestIds the points of sale generate
  Terminals,    \* normalized terminal ids
  Orders,       \* orders being charged
  Calls,        \* HTTP calls of POST /terminal-payment, each made once
  Sweepers,     \* watchdog passes that may be running at the same time
  TerminalOf,   \* the terminal a request is for
  OrderOf,      \* the order a request charges
  RequestOf,    \* the requestId a call carries
  Threaded,     \* requests whose terminal sends terminalPaymentRequestId
  Cancellable,  \* bound: requests that the point of sale may cancel
  Voidable,     \* bound: orders that the point of sale may cancel
  Refusals,     \* bound: outcomes other than success that a terminal reports
  LockEnabled,  \* TERMINAL_PAYMENT_LOCK_ENABLED
  MaxPayments,  \* bound: recorded payments
  MaxFaults,    \* bound: server restarts and passes that fail
  NoCall,       \* no long-poll registered
  NoRequest     \* a payment that no terminal request caused; an idle terminal

ASSUME CallsAssumption == RequestOf \in [Calls -> Requests] /\ NoCall \notin Calls

ASSUME RequestsAssumption ==
  /\ TerminalOf \in [Requests -> Terminals]
  /\ OrderOf \in [Requests -> Orders]
  /\ NoRequest \notin Requests
  /\ Threaded \subseteq Requests
  /\ Cancellable \subseteq Requests
  /\ Voidable \subseteq Orders
  /\ Refusals \subseteq {"failed", "cancelled", "timeout"}

ASSUME BoundsAssumption ==
  /\ MaxPayments \in Nat
  /\ MaxFaults \in Nat
  /\ LockEnabled \in BOOLEAN

-----------------------------------------------------------------------------
InFlight == {"PENDING", "SENT", "CANCEL_REQUESTED"}
SlotHeld == InFlight \cup {"UNKNOWN"}
Final    == {"COMPLETED", "FAILED", "CANCELLED", "TIMED_OUT"}
Statuses == SlotHeld \cup Final

\* What a terminal, or the server on its behalf, answers to the point of sale.
Outcomes == {"success", "failed", "cancelled", "timeout"}

\* Variant: a result status outside the enum goes to the row as it came.
resultToStatusUnmapped(outcome) ==
  CASE outcome = "success"   -> "COMPLETED"
    [] outcome = "failed"    -> "FAILED"
    [] outcome = "cancelled" -> "CANCELLED"
    [] OTHER                 -> outcome

resultToStatus(outcome) ==
  CASE outcome = "success"   -> "COMPLETED"
    [] outcome = "failed"    -> "FAILED"
    [] outcome = "cancelled" -> "CANCELLED"
    [] OTHER                 -> "TIMED_OUT"

NoPayment == 0

VARIABLES
  status,      \* the row of each request, "ABSENT" before its INSERT
  paymentId,   \* TerminalPaymentRequest.paymentId
  resultJson,  \* the outcome stored in the row, "none" when null
  bornAt,      \* payments recorded before the row's createdAt
  call,        \* where each HTTP call stands
  longPoll,    \* pendingPayments: the call waiting for a request's result
  emits,       \* terminal:payment_request emissions of each request
  net,         \* messages between the server and the terminals
  closing,     \* fire-and-forget closeRow calls that have not reached the database
  cancelling,  \* where the cancel of each request stands
  sweep,       \* where each watchdog pass stands
  phase,       \* external: what the terminal is doing with each request
  ledger,      \* the Payment table: order and request of each payment
  voiding,     \* where cancelOrder stands for each order
  faults       \* server restarts and failed passes so far

rowVars    == <<status, paymentId, resultJson, bornAt>>
callVars   == <<call, longPoll>>
wireVars   == <<net, closing, phase>>
vars == <<rowVars, callVars, emits, wireVars, cancelling, sweep, ledger, voiding, faults>>

-----------------------------------------------------------------------------
Snapshot == [req : Requests, status : InFlight]
Charge   == [type : {"charge"}, req : Requests]
Result   == [type : {"result"}, req : Requests, outcome : Outcomes, payment : Nat]

RowTypeOK ==
  /\ status \in [Requests -> Statuses \cup {"ABSENT"}]
  /\ paymentId \in [Requests -> Nat]
  /\ resultJson \in [Requests -> Outcomes \cup {"none"}]
  /\ bornAt \in [Requests -> Nat]

CallTypeOK ==
  /\ call \in [Calls -> {"new", "insert", "conflict", "emit", "await", "done"}]
  /\ longPoll \in [Requests -> Calls \cup {NoCall}]
  /\ emits \in [Requests -> Nat]
  /\ cancelling \in [Requests -> {"no", "answer", "done"}]

WireTypeOK ==
  /\ net \subseteq Charge \cup Result
  /\ closing \subseteq Result
  /\ phase \in [Requests -> {"none", "charging", "doubt", "approved", "settled", "ended"}]

SweepTypeOK ==
  /\ sweep \in [Sweepers -> [pc : {"idle", "rows", "claim", "write"},
                             batch : SUBSET Snapshot,
                             row : Snapshot \cup {NoRequest},
                             candidate : Nat]]
  /\ \A s \in Sweepers : sweep[s].pc \in {"claim", "write"} => sweep[s].row \in Snapshot

MoneyTypeOK ==
  /\ ledger \in Seq([order : Orders, req : Requests \cup {NoRequest}])
  /\ voiding \in [Orders -> {"open", "gate", "clear", "cancelled"}]
  /\ faults \in 0..MaxFaults

TypeOK == RowTypeOK /\ CallTypeOK /\ WireTypeOK /\ SweepTypeOK /\ MoneyTypeOK

IdleSweep == [pc |-> "idle", batch |-> {}, row |-> NoRequest, candidate |-> NoPayment]

Init ==
  /\ status = [r \in Requests |-> "ABSENT"]
  /\ paymentId = [r \in Requests |-> NoPayment]
  /\ resultJson = [r \in Requests |-> "none"]
  /\ bornAt = [r \in Requests |-> 0]
  /\ call = [c \in Calls |-> "new"]
  /\ longPoll = [r \in Requests |-> NoCall]
  /\ emits = [r \in Requests |-> 0]
  /\ net = {}
  /\ closing = {}
  /\ cancelling = [r \in Requests |-> "no"]
  /\ sweep = [s \in Sweepers |-> IdleSweep]
  /\ phase = [r \in Requests |-> "none"]
  /\ ledger = <<>>
  /\ voiding = [o \in Orders |-> "open"]
  /\ faults = 0

-----------------------------------------------------------------------------
(* sendPaymentToTerminal: the HTTP call that charges.                       *)

\* What a call returns to the point of sale is not kept: nothing reads it again.
Advance(c, pc) == call' = [call EXCEPT ![c] = pc]

Return(c) == Advance(c, "done")

\* The order is read, then, with no await between, the registry.  The call is refused when
\* the order is PAID or the terminal has no socket.  Neither is kept here: a failed read of
\* the order lets the charge go on, and sockets come and go at any time.
SendCheck(c) ==
  /\ call[c] = "new"
  /\ Return(c) \/ Advance(c, "insert")
  /\ UNCHANGED <<rowVars, longPoll, emits, wireVars, cancelling, sweep, ledger, voiding, faults>>

\* Variant: a requestId is unique among the rows in flight only.
RequestIdFreeWhenClosed(r) == status[r] \notin SlotHeld

\* The unique index on requestId.
RequestIdFree(r) == status[r] = "ABSENT"

\* Variant: an UNKNOWN row gives its slot back.
SlotTakenInFlight(r) ==
  \E q \in Requests : TerminalOf[q] = TerminalOf[r] /\ status[q] \in InFlight

\* The partial unique index: another row holds the slot of this request's terminal.
SlotTaken(r) ==
  \E q \in Requests : /\ TerminalOf[q] = TerminalOf[r]
                      /\ status[q] \in SlotHeld

\* INSERT: the unique indexes on requestId and on the slot decide.
SendInsert(c) ==
  LET r == RequestOf[c] IN
  /\ call[c] = "insert"
  /\ \/ /\ RequestIdFree(r) /\ ~SlotTaken(r)
        /\ status' = [status EXCEPT ![r] = "PENDING"]
        /\ bornAt' = [bornAt EXCEPT ![r] = Len(ledger)]
        /\ Advance(c, "emit")
        /\ UNCHANGED <<paymentId, resultJson>>
     \/ /\ ~RequestIdFree(r) \/ SlotTaken(r)
        /\ Advance(c, "conflict")
        /\ UNCHANGED rowVars
  /\ UNCHANGED <<longPoll, emits, wireVars, cancelling, sweep, ledger, voiding, faults>>

\* isLockEnabled
RejectsBusy == LockEnabled

\* After P2002: my row in flight is a duplicate, my row settled is replayed, no row of
\* mine means that another request holds the slot.
SendConflict(c) ==
  LET r == RequestOf[c] IN
  /\ call[c] = "conflict"
  /\ \/ status[r] \in InFlight /\ Return(c)
     \/ status[r] \in Statuses \ InFlight /\ Return(c)
     \/ status[r] = "ABSENT" /\ RejectsBusy /\ Return(c)
     \/ status[r] = "ABSENT" /\ ~RejectsBusy /\ Advance(c, "emit")
  /\ UNCHANGED <<rowVars, longPoll, emits, wireVars, cancelling, sweep, ledger, voiding, faults>>

\* The long-poll is registered and the charge is emitted fire-and-forget: the socket id
\* was read before the INSERT and may be dead by now, so the message may vanish.  That there is
\* no io to emit with is no step: initialize sets it once, before any terminal can register the
\* socket that the checks ask for, and nothing unsets it.
SendEmit(c) ==
  LET r == RequestOf[c] IN
  /\ call[c] = "emit"
  /\ Advance(c, "await")
  /\ longPoll' = [longPoll EXCEPT ![r] = c]
  /\ emits' = [emits EXCEPT ![r] = @ + 1]
  /\ \/ net' = net \cup {[type |-> "charge", req |-> r]}
     \/ UNCHANGED net
  /\ UNCHANGED <<rowVars, closing, phase, cancelling, sweep, ledger, voiding, faults>>

\* The five-minute timer of the long-poll.  The row is left to the watchdog.
SendTimeout(c) ==
  /\ call[c] = "await"
  /\ Return(c)
  /\ longPoll' = [longPoll EXCEPT ![RequestOf[c]] = NoCall]
  /\ UNCHANGED <<rowVars, emits, wireVars, cancelling, sweep, ledger, voiding, faults>>

\* pending.resolve: the call waiting for r, if any, returns.
ResolveLongPoll(r) ==
  IF longPoll[r] = NoCall
  THEN UNCHANGED callVars
  ELSE /\ Return(longPoll[r])
       /\ longPoll' = [longPoll EXCEPT ![r] = NoCall]

-----------------------------------------------------------------------------
(* handlePaymentResult and closeRow.                                        *)

\* terminal:payment_result: the long-poll is answered now, the row is closed later.
HandlePaymentResult(m) ==
  /\ m \in net /\ m.type = "result"
  /\ net' = net \ {m}
  /\ closing' = closing \cup {m}
  /\ ResolveLongPoll(m.req)
  /\ UNCHANGED <<rowVars, emits, phase, cancelling, sweep, ledger, voiding, faults>>

\* Variant: the second compare-and-set takes every closed row.
LateClosableAll == Final \cup {"UNKNOWN"}

\* The closed statuses that a late result overrides.
LateClosable == {"TIMED_OUT", "UNKNOWN"}

\* closeRow: one compare-and-set from the in-flight statuses, a second one from
\* those a late result overrides, nothing for a row already final.
CloseRow(x) ==
  /\ x \in closing
  /\ closing' = closing \ {x}
  /\ IF status[x.req] \in InFlight \cup LateClosable
     THEN /\ status' = [status EXCEPT ![x.req] = resultToStatus(x.outcome)]
          /\ paymentId' = [paymentId EXCEPT ![x.req] =
                             IF x.payment = NoPayment THEN @ ELSE x.payment]
          /\ resultJson' = [resultJson EXCEPT ![x.req] = x.outcome]
     ELSE UNCHANGED <<status, paymentId, resultJson>>
  /\ UNCHANGED <<bornAt, callVars, emits, net, phase, cancelling, sweep, ledger, voiding, faults>>

\* The database refuses the update: closeRow logs the error and nobody retries.
CloseRowFails(x) ==
  /\ x \in closing
  /\ closing' = closing \ {x}
  /\ UNCHANGED <<rowVars, callVars, emits, net, phase, cancelling, sweep, ledger, voiding, faults>>

-----------------------------------------------------------------------------
(* cancelPayment: emit to the terminal, mark the row, answer the long-poll.  *)
(* All the emitted message can do is to make the terminal report             *)
(* `cancelled', which TerminalRefuse lets it do at any time: the message     *)
(* itself is not kept in net.                                                *)

\* The row is marked even when the terminal is unreachable; an update the database refuses
\* is logged and the long-poll is answered all the same.  Bound: one cancel of each
\* request of Cancellable, at any time after the point of sale called.
CancelMark(r) ==
  /\ r \in Cancellable /\ cancelling[r] = "no"
  /\ \E c \in Calls : RequestOf[c] = r /\ call[c] # "new"
  /\ cancelling' = [cancelling EXCEPT ![r] = "answer"]
  /\ \/ status' = [status EXCEPT ![r] = IF @ \in InFlight THEN "CANCEL_REQUESTED" ELSE @]
     \/ UNCHANGED status
  /\ UNCHANGED <<paymentId, resultJson, bornAt, callVars, emits, wireVars, sweep, ledger,
                 voiding, faults>>

CancelAnswer(r) ==
  /\ cancelling[r] = "answer"
  /\ cancelling' = [cancelling EXCEPT ![r] = "done"]
  /\ ResolveLongPoll(r)
  /\ UNCHANGED <<rowVars, emits, wireVars, sweep, ledger, voiding, faults>>

-----------------------------------------------------------------------------
(* reconcileStaleRequests: the watchdog's pass.  It starts every 30 seconds *)
(* and at boot, whether or not an earlier pass has ended.                   *)

SnapshotOf(r) == [req |-> r, status |-> status[r]]

\* Variant: the pass leaves a requested cancel to the terminal.
SweepableUncancelled == {"PENDING", "SENT"}

Sweepable == InFlight

\* findMany of the stale rows, with the statuses of this moment.  Time is not kept: any
\* rows in flight may be past expiresAt, or past the grace of their cancel.
SweepScan(s) ==
  /\ sweep[s].pc = "idle"
  /\ \E stale \in SUBSET {r \in Requests : status[r] \in Sweepable} \ {{}} :
       sweep' = [sweep EXCEPT ![s] =
         [pc |-> "rows", batch |-> {SnapshotOf(r) : r \in stale},
          row |-> NoRequest, candidate |-> NoPayment]]
  /\ UNCHANGED <<rowVars, callVars, emits, wireVars, cancelling, ledger, voiding, faults>>

\* A pass that finds r among the stale rows.
SweepFinds(s, r) == SweepScan(s) /\ SnapshotOf(r) \in sweep'[s].batch

\* The payments of the row's order that are not older than the row.
Candidates(r) == {i \in DOMAIN ledger : i > bornAt[r] /\ ledger[i].order = OrderOf[r]}

\* The latest of them, NoPayment when there is none.
IsLatest(r, payment) ==
  IF Candidates(r) = {} THEN payment = NoPayment
  ELSE payment \in Candidates(r) /\ \A i \in Candidates(r) : i <= payment

\* The next row of the batch, and the query for its candidate payment.
SweepCandidate(s) ==
  /\ sweep[s].pc = "rows"
  /\ \E x \in sweep[s].batch, payment \in {NoPayment} \cup DOMAIN ledger :
       /\ IsLatest(x.req, payment)
       /\ sweep' = [sweep EXCEPT ![s] =
            [pc |-> IF payment = NoPayment THEN "write" ELSE "claim",
             batch |-> @.batch \ {x}, row |-> x, candidate |-> payment]]
  /\ UNCHANGED <<rowVars, callVars, emits, wireVars, cancelling, ledger, voiding, faults>>

ClaimedByAnother(r, payment) == \E q \in Requests \ {r} : paymentId[q] = payment

\* The query for another row that already carries the candidate.
SweepClaim(s) ==
  /\ sweep[s].pc = "claim"
  /\ sweep' = [sweep EXCEPT ![s] =
       [pc |-> "write", batch |-> @.batch, row |-> @.row,
        candidate |-> IF ClaimedByAnother(@.row.req, @.candidate)
                      THEN NoPayment ELSE @.candidate]]
  /\ UNCHANGED <<rowVars, callVars, emits, wireVars, cancelling, ledger, voiding, faults>>

\* Variant: the update names the row by its id alone.
SweepFromAny(x, payment) == Statuses

\* Variant: a row past expiresAt is closed, as the enum's comment on TIMED_OUT says.
SweepToTimedOut(x, payment) ==
  CASE payment # NoPayment            -> "COMPLETED"
    [] x.status = "CANCEL_REQUESTED"  -> "CANCELLED"
    [] OTHER                          -> "TIMED_OUT"

\* What the pass writes for a row: the status it moves the row from, and the one it
\* moves it to.  The decision rests on the snapshot, the compare-and-set on the row.
SweepFrom(x, payment) ==
  IF payment = NoPayment /\ x.status = "CANCEL_REQUESTED"
  THEN {"CANCEL_REQUESTED"} ELSE InFlight

SweepTo(x, payment) ==
  CASE payment # NoPayment            -> "COMPLETED"
    [] x.status = "CANCEL_REQUESTED"  -> "CANCELLED"
    [] OTHER                          -> "UNKNOWN"

SweepWrite(s) ==
  LET x == sweep[s].row
      payment == sweep[s].candidate IN
  /\ sweep[s].pc = "write"
  /\ IF status[x.req] \in SweepFrom(x, payment)
     THEN /\ status' = [status EXCEPT ![x.req] = SweepTo(x, payment)]
          /\ paymentId' = [paymentId EXCEPT ![x.req] =
                             IF payment = NoPayment THEN @ ELSE payment]
     ELSE UNCHANGED <<status, paymentId>>
  /\ sweep' = [sweep EXCEPT ![s] =
       IF @.batch = {} THEN IdleSweep
       ELSE [pc |-> "rows", batch |-> @.batch, row |-> NoRequest, candidate |-> NoPayment]]
  /\ UNCHANGED <<resultJson, bornAt, callVars, emits, wireVars, cancelling, ledger, voiding, faults>>

\* A query or an update of the pass throws: run() logs it, the rest of the batch waits for
\* another pass.
SweepFails(s) ==
  /\ sweep[s].pc # "idle"
  /\ faults < MaxFaults
  /\ faults' = faults + 1
  /\ sweep' = [sweep EXCEPT ![s] = IdleSweep]
  /\ UNCHANGED <<rowVars, callVars, emits, wireVars, cancelling, ledger, voiding>>

-----------------------------------------------------------------------------
(* Payments.  recordOrderPayment writes the Payment and closes the row in   *)
(* one transaction, and the order's totals after it.                        *)

\* Variant: the payment closes the rows that closeRow would close.
ReconcilableLate == InFlight \cup LateClosable

\* The statuses that a recorded payment overrides.
Reconcilable == Statuses \ {"COMPLETED"}

\* closeRowFromPaymentTx: any row that is not COMPLETED becomes so.
closeRowFromPaymentTx(r, payment) ==
  IF status[r] \in Reconcilable
  THEN /\ status' = [status EXCEPT ![r] = "COMPLETED"]
       /\ paymentId' = [paymentId EXCEPT ![r] = payment]
  ELSE UNCHANGED <<status, paymentId>>

Recorded(r) == \E i \in DOMAIN ledger : ledger[i].req = r

\* The terminal posts the payment of an approved charge.  Its idempotency key makes a
\* second post of the same payment a no-op.
RecordPayment(r) ==
  /\ phase[r] \in {"approved", "settled"} /\ ~Recorded(r)
  /\ Len(ledger) < MaxPayments
  /\ ledger' = Append(ledger, [order |-> OrderOf[r], req |-> r])
  /\ IF r \in Threaded
     THEN closeRowFromPaymentTx(r, Len(ledger) + 1)
     ELSE UNCHANGED <<status, paymentId>>
  /\ UNCHANGED <<resultJson, bornAt, callVars, emits, wireVars, cancelling, sweep,
                 voiding, faults>>

\* Another tender on the same order: cash, or a card charged from the terminal's own menu.
OtherTender(o) ==
  /\ Len(ledger) < MaxPayments
  /\ ledger' = Append(ledger, [order |-> o, req |-> NoRequest])
  /\ UNCHANGED <<rowVars, callVars, emits, wireVars, cancelling, sweep,
                 voiding, faults>>

-----------------------------------------------------------------------------
(* cancelOrder: read the order, ask hasChargeBlockingOrderCancel, then       *)
(* update the order, each in a round trip of its own.                       *)

VoidRead(o) ==
  /\ o \in Voidable /\ voiding[o] = "open"
  /\ voiding' = [voiding EXCEPT ![o] = "gate"]
  /\ UNCHANGED <<rowVars, callVars, emits, wireVars, cancelling, sweep, ledger, faults>>

hasChargeBlockingOrderCancel(o) ==
  \E r \in Requests : OrderOf[r] = o /\ status[r] \in {"PENDING", "SENT", "UNKNOWN"}

VoidGate(o) ==
  /\ voiding[o] = "gate"
  /\ voiding' = [voiding EXCEPT ![o] =
                   IF hasChargeBlockingOrderCancel(o) THEN "open" ELSE "clear"]
  /\ UNCHANGED <<rowVars, callVars, emits, wireVars, cancelling, sweep, ledger, faults>>

VoidWrite(o) ==
  /\ voiding[o] = "clear"
  /\ voiding' = [voiding EXCEPT ![o] = "cancelled"]
  /\ UNCHANGED <<rowVars, callVars, emits, wireVars, cancelling, sweep, ledger, faults>>

-----------------------------------------------------------------------------
(* External: the payment terminal.                                          *)

\* The terminal is charging a card, or has an approval it has not reported yet.
Charging(t) == \E r \in Requests : /\ TerminalOf[r] = t
                                   /\ phase[r] \in {"charging", "approved"}

\* A charge reaches the terminal; a terminal that is charging ignores it.
TerminalAccept(r) ==
  LET m == [type |-> "charge", req |-> r] IN
  /\ m \in net
  /\ net' = net \ {m}
  /\ phase' = IF Charging(TerminalOf[r]) THEN phase ELSE [phase EXCEPT ![r] = "charging"]
  /\ UNCHANGED <<rowVars, callVars, emits, closing, cancelling, sweep, ledger, voiding, faults>>

\* The card is charged.  An authorisation the terminal gave up on may still land.
TerminalApprove(r) ==
  /\ phase[r] \in {"charging", "doubt"}
  /\ phase' = [phase EXCEPT ![r] = IF @ = "charging" THEN "approved" ELSE "settled"]
  /\ UNCHANGED <<rowVars, callVars, emits, net, closing, cancelling, sweep, ledger, voiding, faults>>

\* terminal:payment_result, which the socket may lose.
Report(r, outcome, payment) ==
  \/ net' = net \cup {[type |-> "result", req |-> r, outcome |-> outcome,
                       payment |-> payment]}
  \/ UNCHANGED net

\* The approval is reported, with the payment's id if it is already recorded.
TerminalReport(r) ==
  /\ phase[r] = "approved"
  /\ phase' = [phase EXCEPT ![r] = "settled"]
  /\ \/ ~Recorded(r) /\ Report(r, "success", NoPayment)
     \/ \E i \in DOMAIN ledger : ledger[i].req = r /\ Report(r, "success", i)
  /\ UNCHANGED <<rowVars, callVars, emits, closing, cancelling, sweep, ledger, voiding, faults>>

\* Declined, cancelled on the terminal, or given up: for good, or leaving an
\* authorisation that may still be approved.
TerminalRefuse(r) ==
  /\ phase[r] = "charging"
  /\ \E p \in {"ended", "doubt"} : phase' = [phase EXCEPT ![r] = p]
  /\ \E o \in Refusals : Report(r, o, NoPayment)
  /\ UNCHANGED <<rowVars, callVars, emits, closing, cancelling, sweep, ledger, voiding, faults>>

-----------------------------------------------------------------------------
(* Crashes.                                                                 *)

\* The process dies: the calls, the long-polls, the updates that had not reached the
\* database, the running passes and the registry die with it.  The rows stay.
Restart ==
  /\ faults < MaxFaults
  /\ faults' = faults + 1
  /\ call' = [c \in Calls |-> IF call[c] = "new" THEN "new" ELSE "done"]
  /\ longPoll' = [r \in Requests |-> NoCall]
  /\ closing' = {}
  /\ cancelling' = [r \in Requests |->
                      IF cancelling[r] = "answer" THEN "done" ELSE cancelling[r]]
  /\ sweep' = [s \in Sweepers |-> IdleSweep]
  /\ voiding' = [o \in Orders |->
                   IF voiding[o] \in {"gate", "clear"} THEN "open" ELSE voiding[o]]
  /\ UNCHANGED <<rowVars, emits, net, phase, ledger>>

-----------------------------------------------------------------------------
CallStep(c) == \/ SendCheck(c) \/ SendInsert(c) \/ SendConflict(c)
               \/ SendEmit(c)  \/ SendTimeout(c)

SweepStep(s) == \/ SweepScan(s)  \/ SweepCandidate(s)
                \/ SweepClaim(s) \/ SweepWrite(s)
                \/ SweepFails(s)

Next ==
  \/ \E c \in Calls : CallStep(c)
  \/ \E m \in net : HandlePaymentResult(m)
  \/ \E x \in closing : CloseRow(x) \/ CloseRowFails(x)
  \/ \E s \in Sweepers : SweepStep(s)
  \/ \E r \in Requests : \/ CancelMark(r) \/ CancelAnswer(r) \/ RecordPayment(r)
                         \/ TerminalAccept(r) \/ TerminalApprove(r)
                         \/ TerminalReport(r) \/ TerminalRefuse(r)
  \/ \E o \in Orders : \/ OtherTender(o)
                       \/ VoidRead(o) \/ VoidGate(o) \/ VoidWrite(o)
  \/ Restart

Spec == Init /\ [][Next]_vars

\* Node's event loop runs every started call, timer and pass.  cron starts a pass every 30
\* seconds, and from expiresAt on every pass finds the row: a row that stays in flight is
\* found.  Nothing is assumed of the terminal, the network or the cashier.
Fairness ==
  /\ \A c \in Calls : /\ WF_vars(SendInsert(c)) /\ WF_vars(SendConflict(c))
                      /\ WF_vars(SendEmit(c))   /\ WF_vars(SendTimeout(c))
  /\ \A s \in Sweepers : /\ WF_vars(SweepCandidate(s)) /\ WF_vars(SweepClaim(s))
                         /\ WF_vars(SweepWrite(s))
                         /\ \A r \in Requests : SF_vars(SweepFinds(s, r))

FairSpec == Spec /\ Fairness

-----------------------------------------------------------------------------
(* Properties.                                                              *)

\* At most one row per terminal holds the slot.  The INSERT is guarded by the partial
\* index; every later update must also never bring a freed row back to a held status,
\* however stale the snapshot or the message it rests on.
SlotExclusive ==
  \A q, r \in Requests :
    (status[q] \in SlotHeld /\ status[r] \in SlotHeld /\ TerminalOf[q] = TerminalOf[r])
      => q = r

\* A requestId reaches the terminal at most once, over any number of calls, retries and
\* restarts ("do NOT re-emit (would double-charge)").
OneEmission == \A r \in Requests : emits[r] <= 1

\* A charge that was emitted has a row, which the status endpoint and the watchdog find.
EmittedHasRow == \A r \in Requests : emits[r] > 0 => status[r] # "ABSENT"

\* A recorded payment whose terminal names the request is ground truth: its row says
\* COMPLETED, whatever cancel, refusal, timeout or sweep came before or comes after.
RecordedIsCompleted == \A r \in Threaded : Recorded(r) => status[r] = "COMPLETED"

\* No step takes a row out of COMPLETED or changes the payment it names: neither a late
\* refusal, nor a cancel, nor a sweep that read the row before it completed.
CompletedIsFinal ==
  [][\A r \in Requests : status[r] = "COMPLETED" =>
       status'[r] = "COMPLETED" /\ paymentId'[r] = paymentId[r]]_vars

\* The slot is never freed blind: the terminal reported an outcome, a payment of the order
\* is on record since the row, or somebody asked for the cancel.
FreedOnEvidence ==
  [][\A r \in Requests : (status[r] \in SlotHeld /\ status'[r] \notin SlotHeld) =>
       \/ phase[r] \in {"settled", "ended", "doubt"}
       \/ Candidates(r)' # {}
       \/ status[r] = "CANCEL_REQUESTED"]_vars

\* No charge that nobody asked to cancel is alive under a cancelled order.
CancelledOrderIsQuiet ==
  \A o \in Orders : voiding[o] = "cancelled" => ~hasChargeBlockingOrderCancel(o)

\* The parts of the inductive invariant behind OneEmission, EmittedHasRow,
\* RecordedIsCompleted and FreedOnEvidence (with the lock enabled).

\* Only the call whose INSERT created the row may emit, and it has not emitted yet.
EmitterOwnsRow ==
  /\ \A c \in Calls : call[c] = "emit" =>
       status[RequestOf[c]] # "ABSENT" /\ emits[RequestOf[c]] = 0
  /\ \A c, d \in Calls :
       (call[c] = "emit" /\ call[d] = "emit" /\ RequestOf[c] = RequestOf[d]) => c = d

Reported == {"settled", "ended", "doubt"}

\* The terminal sees a charge once, and speaks of it only after it is done with it.
WireIsHonest ==
  /\ \A r \in Requests : [type |-> "charge", req |-> r] \in net =>
       emits[r] > 0 /\ phase[r] = "none"
  /\ \A r \in Requests : phase[r] # "none" => emits[r] > 0
  /\ \A m \in net \cup closing : m.type = "result" => phase[m.req] \in Reported

\* A row is not younger than the ledger, and only an approved charge is recorded.
LedgerIsHonest ==
  /\ \A r \in Requests : bornAt[r] <= Len(ledger)
  /\ \A i \in DOMAIN ledger :
       ledger[i].req # NoRequest => phase[ledger[i].req] \in {"approved", "settled"}

\* A pass holds rows that exist, and a candidate that is still a payment of the row's order.
SweepIsHonest ==
  \A s \in Sweepers :
    /\ \A x \in sweep[s].batch : status[x.req] # "ABSENT"
    /\ sweep[s].pc \in {"claim", "write"} =>
         /\ status[sweep[s].row.req] # "ABSENT"
         /\ sweep[s].candidate # NoPayment =>
              sweep[s].candidate \in Candidates(sweep[s].row.req)

\* What every reachable state satisfies while the lock is enabled: the four parts above, one
\* emission per requestId, no emission without a row, and recorded money closing the row.
ArbitrationInv ==
  /\ EmitterOwnsRow /\ OneEmission /\ EmittedHasRow
  /\ WireIsHonest /\ LedgerIsHonest /\ SweepIsHonest
  /\ RecordedIsCompleted

\* The slot and the charges of ChargeSlots, read off the rows.
Holding(t) == {r \in Requests : TerminalOf[r] = t /\ status[r] \in SlotHeld}

SlotOf == [t \in Terminals |->
             IF Holding(t) = {} THEN NoRequest ELSE CHOOSE r \in Holding(t) : TRUE]

\* What a status means for the charge.
Meaning(row) == CASE row = "ABSENT"      -> "none"
                  [] row \in InFlight    -> "open"
                  [] row = "UNKNOWN"     -> "doubtful"
                  [] row = "COMPLETED"   -> "charged"
                  [] OTHER               -> "closed"

ChargeOf == [r \in Requests |-> Meaning(status[r])]

Slots == INSTANCE ChargeSlots WITH slot <- SlotOf, charge <- ChargeOf, Free <- NoRequest

\* The rows, their compare-and-sets and the unique index implement the abstract slots.
ImplementsChargeSlots == Slots!Spec

\* Every row in flight leaves that state: by the terminal's answer, or by the watchdog
\* once it is stale, whatever cancel or restart comes between.
StaleRowsResolve ==
  \A r \in Requests : status[r] \in InFlight ~> status[r] \notin InFlight

\* Every call that is waiting for the terminal returns to the point of sale.
CallsReturn == \A c \in Calls : call[c] = "await" ~> call[c] = "done"

\* Neither the row of a charge nor the cashier who asked for it waits for ever.
NothingIsStuck == StaleRowsResolve /\ CallsReturn
=============================================================================
