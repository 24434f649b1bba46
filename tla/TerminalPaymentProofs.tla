----------------------- MODULE TerminalPaymentProofs -----------------------
(***************************************************************************)
(* Proofs about TerminalPayment: for every number of requests, calls,      *)
(* terminals, orders, watchdog passes and faults.                          *)
(*   - the types, the index of a terminal's slot, and what is final;       *)
(*   - what the arbitration guarantees while TERMINAL_PAYMENT_LOCK_ENABLED *)
(*     is on: the inductive invariant ArbitrationInv;                      *)
(*   - that the rows, the partial unique index and the compare-and-sets    *)
(*     implement the slots of ChargeSlots, lock or no lock.                *)
(***************************************************************************)
EXTENDS TerminalPayment, TLAPS, SequenceTheorems

-----------------------------------------------------------------------------
(* Frames: which actions write which variables.                             *)

\* Only the INSERT and the four updates write the rows.
LEMMA RowSteps ==
  ASSUME [Next]_vars
  PROVE  \/ UNCHANGED rowVars
         \/ \E c \in Calls : SendInsert(c)
         \/ \E x \in closing : CloseRow(x)
         \/ \E s \in Sweepers : SweepWrite(s)
         \/ \E r \in Requests : CancelMark(r) \/ RecordPayment(r)
BY DEF Next, vars, CallStep, SweepStep, SendCheck, SendConflict, SendEmit, SendTimeout,
       HandlePaymentResult, CloseRowFails, SweepScan, SweepCandidate, SweepClaim, SweepFails,
       CancelAnswer, TerminalAccept, TerminalApprove, TerminalReport, TerminalRefuse,
       OtherTender, VoidRead, VoidGate, VoidWrite, Restart

\* Only the emission, the network and the terminal write the wire.
LEMMA WireSteps ==
  ASSUME [Next]_vars
  PROVE  \/ UNCHANGED wireVars
         \/ \E c \in Calls : SendEmit(c)
         \/ \E m \in net : HandlePaymentResult(m)
         \/ \E x \in closing : CloseRow(x) \/ CloseRowFails(x)
         \/ \E r \in Requests : \/ TerminalAccept(r) \/ TerminalApprove(r)
                                \/ TerminalReport(r) \/ TerminalRefuse(r)
         \/ Restart
BY DEF Next, vars, CallStep, SweepStep, SendCheck, SendInsert, SendConflict, SendTimeout,
       SweepScan, SweepCandidate, SweepClaim, SweepWrite, SweepFails, CancelMark, CancelAnswer,
       RecordPayment, OtherTender, VoidRead, VoidGate, VoidWrite

\* Only the passes themselves and a crash write what a pass has read.
LEMMA SweepSteps ==
  ASSUME [Next]_vars
  PROVE  \/ UNCHANGED sweep
         \/ \E s \in Sweepers : SweepStep(s)
         \/ Restart
BY DEF Next, vars, CallStep, SendCheck, SendInsert, SendConflict, SendEmit, SendTimeout,
       HandlePaymentResult, CloseRow, CloseRowFails, CancelMark, CancelAnswer,
       RecordPayment, TerminalAccept, TerminalApprove, TerminalReport, TerminalRefuse,
       OtherTender, VoidRead, VoidGate, VoidWrite

\* Only the calls, the two handlers that answer a long-poll, the cancel and a crash write
\* the calls.
LEMMA CallSteps ==
  ASSUME [Next]_vars
  PROVE  \/ UNCHANGED <<call, longPoll, emits, cancelling>>
         \/ \E c \in Calls : CallStep(c)
         \/ \E m \in net : HandlePaymentResult(m)
         \/ \E r \in Requests : CancelMark(r) \/ CancelAnswer(r)
         \/ Restart
BY DEF Next, vars, callVars, SweepStep, CloseRow, CloseRowFails, SweepScan, SweepCandidate,
       SweepClaim, SweepWrite, SweepFails, RecordPayment, TerminalAccept, TerminalApprove,
       TerminalReport, TerminalRefuse, OtherTender, VoidRead, VoidGate, VoidWrite

\* Payments are only ever appended to the ledger.
LEMMA MoneySteps ==
  ASSUME [Next]_vars
  PROVE  \/ UNCHANGED ledger
         \/ \E r \in Requests : RecordPayment(r)
         \/ \E o \in Orders : OtherTender(o)
BY DEF Next, vars, CallStep, SweepStep, SendCheck, SendInsert, SendConflict, SendEmit,
       SendTimeout, HandlePaymentResult, CloseRow, CloseRowFails, SweepScan,
       SweepCandidate, SweepClaim, SweepWrite, SweepFails, CancelMark, CancelAnswer, TerminalAccept,
       TerminalApprove, TerminalReport, TerminalRefuse, VoidRead, VoidGate, VoidWrite,
       Restart

-----------------------------------------------------------------------------
(* Types.                                                                   *)

LEMMA ResultStatus ==
  ASSUME NEW o \in Outcomes
  PROVE  resultToStatus(o) \in Final
BY DEF resultToStatus, Outcomes, Final

LEMMA RowTyping ==
  ASSUME TypeOK, [Next]_vars
  PROVE  RowTypeOK'
<1> USE RequestsAssumption, CallsAssumption DEF TypeOK, RowTypeOK, Statuses, SlotHeld, InFlight
<1>1. CASE UNCHANGED rowVars
  BY <1>1 DEF rowVars
<1>2. ASSUME NEW c \in Calls, SendInsert(c) PROVE RowTypeOK'
  <2>1. Len(ledger) \in Nat
    BY DEF MoneyTypeOK
  <2> QED
    BY <1>2, <2>1 DEF SendInsert, rowVars
<1>3. ASSUME NEW x \in closing, CloseRow(x) PROVE RowTypeOK'
  <2>1. x \in Result
    BY DEF WireTypeOK
  <2>2. resultToStatus(x.outcome) \in Final
    BY <2>1, ResultStatus DEF Result
  <2> QED
    BY <1>3, <2>1, <2>2 DEF CloseRow, Result, NoPayment
<1>4. ASSUME NEW s \in Sweepers, SweepWrite(s) PROVE RowTypeOK'
  <2>1. /\ sweep[s].candidate \in Nat
        /\ SweepTo(sweep[s].row, sweep[s].candidate) \in Statuses
    BY DEF SweepTypeOK, SweepTo, Final
  <2> QED
    BY <1>4, <2>1 DEF SweepWrite
<1>5. ASSUME NEW r \in Requests, CancelMark(r) PROVE RowTypeOK'
  BY <1>5 DEF CancelMark
<1>6. ASSUME NEW r \in Requests, RecordPayment(r) PROVE RowTypeOK'
  <2>1. Len(ledger) + 1 \in Nat
    BY DEF MoneyTypeOK
  <2>2. CASE r \in Threaded /\ status[r] \in Reconcilable
    <3>1. PICK p \in Nat : /\ status' = [status EXCEPT ![r] = "COMPLETED"]
                           /\ paymentId' = [paymentId EXCEPT ![r] = p]
                           /\ UNCHANGED <<resultJson, bornAt>>
      BY <1>6, <2>1, <2>2, Zenon DEF RecordPayment, closeRowFromPaymentTx
    <3> QED
      BY <3>1 DEF Final
  <2>3. CASE ~(r \in Threaded /\ status[r] \in Reconcilable)
    BY <1>6, <2>3 DEF RecordPayment, closeRowFromPaymentTx
  <2> QED
    BY <2>2, <2>3
<1> QED
  BY RowSteps, <1>1, <1>2, <1>3, <1>4, <1>5, <1>6

LEMMA CallTyping ==
  ASSUME TypeOK, [Next]_vars
  PROVE  CallTypeOK'
<1> USE CallsAssumption DEF TypeOK, CallTypeOK, callVars
<1>1. CASE UNCHANGED <<call, longPoll, emits, cancelling>>
  BY <1>1
<1>2. ASSUME NEW c \in Calls, CallStep(c) PROVE CallTypeOK'
  <2> USE DEF Return, Advance
  <2>1. CASE SendCheck(c)
    BY <2>1 DEF SendCheck
  <2>2. CASE SendInsert(c)
    BY <2>2 DEF SendInsert
  <2>3. CASE SendConflict(c)
    BY <2>3 DEF SendConflict
  <2>4. CASE SendEmit(c)
    BY <2>4 DEF SendEmit
  <2>5. CASE SendTimeout(c)
    BY <2>5 DEF SendTimeout
  <2> QED
    BY <1>2, <2>1, <2>2, <2>3, <2>4, <2>5 DEF CallStep
<1>3. ASSUME NEW m \in net, HandlePaymentResult(m) PROVE CallTypeOK'
  BY <1>3 DEF HandlePaymentResult, ResolveLongPoll, Return, Advance, WireTypeOK, Charge, Result
<1>4. ASSUME NEW r \in Requests, CancelMark(r) \/ CancelAnswer(r) PROVE CallTypeOK'
  BY <1>4 DEF CancelMark, CancelAnswer, ResolveLongPoll, Return, Advance
<1>5. CASE Restart
  BY <1>5 DEF Restart
<1> QED
  BY CallSteps, <1>1, <1>2, <1>3, <1>4, <1>5

LEMMA WireTyping ==
  ASSUME TypeOK, [Next]_vars
  PROVE  WireTypeOK'
<1> USE RequestsAssumption, CallsAssumption DEF TypeOK, WireTypeOK, Charge, Result
<1>1. CASE UNCHANGED wireVars
  BY <1>1 DEF wireVars
<1>2. ASSUME NEW c \in Calls, SendEmit(c) PROVE WireTypeOK'
  BY <1>2 DEF SendEmit
<1>3. ASSUME NEW m \in net, HandlePaymentResult(m) PROVE WireTypeOK'
  BY <1>3 DEF HandlePaymentResult
<1>4. ASSUME NEW x \in closing, CloseRow(x) \/ CloseRowFails(x) PROVE WireTypeOK'
  BY <1>4 DEF CloseRow, CloseRowFails
<1>5. ASSUME NEW r \in Requests, TerminalAccept(r) \/ TerminalApprove(r) PROVE WireTypeOK'
  BY <1>5 DEF TerminalAccept, TerminalApprove
<1>6. ASSUME NEW r \in Requests, TerminalReport(r) PROVE WireTypeOK'
  <2>1. DOMAIN ledger \subseteq Nat
    BY DEF MoneyTypeOK
  <2> QED
    BY <1>6, <2>1 DEF TerminalReport, Report, Outcomes, NoPayment
<1>7. ASSUME NEW r \in Requests, TerminalRefuse(r) PROVE WireTypeOK'
  <2>1. PICK o \in Refusals : Report(r, o, NoPayment)
    BY <1>7 DEF TerminalRefuse
  <2>2. [type |-> "result", req |-> r, outcome |-> o, payment |-> NoPayment] \in Result
    BY DEF Outcomes, NoPayment
  <2>3. net' \subseteq Charge \cup Result
    BY <2>1, <2>2 DEF Report
  <2>4. PICK p \in {"ended", "doubt"} : phase' = [phase EXCEPT ![r] = p]
    BY <1>7 DEF TerminalRefuse
  <2> QED
    BY <1>7, <2>3, <2>4 DEF TerminalRefuse
<1>8. CASE Restart
  BY <1>8 DEF Restart
<1> QED
  BY WireSteps, <1>1, <1>2, <1>3, <1>4, <1>5, <1>6, <1>7, <1>8

LEMMA SweepTyping ==
  ASSUME TypeOK, [Next]_vars
  PROVE  SweepTypeOK'
<1> USE DEF TypeOK, SweepTypeOK, NoPayment
<1>1. CASE UNCHANGED sweep
  BY <1>1
<1>2. ASSUME NEW s \in Sweepers, SweepScan(s) PROVE SweepTypeOK'
  <2>1. \A r \in Requests : status[r] \in InFlight => SnapshotOf(r) \in Snapshot
    BY DEF SnapshotOf, Snapshot
  <2> QED
    BY <1>2, <2>1 DEF SweepScan, Sweepable
<1>3. ASSUME NEW s \in Sweepers, SweepCandidate(s) PROVE SweepTypeOK'
  <2>1. \A x \in sweep[s].batch : x \in Snapshot
    OBVIOUS
  <2>2. DOMAIN ledger \subseteq Nat
    BY DEF MoneyTypeOK
  <2> QED
    BY <1>3, <2>1, <2>2 DEF SweepCandidate
<1>4. ASSUME NEW s \in Sweepers, SweepClaim(s) PROVE SweepTypeOK'
  BY <1>4 DEF SweepClaim
<1>5. ASSUME NEW s \in Sweepers, SweepWrite(s) PROVE SweepTypeOK'
  BY <1>5 DEF SweepWrite, IdleSweep
<1>6. ASSUME NEW s \in Sweepers, SweepFails(s) PROVE SweepTypeOK'
  BY <1>6 DEF SweepFails, IdleSweep
<1>7. CASE Restart
  BY <1>7 DEF Restart, IdleSweep
<1> QED
  BY SweepSteps, <1>1, <1>2, <1>3, <1>4, <1>5, <1>6, <1>7 DEF SweepStep

LEMMA MoneyTyping ==
  ASSUME TypeOK, [Next]_vars
  PROVE  MoneyTypeOK'
<1> USE RequestsAssumption, BoundsAssumption DEF TypeOK, MoneyTypeOK
<1>1. ledger' \in Seq([order : Orders, req : Requests \cup {NoRequest}])
  <2>1. ASSUME NEW r \in Requests, RecordPayment(r)
        PROVE  ledger' \in Seq([order : Orders, req : Requests \cup {NoRequest}])
    <3>1. [order |-> OrderOf[r], req |-> r] \in [order : Orders, req : Requests \cup {NoRequest}]
      OBVIOUS
    <3> QED
      BY <2>1, <3>1 DEF RecordPayment
  <2>2. ASSUME NEW o \in Orders, OtherTender(o)
        PROVE  ledger' \in Seq([order : Orders, req : Requests \cup {NoRequest}])
    <3>1. [order |-> o, req |-> NoRequest] \in [order : Orders, req : Requests \cup {NoRequest}]
      OBVIOUS
    <3> QED
      BY <2>2, <3>1 DEF OtherTender
  <2> QED
    BY MoneySteps, <2>1, <2>2
<1>2. voiding' \in [Orders -> {"open", "gate", "clear", "cancelled"}]
  <2>1. CASE \E o \in Orders : VoidRead(o) \/ VoidGate(o) \/ VoidWrite(o)
    BY <2>1 DEF VoidRead, VoidGate, VoidWrite
  <2>2. CASE Restart
    BY <2>2 DEF Restart
  <2>3. CASE UNCHANGED voiding
    BY <2>3
  <2> QED
    BY <2>1, <2>2, <2>3
    DEF Next, vars, CallStep, SweepStep, SendCheck, SendInsert, SendConflict, SendEmit,
        SendTimeout, HandlePaymentResult, CloseRow, CloseRowFails, SweepScan,
        SweepCandidate, SweepClaim, SweepWrite, SweepFails, CancelMark, CancelAnswer,
        RecordPayment, TerminalAccept, TerminalApprove, TerminalReport, TerminalRefuse, OtherTender
<1>3. faults' \in 0..MaxFaults
  <2>1. CASE Restart
    BY <2>1 DEF Restart
  <2>2. CASE \E s \in Sweepers : SweepFails(s)
    BY <2>2 DEF SweepFails
  <2>3. CASE UNCHANGED faults
    BY <2>3
  <2> QED
    BY <2>1, <2>2, <2>3
    DEF Next, vars, CallStep, SweepStep, SendCheck, SendInsert, SendConflict, SendEmit,
        SendTimeout, HandlePaymentResult, CloseRow, CloseRowFails, SweepScan,
        SweepCandidate, SweepClaim, SweepWrite, CancelMark, CancelAnswer, RecordPayment,
        TerminalAccept, TerminalApprove, TerminalReport, TerminalRefuse, OtherTender,
        VoidRead, VoidGate, VoidWrite
<1> QED
  BY <1>1, <1>2, <1>3

\* Every variable keeps its type.
THEOREM Typing == Spec => []TypeOK
<1>1. Init => TypeOK
  <2> SUFFICES ASSUME Init PROVE TypeOK
    OBVIOUS
  <2>1. RowTypeOK /\ CallTypeOK /\ WireTypeOK
    BY DEF Init, RowTypeOK, CallTypeOK, WireTypeOK, NoPayment
  <2>2. SweepTypeOK
    BY DEF Init, SweepTypeOK, IdleSweep, NoPayment
  <2>3. MoneyTypeOK
    <3>1. ledger \in Seq([order : Orders, req : Requests \cup {NoRequest}])
      BY EmptySeq DEF Init
    <3> QED
      BY <3>1, BoundsAssumption DEF Init, MoneyTypeOK
  <2> QED
    BY <2>1, <2>2, <2>3 DEF TypeOK
<1>2. TypeOK /\ [Next]_vars => TypeOK'
  BY RowTyping, CallTyping, WireTyping, SweepTyping, MoneyTyping DEF TypeOK
<1> QED
  BY <1>1, <1>2, PTL DEF Spec

-----------------------------------------------------------------------------
(* The rows.                                                                *)

\* A row that r's update may take to the status new: it is not COMPLETED, and it is in
\* flight if new holds the slot.
Movable(r, new) == /\ status[r] \in Statuses \ {"COMPLETED"}
                   /\ new \in Statuses
                   /\ new \in SlotHeld => status[r] \in InFlight

\* What a step does to the rows: nothing, one INSERT into a free slot, or one update.
LEMMA RowChange ==
  ASSUME TypeOK, [Next]_vars
  PROVE  \/ UNCHANGED <<status, paymentId, bornAt>>
         \/ \E r \in Requests : /\ status[r] = "ABSENT" /\ ~SlotTaken(r)
                                /\ status' = [status EXCEPT ![r] = "PENDING"]
                                /\ bornAt' = [bornAt EXCEPT ![r] = Len(ledger)]
                                /\ UNCHANGED paymentId
         \/ \E r \in Requests, new \in Statuses, payment \in Nat :
              /\ Movable(r, new)
              /\ status' = [status EXCEPT ![r] = new]
              /\ paymentId' = [paymentId EXCEPT ![r] = payment]
              /\ UNCHANGED bornAt
<1> DEFINE Goal ==
      \/ UNCHANGED <<status, paymentId, bornAt>>
      \/ \E r \in Requests : /\ status[r] = "ABSENT" /\ ~SlotTaken(r)
                             /\ status' = [status EXCEPT ![r] = "PENDING"]
                             /\ bornAt' = [bornAt EXCEPT ![r] = Len(ledger)]
                             /\ UNCHANGED paymentId
      \/ \E r \in Requests, new \in Statuses, payment \in Nat :
           /\ Movable(r, new)
           /\ status' = [status EXCEPT ![r] = new]
           /\ paymentId' = [paymentId EXCEPT ![r] = payment]
           /\ UNCHANGED bornAt
<1> USE RequestsAssumption, CallsAssumption DEF TypeOK, RowTypeOK
<1>1. CASE UNCHANGED rowVars
  BY <1>1 DEF rowVars
<1>2. ASSUME NEW c \in Calls, SendInsert(c) PROVE Goal
  BY <1>2 DEF SendInsert, RequestIdFree, rowVars
<1>3. ASSUME NEW x \in closing, CloseRow(x) PROVE Goal
  <2>1. /\ x.req \in Requests /\ x.payment \in Nat
        /\ resultToStatus(x.outcome) \in Final
    BY ResultStatus DEF WireTypeOK, Result
  <2>2. CASE status[x.req] \in InFlight \cup LateClosable
    <3>1. Movable(x.req, resultToStatus(x.outcome))
      BY <2>1, <2>2 DEF Movable, LateClosable, Final, InFlight, SlotHeld, Statuses
    <3>2. PICK payment \in Nat : paymentId' = [paymentId EXCEPT ![x.req] = payment]
      BY <1>3, <2>1, <2>2 DEF CloseRow
    <3> QED
      BY <1>3, <2>1, <2>2, <3>1, <3>2 DEF CloseRow, Statuses
  <2>3. CASE status[x.req] \notin InFlight \cup LateClosable
    BY <1>3, <2>3 DEF CloseRow
  <2> QED
    BY <2>2, <2>3
<1>4. ASSUME NEW s \in Sweepers, SweepWrite(s) PROVE Goal
  <2> DEFINE x == sweep[s].row
             payment == sweep[s].candidate
             new == SweepTo(x, payment)
  <2>1. payment \in Nat
    BY DEF SweepTypeOK
  <2>2. CASE status[x.req] \in SweepFrom(x, payment)
    <3>1. x.req \in Requests
      BY <1>4 DEF SweepTypeOK, SweepWrite, Snapshot
    <3>2. Movable(x.req, new)
      BY <2>2 DEF Movable, SweepFrom, SweepTo, InFlight, SlotHeld, Final, Statuses
    <3> QED
      BY <1>4, <2>1, <2>2, <3>1, <3>2 DEF SweepWrite, Movable
  <2>3. CASE status[x.req] \notin SweepFrom(x, payment)
    BY <1>4, <2>3 DEF SweepWrite
  <2> QED
    BY <2>2, <2>3
<1>5. ASSUME NEW r \in Requests, CancelMark(r) PROVE Goal
  <2>1. CASE status[r] \in InFlight /\ status' = [status EXCEPT ![r] = "CANCEL_REQUESTED"]
    <3>1. Movable(r, "CANCEL_REQUESTED")
      BY <2>1 DEF Movable, InFlight, SlotHeld, Final, Statuses
    <3>2. paymentId' = [paymentId EXCEPT ![r] = paymentId[r]]
      BY <1>5 DEF CancelMark
    <3> QED
      BY <1>5, <2>1, <3>1, <3>2 DEF CancelMark, Movable
  <2>2. CASE UNCHANGED status
    BY <1>5, <2>2 DEF CancelMark
  <2>3. \/ UNCHANGED status
        \/ status[r] \in InFlight /\ status' = [status EXCEPT ![r] = "CANCEL_REQUESTED"]
    BY <1>5 DEF CancelMark
  <2> QED
    BY <2>1, <2>2, <2>3
<1>6. ASSUME NEW r \in Requests, RecordPayment(r) PROVE Goal
  <2>1. CASE r \in Threaded /\ status[r] \in Reconcilable
    <3>1. Movable(r, "COMPLETED")
      BY <2>1 DEF Movable, Reconcilable, InFlight, SlotHeld, Final, Statuses
    <3>2. Len(ledger) + 1 \in Nat
      BY DEF MoneyTypeOK
    <3>3. PICK p \in Nat : /\ status' = [status EXCEPT ![r] = "COMPLETED"]
                           /\ paymentId' = [paymentId EXCEPT ![r] = p]
                           /\ UNCHANGED bornAt
      BY <1>6, <2>1, <3>2, Zenon DEF RecordPayment, closeRowFromPaymentTx
    <3> QED
      BY <3>1, <3>3 DEF Movable
  <2>2. CASE ~(r \in Threaded /\ status[r] \in Reconcilable)
    BY <1>6, <2>2 DEF RecordPayment, closeRowFromPaymentTx
  <2> QED
    BY <2>1, <2>2
<1> QED
  BY RowSteps, <1>1, <1>2, <1>3, <1>4, <1>5, <1>6

\* Two rows never hold the slot of one terminal: the index guards the INSERT, and no update
\* takes a row that left the held statuses back into them.
THEOREM SlotIsExclusive == Spec => []SlotExclusive
<1> USE RequestsAssumption
<1>1. Init => SlotExclusive
  BY DEF Init, SlotExclusive, SlotHeld, InFlight
<1>2. TypeOK /\ SlotExclusive /\ [Next]_vars => SlotExclusive'
  <2> SUFFICES ASSUME TypeOK, SlotExclusive, [Next]_vars PROVE SlotExclusive'
    OBVIOUS
  <2> USE DEF SlotExclusive, TypeOK, RowTypeOK
  <2>1. CASE UNCHANGED <<status, paymentId, bornAt>>
    BY <2>1
  <2>2. ASSUME NEW r \in Requests, ~SlotTaken(r), status' = [status EXCEPT ![r] = "PENDING"]
        PROVE  SlotExclusive'
    BY <2>2 DEF SlotTaken
  <2>3. ASSUME NEW r \in Requests, NEW new \in Statuses, Movable(r, new),
               status' = [status EXCEPT ![r] = new]
        PROVE  SlotExclusive'
    BY <2>3 DEF Movable, SlotHeld
  <2> QED
    BY RowChange, <2>1, <2>2, <2>3
<1> QED
  BY Typing, <1>1, <1>2, PTL DEF Spec

\* COMPLETED is immutable, and so is the payment the row names.
THEOREM CompletedStays == Spec => CompletedIsFinal
<1>1. ASSUME TypeOK, [Next]_vars, NEW r \in Requests, status[r] = "COMPLETED"
      PROVE  status'[r] = "COMPLETED" /\ paymentId'[r] = paymentId[r]
  <2> USE <1>1 DEF TypeOK, RowTypeOK
  <2>1. ASSUME NEW q \in Requests, status[q] = "ABSENT",
               status' = [status EXCEPT ![q] = "PENDING"], UNCHANGED paymentId
        PROVE  status'[r] = "COMPLETED" /\ paymentId'[r] = paymentId[r]
    BY <2>1
  <2>2. ASSUME NEW q \in Requests, NEW new \in Statuses, NEW payment \in Nat,
               Movable(q, new), status' = [status EXCEPT ![q] = new],
               paymentId' = [paymentId EXCEPT ![q] = payment]
        PROVE  status'[r] = "COMPLETED" /\ paymentId'[r] = paymentId[r]
    BY <2>2 DEF Movable
  <2> QED
    BY RowChange, <2>1, <2>2
<1>2. TypeOK /\ [Next]_vars =>
        [\A r \in Requests : status[r] = "COMPLETED" =>
           status'[r] = "COMPLETED" /\ paymentId'[r] = paymentId[r]]_vars
  BY <1>1
<1> QED
  BY Typing, <1>2, PTL DEF Spec, CompletedIsFinal

-----------------------------------------------------------------------------
(* The arbitration, while the lock is enabled.                              *)

\* A row, once inserted, never disappears.
LEMMA RowsStay ==
  ASSUME TypeOK, [Next]_vars, NEW r \in Requests, status[r] # "ABSENT"
  PROVE  status'[r] # "ABSENT" /\ bornAt'[r] = bornAt[r]
BY RowChange DEF TypeOK, RowTypeOK, Statuses, SlotHeld, InFlight, Final

\* Only the row's own call may emit, and it emits once.
LEMMA EmitterStep ==
  ASSUME LockEnabled, TypeOK, ArbitrationInv, [Next]_vars
  PROVE  (EmitterOwnsRow /\ OneEmission /\ EmittedHasRow)'
<1> DEFINE Goal == (EmitterOwnsRow /\ OneEmission /\ EmittedHasRow)'
<1> USE CallsAssumption
        DEF ArbitrationInv, EmitterOwnsRow, OneEmission, EmittedHasRow, TypeOK, CallTypeOK
<1>0. \A r \in Requests : status[r] # "ABSENT" => status'[r] # "ABSENT"
  BY RowsStay
<1>1. CASE UNCHANGED <<call, longPoll, emits, cancelling>>
  BY <1>0, <1>1
<1>2. ASSUME NEW c \in Calls, SendInsert(c) PROVE Goal
  <2> USE <1>2 DEF SendInsert, Advance
  <2>1. CASE RequestIdFree(RequestOf[c]) /\ ~SlotTaken(RequestOf[c])
    <3>1. /\ call' = [call EXCEPT ![c] = "emit"]
          /\ status' = [status EXCEPT ![RequestOf[c]] = "PENDING"]
          /\ status[RequestOf[c]] = "ABSENT"
          /\ UNCHANGED emits
      BY <2>1 DEF RequestIdFree
    <3> QED
      BY <1>0, <3>1 DEF RowTypeOK
  <2>2. CASE ~(RequestIdFree(RequestOf[c]) /\ ~SlotTaken(RequestOf[c]))
    BY <1>0, <2>2
  <2> QED
    BY <2>1, <2>2
<1>3. ASSUME NEW c \in Calls, SendCheck(c) \/ SendConflict(c) \/ SendTimeout(c) PROVE Goal
  <2>1. PICK pc \in {"insert", "done"} : call' = [call EXCEPT ![c] = pc]
    BY <1>3 DEF SendCheck, SendConflict, SendTimeout, RejectsBusy, Return, Advance
  <2>2. UNCHANGED emits
    BY <1>3 DEF SendCheck, SendConflict, SendTimeout
  <2> QED
    BY <1>0, <2>1, <2>2
<1>4. ASSUME NEW c \in Calls, SendEmit(c) PROVE Goal
  <2>1. /\ call[c] = "emit"
        /\ call' = [call EXCEPT ![c] = "await"]
        /\ emits' = [emits EXCEPT ![RequestOf[c]] = @ + 1]
    BY <1>4 DEF SendEmit, Advance
  <2> QED
    BY <1>0, <2>1
<1>5. ASSUME UNCHANGED emits, NEW r \in Requests, ResolveLongPoll(r) PROVE Goal
  BY <1>0, <1>5 DEF ResolveLongPoll, Return, Advance, callVars
<1>6. ASSUME NEW m \in net, HandlePaymentResult(m) PROVE Goal
  BY <1>5, <1>6 DEF HandlePaymentResult, WireTypeOK, Charge, Result
<1>7. ASSUME NEW r \in Requests, CancelMark(r) \/ CancelAnswer(r) PROVE Goal
  <2>1. CASE CancelMark(r)
    BY <1>0, <2>1 DEF CancelMark, callVars
  <2>2. CASE CancelAnswer(r)
    BY <1>5, <2>2 DEF CancelAnswer
  <2> QED
    BY <1>7, <2>1, <2>2
<1>8. CASE Restart
  BY <1>0, <1>8 DEF Restart
<1> QED
  BY CallSteps, <1>1, <1>2, <1>3, <1>4, <1>6, <1>7, <1>8 DEF CallStep

\* The terminal sees a charge once, and reports it when it is done with it.
LEMMA WireStep ==
  ASSUME LockEnabled, TypeOK, ArbitrationInv, [Next]_vars
  PROVE  WireIsHonest'
<1> USE RequestsAssumption, CallsAssumption
    DEF ArbitrationInv, WireIsHonest, TypeOK, CallTypeOK, WireTypeOK, Charge, Result, Reported
<1>0. \A r \in Requests : emits[r] > 0 => emits'[r] > 0
  <2>1. UNCHANGED emits \/ \E c \in Calls : SendEmit(c)
    BY CallSteps
    DEF CallStep, SendCheck, SendInsert, SendConflict, SendTimeout, HandlePaymentResult,
        CancelMark, CancelAnswer, Restart
  <2>2. ASSUME NEW c \in Calls, SendEmit(c)
        PROVE  emits' = [emits EXCEPT ![RequestOf[c]] = @ + 1]
    BY <2>2 DEF SendEmit
  <2> QED
    BY <2>1, <2>2
<1>1. CASE UNCHANGED wireVars
  BY <1>0, <1>1 DEF wireVars
<1>2. ASSUME NEW c \in Calls, SendEmit(c) PROVE WireIsHonest'
  <2>1. /\ emits[RequestOf[c]] = 0
        /\ emits' = [emits EXCEPT ![RequestOf[c]] = @ + 1]
        /\ UNCHANGED <<closing, phase>>
        /\ net' \subseteq net \cup {[type |-> "charge", req |-> RequestOf[c]]}
    BY <1>2 DEF SendEmit, EmitterOwnsRow
  <2> QED
    BY <1>0, <2>1
<1>3. ASSUME NEW m \in net, HandlePaymentResult(m) PROVE WireIsHonest'
  BY <1>0, <1>3 DEF HandlePaymentResult
<1>4. ASSUME NEW x \in closing, CloseRow(x) \/ CloseRowFails(x) PROVE WireIsHonest'
  BY <1>0, <1>4 DEF CloseRow, CloseRowFails
<1>5. ASSUME NEW r \in Requests, TerminalAccept(r) PROVE WireIsHonest'
  <2>1. phase[r] = "none" /\ emits[r] > 0
    BY <1>5 DEF TerminalAccept
  <2>2. /\ net' = net \ {[type |-> "charge", req |-> r]}
        /\ phase' \in {phase, [phase EXCEPT ![r] = "charging"]}
        /\ UNCHANGED closing
    BY <1>5 DEF TerminalAccept
  <2> QED
    BY <1>0, <2>1, <2>2
<1>6. ASSUME NEW r \in Requests, TerminalApprove(r) PROVE WireIsHonest'
  BY <1>0, <1>6 DEF TerminalApprove
<1>7. ASSUME NEW r \in Requests, TerminalReport(r) \/ TerminalRefuse(r) PROVE WireIsHonest'
  <2>1. PICK p \in Reported : phase' = [phase EXCEPT ![r] = p]
    BY <1>7 DEF TerminalReport, TerminalRefuse
  <2>2. phase[r] # "none" /\ UNCHANGED closing
    BY <1>7 DEF TerminalReport, TerminalRefuse
  <2>3. \A m \in net' : m \in net \/ (m.type = "result" /\ m.req = r)
    BY <1>7 DEF TerminalReport, TerminalRefuse, Report
  <2> QED
    BY <1>0, <2>1, <2>2, <2>3
<1>8. CASE Restart
  BY <1>0, <1>8 DEF Restart
<1> QED
  BY WireSteps, <1>1, <1>2, <1>3, <1>4, <1>5, <1>6, <1>7, <1>8

Entry == [order : Orders, req : Requests \cup {NoRequest}]

\* One payment is appended and the earlier ones stay where they are.
LEMMA Appended ==
  ASSUME ledger \in Seq(Entry), NEW e \in Entry, ledger' = Append(ledger, e)
  PROVE  /\ Len(ledger) \in Nat /\ Len(ledger') = Len(ledger) + 1
         /\ DOMAIN ledger = 1..Len(ledger) /\ DOMAIN ledger' = 1..Len(ledger')
         /\ \A i \in 1..Len(ledger) : ledger'[i] = ledger[i]
         /\ ledger'[Len(ledger) + 1] = e
<1>1. /\ ledger' \in Seq(Entry)
      /\ Len(ledger') = Len(ledger) + 1
      /\ \A i \in 1..Len(ledger) : ledger'[i] = ledger[i]
      /\ ledger'[Len(ledger) + 1] = e
  BY AppendProperties
<1>2. Len(ledger) \in Nat /\ DOMAIN ledger = 1..Len(ledger)
  BY LenProperties
<1>3. DOMAIN ledger' = 1..Len(ledger')
  BY <1>1, LenProperties
<1> QED
  BY <1>1, <1>2, <1>3

\* The entry a step appends, if any, is another tender or the payment of an approved charge.
LEMMA LedgerGrows ==
  ASSUME TypeOK, [Next]_vars
  PROVE  /\ Len(ledger) \in Nat /\ DOMAIN ledger = 1..Len(ledger)
         /\ \/ UNCHANGED ledger
            \/ /\ Len(ledger') = Len(ledger) + 1 /\ DOMAIN ledger' = 1..Len(ledger')
               /\ \A i \in 1..Len(ledger) : ledger'[i] = ledger[i]
               /\ LET e == ledger'[Len(ledger) + 1] IN
                  \/ e.req = NoRequest
                  \/ /\ e.req \in Requests /\ RecordPayment(e.req)
<1> USE RequestsAssumption DEF Entry
<1>0. ledger \in Seq(Entry)
  BY DEF TypeOK, MoneyTypeOK
<1>1. Len(ledger) \in Nat /\ DOMAIN ledger = 1..Len(ledger)
  BY <1>0, LenProperties
<1>2. ASSUME NEW r \in Requests, RecordPayment(r)
      PROVE  LET e == [order |-> OrderOf[r], req |-> r] IN
             e \in Entry /\ ledger' = Append(ledger, e)
  BY <1>2 DEF RecordPayment
<1>3. ASSUME NEW o \in Orders, OtherTender(o)
      PROVE  LET e == [order |-> o, req |-> NoRequest] IN
             e \in Entry /\ ledger' = Append(ledger, e)
  BY <1>3 DEF OtherTender
<1>4. ASSUME NEW r \in Requests, RecordPayment(r)
      PROVE  /\ Len(ledger') = Len(ledger) + 1 /\ DOMAIN ledger' = 1..Len(ledger')
             /\ \A i \in 1..Len(ledger) : ledger'[i] = ledger[i]
             /\ ledger'[Len(ledger) + 1].req = r
  <2> DEFINE e == [order |-> OrderOf[r], req |-> r]
  <2>1. e \in Entry /\ ledger' = Append(ledger, e)
    BY <1>2, <1>4
  <2>2. e.req = r
    OBVIOUS
  <2> HIDE DEF e
  <2> QED
    BY <1>0, <2>1, <2>2, Appended
<1>5. ASSUME NEW o \in Orders, OtherTender(o)
      PROVE  /\ Len(ledger') = Len(ledger) + 1 /\ DOMAIN ledger' = 1..Len(ledger')
             /\ \A i \in 1..Len(ledger) : ledger'[i] = ledger[i]
             /\ ledger'[Len(ledger) + 1].req = NoRequest
  <2> DEFINE e == [order |-> o, req |-> NoRequest]
  <2>1. e \in Entry /\ ledger' = Append(ledger, e)
    BY <1>3, <1>5
  <2>2. e.req = NoRequest
    OBVIOUS
  <2> HIDE DEF e
  <2> QED
    BY <1>0, <2>1, <2>2, Appended
<1> QED
  BY MoneySteps, <1>1, <1>4, <1>5

\* An entry that names a request is an earlier one, or the one this step records.
LEMMA EntryOrigin ==
  ASSUME TypeOK, [Next]_vars, NEW i \in DOMAIN ledger', ledger'[i].req # NoRequest
  PROVE  \/ i \in DOMAIN ledger /\ ledger'[i] = ledger[i]
         \/ ledger'[i].req \in Requests /\ RecordPayment(ledger'[i].req)
<1>1. Len(ledger) \in Nat /\ DOMAIN ledger = 1..Len(ledger)
  BY LedgerGrows
<1>2. CASE UNCHANGED ledger
  BY <1>2
<1>3. CASE i \in 1..Len(ledger) /\ \A j \in 1..Len(ledger) : ledger'[j] = ledger[j]
  BY <1>1, <1>3
<1>4. CASE ~UNCHANGED ledger /\ i \notin 1..Len(ledger)
  <2>1. i = Len(ledger) + 1
    BY <1>1, <1>4, LedgerGrows
  <2> QED
    BY <1>4, <2>1, LedgerGrows
<1> QED
  BY <1>2, <1>3, <1>4, LedgerGrows

\* The ledger only grows, and the terminal does not go back on an approval.
LEMMA LedgerStep ==
  ASSUME LockEnabled, TypeOK, ArbitrationInv, [Next]_vars
  PROVE  LedgerIsHonest'
<1> USE RequestsAssumption DEF TypeOK, MoneyTypeOK, ArbitrationInv, LedgerIsHonest
<1>1. Len(ledger) \in Nat /\ Len(ledger') \in Nat /\ Len(ledger) <= Len(ledger')
  <2>1. Len(ledger) \in Nat /\ (Len(ledger') = Len(ledger) \/ Len(ledger') = Len(ledger) + 1)
    BY LedgerGrows
  <2> QED
    BY <2>1
<1>2. \A r \in Requests : bornAt'[r] \in {bornAt[r], Len(ledger)}
  BY RowChange DEF RowTypeOK
<1>3. \A r \in Requests : bornAt'[r] <= Len(ledger')
  <2> SUFFICES ASSUME NEW r \in Requests PROVE bornAt'[r] <= Len(ledger')
    OBVIOUS
  <2>1. bornAt[r] \in Nat /\ bornAt[r] <= Len(ledger)
    BY DEF RowTypeOK
  <2>2. bornAt'[r] \in Nat /\ bornAt'[r] <= Len(ledger)
    BY <1>1, <1>2, <2>1
  <2> HIDE DEF TypeOK, MoneyTypeOK, ArbitrationInv, LedgerIsHonest
  <2> QED
    BY <1>1, <2>2
<1>4. \A r \in Requests : phase[r] \in {"approved", "settled"}
                            => phase'[r] \in {"approved", "settled"}
  <2>1. \A r \in Requests : [type |-> "charge", req |-> r] \in net => phase[r] = "none"
    BY DEF WireIsHonest
  <2>2. ASSUME NEW r \in Requests, TerminalAccept(r)
        PROVE  phase[r] = "none" /\ phase' \in {phase, [phase EXCEPT ![r] = "charging"]}
    BY <2>1, <2>2 DEF TerminalAccept
  <2>3. ASSUME NEW r \in Requests, TerminalApprove(r) \/ TerminalReport(r)
        PROVE  \E p \in {"approved", "settled"} : phase' = [phase EXCEPT ![r] = p]
    BY <2>3 DEF TerminalApprove, TerminalReport, WireTypeOK
  <2>4. ASSUME NEW r \in Requests, TerminalRefuse(r)
        PROVE  phase[r] = "charging" /\ \E p \in {"ended", "doubt"} :
                                          phase' = [phase EXCEPT ![r] = p]
    BY <2>4 DEF TerminalRefuse
  <2>5. \/ UNCHANGED phase
        \/ \E r \in Requests : \/ TerminalAccept(r) \/ TerminalApprove(r)
                               \/ TerminalReport(r) \/ TerminalRefuse(r)
    BY WireSteps
    DEF wireVars, SendEmit, HandlePaymentResult, CloseRow, CloseRowFails, Restart
  <2> QED
    BY <2>2, <2>3, <2>4, <2>5 DEF WireTypeOK
<1>5. ASSUME NEW i \in DOMAIN ledger', ledger'[i].req # NoRequest
      PROVE  phase'[ledger'[i].req] \in {"approved", "settled"}
  <2>1. CASE i \in DOMAIN ledger /\ ledger'[i] = ledger[i]
    <3>1. ledger[i].req \in Requests /\ phase[ledger[i].req] \in {"approved", "settled"}
      <4>1. ledger[i] \in Entry
        <5>1. ledger \in Seq(Entry)
          BY DEF Entry
        <5>2. ledger \in [1..Len(ledger) -> Entry] /\ DOMAIN ledger = 1..Len(ledger)
          BY <5>1, LenProperties
        <5> QED
          BY <2>1, <5>2
      <4>2. ledger[i].req # NoRequest
        BY <1>5, <2>1
      <4> QED
        BY <2>1, <4>1, <4>2 DEF Entry
    <3> QED
      BY <1>4, <2>1, <3>1
  <2>2. CASE ledger'[i].req \in Requests /\ RecordPayment(ledger'[i].req)
    BY <1>4, <2>2 DEF RecordPayment
  <2>3. \/ i \in DOMAIN ledger /\ ledger'[i] = ledger[i]
        \/ ledger'[i].req \in Requests /\ RecordPayment(ledger'[i].req)
    BY <1>5, EntryOrigin
  <2> QED
    BY <2>1, <2>2, <2>3
<1> QED
  BY <1>3, <1>5

\* A payment of an order stays one.
LEMMA CandidatesStay ==
  ASSUME TypeOK, [Next]_vars, NEW r \in Requests, status[r] # "ABSENT"
  PROVE  Candidates(r) \subseteq Candidates(r)'
<1>1. bornAt'[r] = bornAt[r]
  BY RowsStay
<1>2. \A i \in DOMAIN ledger : i \in DOMAIN ledger' /\ ledger'[i] = ledger[i]
  <2>1. CASE UNCHANGED ledger
    BY <2>1
  <2>2. CASE ~UNCHANGED ledger
    BY <2>2, LedgerGrows
  <2> QED
    BY <2>1, <2>2
<1> QED
  BY <1>1, <1>2 DEF Candidates

\* What a pass has read stays true until it writes.
LEMMA SweepHonestStep ==
  ASSUME LockEnabled, TypeOK, ArbitrationInv, [Next]_vars
  PROVE  SweepIsHonest'
<1> USE DEF TypeOK, SweepTypeOK, ArbitrationInv, SweepIsHonest, Snapshot
<1>0. \A r \in Requests : status[r] # "ABSENT" =>
        status'[r] # "ABSENT" /\ Candidates(r) \subseteq Candidates(r)'
  BY RowsStay, CandidatesStay
<1>1. CASE UNCHANGED sweep
  BY <1>0, <1>1
<1>2. ASSUME NEW s \in Sweepers, SweepScan(s) PROVE SweepIsHonest'
  BY <1>0, <1>2 DEF SweepScan, SnapshotOf, Sweepable, InFlight, rowVars
<1>3. ASSUME NEW s \in Sweepers, SweepCandidate(s) PROVE SweepIsHonest'
  BY <1>0, <1>3 DEF SweepCandidate, IsLatest, NoPayment
<1>4. ASSUME NEW s \in Sweepers, SweepClaim(s) PROVE SweepIsHonest'
  BY <1>0, <1>4 DEF SweepClaim, NoPayment
<1>5. ASSUME NEW s \in Sweepers, SweepWrite(s) PROVE SweepIsHonest'
  BY <1>0, <1>5 DEF SweepWrite, IdleSweep
<1>6. ASSUME NEW s \in Sweepers, SweepFails(s) PROVE SweepIsHonest'
  BY <1>0, <1>6 DEF SweepFails, IdleSweep
<1>7. CASE Restart
  BY <1>7 DEF Restart, IdleSweep
<1> QED
  BY SweepSteps, <1>1, <1>2, <1>3, <1>4, <1>5, <1>6, <1>7 DEF SweepStep

\* A recorded payment that names its request closes the row, and nothing reopens it.
LEMMA RecordedStep ==
  ASSUME LockEnabled, TypeOK, ArbitrationInv, [Next]_vars
  PROVE  RecordedIsCompleted'
<1> USE RequestsAssumption DEF TypeOK, RowTypeOK, ArbitrationInv
<1>1. \A r \in Requests : status[r] = "COMPLETED" => status'[r] = "COMPLETED"
  BY RowChange DEF Movable
<1>2. ASSUME NEW r \in Threaded, RecordPayment(r) PROVE status'[r] = "COMPLETED"
  <2>1. status[r] # "ABSENT"
    BY <1>2 DEF RecordPayment, WireIsHonest, EmittedHasRow
  <2>2. CASE status[r] \in Reconcilable
    BY <1>2, <2>2 DEF RecordPayment, closeRowFromPaymentTx
  <2>3. CASE status[r] \notin Reconcilable
    BY <1>1, <2>1, <2>3 DEF Reconcilable
  <2> QED
    BY <2>2, <2>3
<1> SUFFICES ASSUME NEW r \in Threaded, Recorded(r)' PROVE status'[r] = "COMPLETED"
  BY DEF RecordedIsCompleted
<1>3. PICK i \in DOMAIN ledger' : ledger'[i].req = r
  BY DEF Recorded
<1>4. \/ i \in DOMAIN ledger /\ ledger'[i] = ledger[i]
      \/ RecordPayment(r)
  BY <1>3, EntryOrigin
<1>5. CASE i \in DOMAIN ledger /\ ledger'[i] = ledger[i]
  BY <1>1, <1>3, <1>5 DEF Recorded, RecordedIsCompleted
<1> QED
  BY <1>2, <1>4, <1>5

\* While the lock is enabled, every reachable state satisfies ArbitrationInv: a requestId is
\* emitted at most once and never without a row, and a payment that names its request has
\* completed it.
THEOREM Arbitration == ASSUME LockEnabled PROVE Spec => []ArbitrationInv
<1>1. Init => ArbitrationInv
  <2> SUFFICES ASSUME Init PROVE ArbitrationInv
    OBVIOUS
  <2>1. EmitterOwnsRow /\ OneEmission /\ EmittedHasRow
    BY CallsAssumption DEF Init, EmitterOwnsRow, OneEmission, EmittedHasRow
  <2>2. WireIsHonest /\ SweepIsHonest
    BY DEF Init, WireIsHonest, SweepIsHonest, IdleSweep
  <2>3. LedgerIsHonest /\ RecordedIsCompleted
    <3>1. DOMAIN ledger = {} /\ Len(ledger) = 0
      BY DEF Init
    <3> QED
      BY <3>1 DEF Init, LedgerIsHonest, RecordedIsCompleted, Recorded
  <2> QED
    BY <2>1, <2>2, <2>3 DEF ArbitrationInv
<1>2. TypeOK /\ ArbitrationInv /\ [Next]_vars => ArbitrationInv'
  BY EmitterStep, WireStep, LedgerStep, SweepHonestStep, RecordedStep DEF ArbitrationInv
<1> QED
  BY Typing, <1>1, <1>2, PTL DEF Spec

\* A requestId reaches its terminal at most once, over any calls, retries and faults.
THEOREM EmittedOnce == ASSUME LockEnabled PROVE Spec => []OneEmission
<1>1. ArbitrationInv => OneEmission
  BY DEF ArbitrationInv
<1> QED
  BY Arbitration, <1>1, PTL

\* Every charge that was emitted has a row.
THEOREM EmittedIsDurable == ASSUME LockEnabled PROVE Spec => []EmittedHasRow
<1>1. ArbitrationInv => EmittedHasRow
  BY DEF ArbitrationInv
<1> QED
  BY Arbitration, <1>1, PTL

\* A payment that names its request has completed it.
THEOREM RecordedCompletes == ASSUME LockEnabled PROVE Spec => []RecordedIsCompleted
<1>1. ArbitrationInv => RecordedIsCompleted
  BY DEF ArbitrationInv
<1> QED
  BY Arbitration, <1>1, PTL

-----------------------------------------------------------------------------
(* What frees a slot.                                                       *)

\* The step that takes a row out of the held statuses is a terminal's result, a payment of
\* the request, or a pass with a candidate payment or a requested cancel.
LEMMA FreedStep ==
  ASSUME LockEnabled, TypeOK, ArbitrationInv, [Next]_vars,
         NEW r \in Requests, status[r] \in SlotHeld, status'[r] \notin SlotHeld
  PROVE  \/ phase[r] \in {"settled", "ended", "doubt"}
         \/ Candidates(r)' # {}
         \/ status[r] = "CANCEL_REQUESTED"
<1> DEFINE Goal == \/ phase[r] \in {"settled", "ended", "doubt"}
                   \/ Candidates(r)' # {}
                   \/ status[r] = "CANCEL_REQUESTED"
<1> USE RequestsAssumption, CallsAssumption DEF TypeOK, RowTypeOK, ArbitrationInv
<1>0. status[r] # "ABSENT" /\ Candidates(r) \subseteq Candidates(r)'
  BY CandidatesStay DEF SlotHeld, InFlight
<1>1. CASE UNCHANGED rowVars
  BY <1>1 DEF rowVars
<1>2. ASSUME NEW c \in Calls, SendInsert(c) PROVE Goal
  <2>1. status' = status \/ status' = [status EXCEPT ![RequestOf[c]] = "PENDING"]
    BY <1>2 DEF SendInsert, rowVars
  <2> QED
    BY <2>1 DEF SlotHeld, InFlight
<1>3. ASSUME NEW x \in closing, CloseRow(x) PROVE Goal
  <2>1. phase[x.req] \in {"settled", "ended", "doubt"}
    BY DEF WireIsHonest, WireTypeOK, Result, Reported
  <2>2. x.req # r => status'[r] = status[r]
    BY <1>3 DEF CloseRow
  <2> QED
    BY <2>1, <2>2
<1>4. ASSUME NEW s \in Sweepers, SweepWrite(s) PROVE Goal
  <2> DEFINE x == sweep[s].row
             payment == sweep[s].candidate
  <2>1. /\ status[x.req] \in SweepFrom(x, payment)
        /\ status' = [status EXCEPT ![x.req] = SweepTo(x, payment)]
        /\ x.req = r
    BY <1>4 DEF SweepWrite
  <2>2. CASE payment = NoPayment
    BY <2>1, <2>2 DEF SweepFrom, SweepTo, SlotHeld
  <2>3. CASE payment # NoPayment
    BY <1>0, <1>4, <2>1, <2>3 DEF SweepIsHonest, SweepWrite
  <2> QED
    BY <2>2, <2>3
<1>5. ASSUME NEW q \in Requests, CancelMark(q) PROVE Goal
  BY <1>5 DEF CancelMark, SlotHeld, InFlight
<1>6. ASSUME NEW q \in Requests, RecordPayment(q) PROVE Goal
  <2>1. q = r
    BY <1>6 DEF RecordPayment, closeRowFromPaymentTx
  <2>2. /\ Len(ledger) \in Nat /\ bornAt'[r] = bornAt[r] /\ bornAt[r] \in Nat
        /\ bornAt[r] <= Len(ledger)
    BY <1>0, RowsStay, LedgerGrows DEF LedgerIsHonest
  <2>3. /\ DOMAIN ledger' = 1..Len(ledger')
        /\ Len(ledger') = Len(ledger) + 1
        /\ ledger'[Len(ledger) + 1].order = OrderOf[r]
    <3> DEFINE e == [order |-> OrderOf[r], req |-> r]
    <3>1. e \in Entry /\ ledger \in Seq(Entry) /\ ledger' = Append(ledger, e)
      BY <1>6, <2>1 DEF RecordPayment, MoneyTypeOK, Entry
    <3>2. e.order = OrderOf[r]
      OBVIOUS
    <3> HIDE DEF e
    <3> QED
      BY <3>1, <3>2, Appended
  <2>4. Len(ledger) + 1 \in Candidates(r)'
    <3>1. Len(ledger) + 1 \in 1..(Len(ledger) + 1) /\ Len(ledger) + 1 > bornAt'[r]
      BY <2>2
    <3> QED
      BY <2>3, <3>1 DEF Candidates
  <2> QED
    BY <2>4
<1> QED
  BY RowSteps, <1>1, <1>2, <1>3, <1>4, <1>5, <1>6

\* The slot of a terminal is never freed blind.
THEOREM NeverFreedBlind == ASSUME LockEnabled PROVE Spec => FreedOnEvidence
<1>1. TypeOK /\ ArbitrationInv /\ [Next]_vars =>
        [\A r \in Requests : (status[r] \in SlotHeld /\ status'[r] \notin SlotHeld) =>
           \/ phase[r] \in {"settled", "ended", "doubt"}
           \/ Candidates(r)' # {}
           \/ status[r] = "CANCEL_REQUESTED"]_vars
  BY FreedStep
<1> QED
  BY Typing, Arbitration, <1>1, PTL DEF Spec, FreedOnEvidence

-----------------------------------------------------------------------------
(* The rows implement the slots of ChargeSlots.                             *)

\* The refinement mapping reads the one holder of a terminal, or that there is none.
SlotOfIsHolder ==
  /\ \A r \in Requests : status[r] \in SlotHeld => SlotOf[TerminalOf[r]] = r
  /\ \A t \in Terminals :
       (\A r \in Requests : TerminalOf[r] = t => status[r] \notin SlotHeld)
         => SlotOf[t] = NoRequest

LEMMA SlotHolder == SlotExclusive => SlotOfIsHolder
<1> SUFFICES ASSUME SlotExclusive PROVE SlotOfIsHolder
  OBVIOUS
<1> USE RequestsAssumption
<1>1. ASSUME NEW r \in Requests, status[r] \in SlotHeld
      PROVE  SlotOf[TerminalOf[r]] = r
  <2>1. Holding(TerminalOf[r]) = {r}
    BY <1>1 DEF Holding, SlotExclusive
  <2> QED
    BY <2>1 DEF SlotOf
<1>2. ASSUME NEW t \in Terminals,
             \A r \in Requests : TerminalOf[r] = t => status[r] \notin SlotHeld
      PROVE  SlotOf[t] = NoRequest
  <2>1. Holding(t) = {}
    BY <1>2 DEF Holding
  <2> QED
    BY <2>1 DEF SlotOf
<1> QED
  BY <1>1, <1>2 DEF SlotOfIsHolder

\* The slot of a terminal changes only with a row of that terminal.
LEMMA SlotFrame ==
  ASSUME SlotOfIsHolder, SlotOfIsHolder', NEW q \in Requests,
         \A r \in Requests : r # q => status'[r] = status[r]
  PROVE  \A t \in Terminals : t # TerminalOf[q] => SlotOf'[t] = SlotOf[t]
<1> USE RequestsAssumption
<1> SUFFICES ASSUME NEW t \in Terminals, t # TerminalOf[q] PROVE SlotOf'[t] = SlotOf[t]
  OBVIOUS
<1>1. CASE \E r \in Requests : TerminalOf[r] = t /\ status[r] \in SlotHeld
  BY <1>1 DEF SlotOfIsHolder
<1>2. CASE \A r \in Requests : TerminalOf[r] = t => status[r] \notin SlotHeld
  <2>1. \A r \in Requests : TerminalOf[r] = t => status'[r] \notin SlotHeld
    BY <1>2
  <2> QED
    BY <1>2, <2>1 DEF SlotOfIsHolder
<1> QED
  BY <1>1, <1>2

\* Two functions that agree except perhaps at q differ by an update at q.
LEMMA Update ==
  ASSUME NEW S, NEW f, NEW g, f = [x \in S |-> f[x]], g = [x \in S |-> g[x]],
         NEW q \in S, \A x \in S : x # q => g[x] = f[x]
  PROVE  g = [f EXCEPT ![q] = g[q]]
OBVIOUS

\* Two functions that agree everywhere are equal.
LEMMA Equal ==
  ASSUME NEW S, NEW f, NEW g, f = [x \in S |-> f[x]], g = [x \in S |-> g[x]],
         \A x \in S : g[x] = f[x]
  PROVE  g = f
<1>1. [x \in S |-> g[x]] = [x \in S |-> f[x]]
  OBVIOUS
<1> QED
  BY <1>1, Zenon

\* The mapped slots are a function on the terminals, the mapped charges one on the requests.
LEMMA Mapped ==
  /\ SlotOf = [t \in Terminals |-> SlotOf[t]]
  /\ ChargeOf = [r \in Requests |-> ChargeOf[r]]
  /\ \A r \in Requests : ChargeOf[r] = Meaning(status[r])
BY DEF SlotOf, ChargeOf

\* What each status means.
LEMMA Meanings ==
  /\ Meaning("ABSENT") = "none" /\ Meaning("UNKNOWN") = "doubtful"
  /\ Meaning("COMPLETED") = "charged"
  /\ \A st \in InFlight : Meaning(st) = "open"
  /\ \A st \in {"FAILED", "CANCELLED", "TIMED_OUT"} : Meaning(st) = "closed"
BY DEF Meaning, InFlight

\* How the mapped state follows the update of one row.
LEMMA MappedUpdate ==
  ASSUME SlotOfIsHolder, SlotOfIsHolder', status \in [Requests -> Statuses \cup {"ABSENT"}],
         NEW q \in Requests, NEW new \in Statuses, status' = [status EXCEPT ![q] = new]
  PROVE  /\ ChargeOf[q] = Meaning(status[q])
         /\ ChargeOf' = [ChargeOf EXCEPT ![q] = Meaning(new)]
         /\ SlotOf' = [SlotOf EXCEPT ![TerminalOf[q]] = SlotOf'[TerminalOf[q]]]
         /\ Meaning(new) = Meaning(status[q]) => ChargeOf' = ChargeOf
         /\ SlotOf'[TerminalOf[q]] = SlotOf[TerminalOf[q]] => SlotOf' = SlotOf
<1>1. /\ ChargeOf' = [r \in Requests |-> ChargeOf'[r]]
      /\ \A r \in Requests : ChargeOf'[r] = Meaning(status'[r])
  BY DEF ChargeOf
<1>2. \A r \in Requests : r # q => ChargeOf'[r] = ChargeOf[r]
  BY <1>1, Mapped
<1>3. ChargeOf' = [ChargeOf EXCEPT ![q] = ChargeOf'[q]]
  BY <1>1, <1>2, Mapped, Update
<1>4. ChargeOf'[q] = ChargeOf[q] => ChargeOf' = ChargeOf
  <2> SUFFICES ASSUME ChargeOf'[q] = ChargeOf[q] PROVE ChargeOf' = ChargeOf
    OBVIOUS
  <2>1. \A r \in Requests : ChargeOf'[r] = ChargeOf[r]
    BY <1>2
  <2> QED
    BY <1>1, <2>1, Mapped, Equal
<1>5. SlotOf' = [t \in Terminals |-> SlotOf'[t]]
  BY DEF SlotOf
<1>6. \A t \in Terminals : t # TerminalOf[q] => SlotOf'[t] = SlotOf[t]
  BY SlotFrame
<1>7. SlotOf' = [SlotOf EXCEPT ![TerminalOf[q]] = SlotOf'[TerminalOf[q]]]
  <2>1. TerminalOf[q] \in Terminals
    BY RequestsAssumption
  <2> QED
    BY <1>5, <1>6, <2>1, Mapped, Update
<1>8. SlotOf'[TerminalOf[q]] = SlotOf[TerminalOf[q]] => SlotOf' = SlotOf
  BY <1>5, <1>6, Mapped, Equal
<1>9. ChargeOf[q] = Meaning(status[q]) /\ ChargeOf'[q] = Meaning(new)
  BY <1>1, Mapped
<1> QED
  BY <1>3, <1>4, <1>7, <1>8, <1>9

\* Every step of the code opens, doubts, settles or corrects one charge, or shows nothing.
LEMMA SlotsStep ==
  ASSUME TypeOK, SlotOfIsHolder, SlotOfIsHolder', [Next]_vars
  PROVE  [Slots!Next]_<<SlotOf, ChargeOf>>
<1> USE RequestsAssumption DEF TypeOK, RowTypeOK
<1>1. CASE UNCHANGED status
  BY <1>1 DEF SlotOf, ChargeOf, Holding
<1>2. ASSUME NEW q \in Requests, status[q] = "ABSENT", ~SlotTaken(q),
             status' = [status EXCEPT ![q] = "PENDING"]
      PROVE  Slots!Open(q)
  <2>1. SlotOf[TerminalOf[q]] = NoRequest
    BY <1>2 DEF SlotOfIsHolder, SlotTaken
  <2>2. SlotOf'[TerminalOf[q]] = q
    BY <1>2 DEF SlotOfIsHolder, SlotHeld, InFlight
  <2>3. ChargeOf[q] = "none" /\ ChargeOf' = [ChargeOf EXCEPT ![q] = "open"]
    <3>1. "PENDING" \in Statuses /\ "PENDING" \in InFlight
      BY DEF Statuses, SlotHeld, InFlight
    <3>2. /\ ChargeOf[q] = Meaning(status[q])
          /\ ChargeOf' = [ChargeOf EXCEPT ![q] = Meaning("PENDING")]
      BY <1>2, <3>1, MappedUpdate
    <3>3. Meaning("PENDING") = "open"
      BY <3>1, Meanings
    <3> QED
      BY <1>2, <3>2, <3>3, Meanings
  <2>4. SlotOf' = [SlotOf EXCEPT ![TerminalOf[q]] = q]
    BY <1>2, <2>2, MappedUpdate DEF Statuses, SlotHeld, InFlight
  <2> QED
    BY <2>1, <2>3, <2>4 DEF Slots!Open
<1>3. ASSUME NEW q \in Requests, NEW new \in Statuses, Movable(q, new),
             status' = [status EXCEPT ![q] = new]
      PROVE  [Slots!Next]_<<SlotOf, ChargeOf>>
  <2>1. /\ ChargeOf[q] = Meaning(status[q])
        /\ ChargeOf' = [ChargeOf EXCEPT ![q] = Meaning(new)]
        /\ SlotOf' = [SlotOf EXCEPT ![TerminalOf[q]] = SlotOf'[TerminalOf[q]]]
    BY <1>3, MappedUpdate
  <2>2. /\ Meaning(new) = Meaning(status[q]) => ChargeOf' = ChargeOf
        /\ SlotOf'[TerminalOf[q]] = SlotOf[TerminalOf[q]] => SlotOf' = SlotOf
    BY <1>3, MappedUpdate
  <2>3. CASE new \in SlotHeld
    <3>1. /\ status[q] \in InFlight
          /\ SlotOf[TerminalOf[q]] = q /\ SlotOf'[TerminalOf[q]] = q
      BY <1>3, <2>3 DEF Movable, SlotOfIsHolder, SlotHeld
    <3>2. SlotOf' = SlotOf
      BY <2>2, <3>1
    <3>3. Meaning(status[q]) = "open" /\ Meaning(new) \in {"open", "doubtful"}
      BY <2>3, <3>1, Meanings DEF SlotHeld
    <3>4. ChargeOf' = ChargeOf \/ ChargeOf' = [ChargeOf EXCEPT ![q] = "doubtful"]
      BY <2>1, <2>2, <3>3
    <3> QED
      BY <2>1, <3>2, <3>3, <3>4 DEF Slots!Next, Slots!Doubt
  <2>4. CASE new \notin SlotHeld /\ status[q] \in SlotHeld
    <3>1. SlotOf[TerminalOf[q]] = q
      BY <2>4 DEF SlotOfIsHolder
    <3>2. SlotOf'[TerminalOf[q]] = NoRequest
      <4>1. \A r \in Requests : (r # q /\ TerminalOf[r] = TerminalOf[q])
                                  => status[r] \notin SlotHeld
        BY <3>1 DEF SlotOfIsHolder
      <4>2. \A r \in Requests : TerminalOf[r] = TerminalOf[q] => status'[r] \notin SlotHeld
        BY <1>3, <2>4, <4>1
      <4> QED
        BY <4>2 DEF SlotOfIsHolder
    <3>3. Meaning(new) \in {"closed", "charged"}
      <4>1. new \in {"FAILED", "CANCELLED", "TIMED_OUT", "COMPLETED"}
        BY <2>4 DEF Statuses, Final
      <4> QED
        BY <4>1, Meanings
    <3> QED
      BY <2>1, <3>1, <3>2, <3>3 DEF Slots!Next, Slots!Settle
  <2>5. CASE new \notin SlotHeld /\ status[q] \notin SlotHeld
    <3>1. SlotOf' = SlotOf
      <4> DEFINE t == TerminalOf[q]
      <4>1. \A r \in Requests : status'[r] \in SlotHeld <=> status[r] \in SlotHeld
        BY <1>3, <2>5
      <4>2. ASSUME \E r \in Requests : TerminalOf[r] = t /\ status[r] \in SlotHeld
            PROVE  SlotOf'[t] = SlotOf[t]
        BY <4>1, <4>2 DEF SlotOfIsHolder
      <4>3. ASSUME \A r \in Requests : TerminalOf[r] = t => status[r] \notin SlotHeld
            PROVE  SlotOf'[t] = SlotOf[t]
        <5>1. t \in Terminals
          OBVIOUS
        <5> QED
          BY <4>1, <4>3, <5>1 DEF SlotOfIsHolder
      <4>4. SlotOf'[t] = SlotOf[t]
        BY <4>2, <4>3
      <4> QED
        BY <2>2, <4>4
    <3>2. Meaning(status[q]) = "closed" /\ Meaning(new) \in {"closed", "charged"}
      <4>1. /\ new \in {"FAILED", "CANCELLED", "TIMED_OUT", "COMPLETED"}
            /\ status[q] \in {"FAILED", "CANCELLED", "TIMED_OUT"}
        BY <1>3, <2>5 DEF Movable, Statuses, Final
      <4> QED
        BY <4>1, Meanings
    <3>3. ChargeOf' = ChargeOf \/ ChargeOf' = [ChargeOf EXCEPT ![q] = "charged"]
      BY <2>1, <2>2, <3>2
    <3> QED
      BY <2>1, <3>1, <3>2, <3>3 DEF Slots!Next, Slots!Correct
  <2> QED
    BY <2>3, <2>4, <2>5
<1> QED
  BY RowChange, <1>1, <1>2, <1>3 DEF Slots!Next

\* The code implements the slots.
THEOREM Refinement == Spec => ImplementsChargeSlots
<1>1. Init => Slots!Init
  <2> SUFFICES ASSUME Init PROVE Slots!Init
    OBVIOUS
  <2>1. SlotOf = [t \in Terminals |-> NoRequest]
    <3>1. \A t \in Terminals : Holding(t) = {}
      BY DEF Init, Holding, SlotHeld, InFlight
    <3> QED
      BY <3>1 DEF SlotOf
  <2>2. ChargeOf = [r \in Requests |-> "none"]
    BY Meanings DEF Init, ChargeOf
  <2> QED
    BY <2>1, <2>2 DEF Slots!Init
<1>2. SlotExclusive' => SlotOfIsHolder'
  BY SlotHolder, PTL
<1>3. TypeOK /\ SlotExclusive /\ SlotExclusive' /\ [Next]_vars
        => [Slots!Next]_<<SlotOf, ChargeOf>>
  BY SlotHolder, <1>2, SlotsStep
<1> QED
  BY Typing, SlotIsExclusive, <1>1, <1>3, PTL DEF Spec, ImplementsChargeSlots, Slots!Spec
=============================================================================
