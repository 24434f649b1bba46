-------------------------- MODULE CalendarPushProofs --------------------------
(* What holds of CalendarPush for any reservations and workers, however     *)
(* many calls are refused, lost or cut.  From Inv: the outbox is well typed,*)
(* rows are given up late enough, and a row that succeeded is on the        *)
(* calendar.  From PushInv, which goes reservation by reservation: there is *)
(* one event at most, none after a cancellation, and it shows the latest.   *)
(*                                                                         *)
(* Inv says what a worker has in hand at each point, and what the calls     *)
(* have in hand that left their transaction.  Most steps leave it to others *)
(* as it was: what a worker knows of rows, events and reservations is never *)
(* taken back (Grows).  PushInv adds what it knows because it has the lock: *)
(* every other reservation is passed by (OthersPassedBy), and of its own it *)
(* is the only one to change anything (OnlyHolder).                         *)
EXTENDS CalendarPush, SequenceTheorems, FiniteSetTheorems, TLAPS

Ops == {"CREATE", "UPDATE", "CANCEL"}

WorkerType ==
  [pc : {"idle", "read", "finish"} \cup Calling, row : Nat, version : 0..MaxVersion,
   attempts : Nat, event : Nat, outcome : {"none", "SUCCESS", "SKIPPED", "error"}]

CallType ==
  [pc : Calling, source : Sources, version : 1..MaxVersion,
   event : Nat, number : Nat]

EventType == [source : Sources, version : 1..MaxVersion, live : BOOLEAN]

RequestType == [pc : {"none", "found", "done"}, row : Nat]

FaultType == [refused : Nat, other : Nat]

Types ==
  /\ source \in [Sources -> [state : {"none", "booked", "cancelled"}, version : 0..MaxVersion]]
  /\ rows \in Seq(RowType)
  /\ events \in Seq(EventType)
  /\ mapping \in [Sources -> Nat]
  /\ worker \in [Workers -> WorkerType]
  /\ stray \subseteq CallType
  /\ operator \in [Operators -> RequestType]
  /\ faults \in FaultType

\* An event of this reservation.
IsEventOf(e, s) == e \in DOMAIN events /\ events[e].source = s

SourceInv(s) ==
  /\ source[s].version = 0 <=> source[s].state = "none"
  /\ mapping[s] # 0 => IsEventOf(mapping[s], s)

RowInv(n) ==
  LET s == rows[n].source IN
  /\ source[s].version # 0
  /\ rows[n].op = "CANCEL" => source[s].state = "cancelled"
  /\ rows[n].status = "DEAD_LETTER" => rows[n].attempts >= MAX_ATTEMPTS \/ Retried(n)
  /\ rows[n].status = "SUCCESS" /\ rows[n].op # "CANCEL" => mapping[s] # 0

\* Events are cancelled for cancellations only.
EventInv(e) == events[e].live \/ source[events[e].source].state = "cancelled"

WorkerInv(w) ==
  LET h == worker[w] IN
  h.pc # "idle" =>
    /\ h.row \in DOMAIN rows
    /\ h.attempts <= rows[h.row].attempts \/ Retried(h.row)
    /\ h.pc # "finish" => h.version # 0
    /\ h.event # 0 => IsEventOf(h.event, rows[h.row].source)
    /\ h.pc \in {"patch", "delete"} => h.event # 0
    /\ h.pc = "delete" => rows[h.row].op = "CANCEL"
    /\ h.pc = "finish" =>
         /\ h.outcome # "none"
         /\ h.outcome = "SUCCESS" /\ h.event = 0 => rows[h.row].op = "CANCEL"

CallInv(call) ==
  /\ call.pc \in {"patch", "delete"} => IsEventOf(call.event, call.source)
  /\ call.pc = "delete" => source[call.source].state = "cancelled"

Inv ==
  /\ Types
  /\ \A s \in Sources : SourceInv(s)
  /\ \A n \in DOMAIN rows : RowInv(n)
  /\ \A e \in DOMAIN events : EventInv(e)
  /\ \A w \in Workers : WorkerInv(w)
  /\ \A call \in stray : CallInv(call)

-----------------------------------------------------------------------------
(* What is never taken back.                                                *)

RowsGrow ==
  \A n \in DOMAIN rows :
    /\ n \in DOMAIN rows'
    /\ rows'[n].source = rows[n].source /\ rows'[n].op = rows[n].op
    /\ rows'[n].attempts >= rows[n].attempts \/ Retried(n)'
    /\ Retried(n) => Retried(n)'

EventsGrow ==
  \A e \in DOMAIN events : e \in DOMAIN events' /\ events'[e].source = events[e].source

SourcesGrow ==
  \A s \in Sources :
    /\ source[s].version # 0 => source'[s].version # 0
    /\ source[s].state = "cancelled" => source'[s].state = "cancelled"

Grows == RowsGrow /\ EventsGrow /\ SourcesGrow

LEMMA RowTyped ==
  ASSUME Types, NEW n \in DOMAIN rows
  PROVE  /\ rows[n] \in RowType /\ rows[n].attempts \in Nat /\ rows[n].source \in Sources
<1>1. rows[n] \in RowType
  BY DEF Types
<1> QED
  BY <1>1 DEF RowType

LEMMA WorkerTyped ==
  ASSUME Types, NEW w \in Workers
  PROVE  /\ worker[w] \in WorkerType /\ worker[w].attempts \in Nat /\ worker[w].event \in Nat
         /\ worker[w].row \in Nat /\ worker[w].version \in 0..MaxVersion
<1>1. worker[w] \in WorkerType
  BY DEF Types
<1> QED
  BY <1>1 DEF WorkerType

LEMMA WorkerKept ==
  ASSUME Types, Types', Grows, NEW w \in Workers, WorkerInv(w), worker'[w] = worker[w]
  PROVE  WorkerInv(w)'
<1> DEFINE h == worker[w]
<1>1. SUFFICES ASSUME h.pc # "idle"
      PROVE  WorkerInv(w)'
  BY DEF WorkerInv
<1>2. /\ h.row \in DOMAIN rows /\ h.row \in DOMAIN rows'
      /\ rows'[h.row].source = rows[h.row].source /\ rows'[h.row].op = rows[h.row].op
      /\ h.attempts <= rows[h.row].attempts \/ Retried(h.row)'
      /\ rows[h.row].attempts <= rows'[h.row].attempts \/ Retried(h.row)'
  BY <1>1 DEF WorkerInv, Grows, RowsGrow
<1>3. h.attempts <= rows'[h.row].attempts \/ Retried(h.row)'
  <2>1. h.attempts \in Nat /\ rows[h.row].attempts \in Nat
    BY <1>2, WorkerTyped, RowTyped
  <2>2. rows'[h.row].attempts \in Nat
    <3>1. rows'[h.row] \in RowType
      BY <1>2 DEF Types
    <3> QED
      BY <3>1 DEF RowType
  <2> QED
    BY <1>2, <2>1, <2>2
<1>4. h.event # 0 => IsEventOf(h.event, rows[h.row].source)'
  BY <1>1, <1>2 DEF WorkerInv, Grows, EventsGrow, IsEventOf
<1> QED
  BY <1>1, <1>2, <1>3, <1>4 DEF WorkerInv

LEMMA CallKept ==
  ASSUME Types, Grows, NEW call \in stray, CallInv(call)
  PROVE  CallInv(call)'
<1>1. call \in CallType
  BY DEF Types
<1>2. call.source \in Sources
  BY <1>1 DEF CallType
<1> QED
  BY <1>2 DEF CallInv, Grows, EventsGrow, SourcesGrow, IsEventOf

LEMMA InitInv == Init => Inv
<1> SUFFICES ASSUME Init PROVE Inv
  OBVIOUS
<1>1. Types
  BY CalendarAssumption DEF Init, Types, WorkerType, Idle, Calling, RequestType, FaultType
<1>2. \A s \in Sources : SourceInv(s)
  BY DEF Init, SourceInv
<1>3. \A w \in Workers : WorkerInv(w)
  BY DEF Init, WorkerInv, Idle
<1> QED
  BY <1>1, <1>2, <1>3 DEF Inv, Init

-----------------------------------------------------------------------------
(* Steps of one worker.                                                     *)

\* Nothing but what this worker has in hand changes.
Alone(w) ==
  /\ UNCHANGED <<source, rows, mapping, events, stray, operator>>
  /\ worker' \in [Workers -> WorkerType] /\ faults' \in FaultType
  /\ \A v \in Workers \ {w} : worker'[v] = worker[v]

LEMMA UnchangedGrows ==
  ASSUME Types, UNCHANGED <<source, rows, events, operator>>
  PROVE  Grows
<1>1. \A n \in DOMAIN rows : rows[n].attempts >= rows[n].attempts
  BY RowTyped
<1> QED
  BY <1>1 DEF Grows, RowsGrow, EventsGrow, SourcesGrow, Retried

LEMMA OneWorker ==
  ASSUME Inv, Types', Grows, NEW w \in Workers, WorkerInv(w)',
         \A v \in Workers \ {w} : worker'[v] = worker[v]
  PROVE  \A v \in Workers : WorkerInv(v)'
<1> TAKE v \in Workers
<1>1. CASE v = w
  BY <1>1
<1>2. CASE v # w
  BY <1>2, WorkerKept DEF Inv
<1> QED
  BY <1>1, <1>2

LEMMA AloneStep ==
  ASSUME Inv, NEW w \in Workers, Alone(w), WorkerInv(w)'
  PROVE  Inv'
<1>1. Types'
  BY DEF Inv, Types, Alone
<1>2. Grows
  BY UnchangedGrows DEF Inv, Alone
<1>3. \A v \in Workers : WorkerInv(v)'
  BY <1>1, <1>2, OneWorker DEF Alone
<1>4. \A s \in Sources : SourceInv(s)'
  BY DEF Inv, Alone, SourceInv, IsEventOf
<1>5. \A n \in DOMAIN rows' : RowInv(n)'
  BY DEF Inv, Alone, RowInv, Retried
<1>6. \A e \in DOMAIN events' : EventInv(e)'
  BY DEF Inv, Alone, EventInv
<1>7. \A call \in stray' : CallInv(call)'
  BY DEF Inv, Alone, CallInv, IsEventOf
<1> QED
  BY <1>1, <1>3, <1>4, <1>5, <1>6, <1>7 DEF Inv

LEMMA FinishGives ==
  ASSUME Types, NEW w \in Workers, NEW outcome \in {"SUCCESS", "SKIPPED", "error"}, NEW e \in Nat,
         Finish(w, outcome, e)
  PROVE  /\ worker' \in [Workers -> WorkerType]
         /\ \A v \in Workers \ {w} : worker'[v] = worker[v]
         /\ worker'[w].pc = "finish" /\ worker'[w].outcome = outcome /\ worker'[w].event = e
         /\ worker'[w].row = worker[w].row /\ worker'[w].attempts = worker[w].attempts
<1>1. worker[w] \in WorkerType /\ worker \in [Workers -> WorkerType]
  BY DEF Types
<1>2. worker' = [worker EXCEPT ![w] = [worker[w] EXCEPT !.pc = "finish", !.outcome = outcome,
                                                     !.event = e, !.version = 0]]
  BY <1>1 DEF Finish
<1>3. [worker[w] EXCEPT !.pc = "finish", !.outcome = outcome, !.event = e, !.version = 0]
        \in WorkerType
  <2>1. 0 \in 0..MaxVersion
    BY CalendarAssumption
  <2> QED
    BY <1>1, <2>1 DEF WorkerType
<1>4. /\ worker'[w] = [worker[w] EXCEPT !.pc = "finish", !.outcome = outcome, !.event = e,
                                       !.version = 0]
      /\ \A v \in Workers \ {w} : worker'[v] = worker[v]
      /\ worker' \in [Workers -> WorkerType]
  BY <1>1, <1>2, <1>3
<1> QED
  BY <1>1, <1>4 DEF WorkerType

LEMMA FaultsTyped ==
  ASSUME Types, \/ faults' = faults \/ faults' = [faults EXCEPT !.refused = @ + 1]
                \/ faults' = [faults EXCEPT !.other = @ + 1]
  PROVE  faults' \in FaultType
<1>1. faults \in FaultType /\ faults.refused + 1 \in Nat /\ faults.other + 1 \in Nat
  BY DEF Types, FaultType
<1>2. /\ [faults EXCEPT !.refused = faults.refused + 1] \in FaultType
      /\ [faults EXCEPT !.other = faults.other + 1] \in FaultType
  BY <1>1 DEF FaultType
<1> QED
  BY <1>1, <1>2

\* A worker that comes to its end has in hand what WorkerInv asks, if the event is one of
\* its reservation.
LEMMA FinishInv ==
  ASSUME Inv, NEW w \in Workers, NEW outcome \in {"SUCCESS", "SKIPPED", "error"}, NEW e \in Nat,
         worker[w].pc # "idle", Finish(w, outcome, e), Grows, Types',
         e # 0 => IsEventOf(e, Of(w))',
         outcome = "SUCCESS" /\ e = 0 => rows[worker[w].row].op = "CANCEL"
  PROVE  WorkerInv(w)'
<1>1. PICK n \in DOMAIN rows :
        /\ worker[w].row = n /\ (worker[w].attempts <= rows[n].attempts \/ Retried(n))
  BY DEF Inv, WorkerInv
<1>2. /\ n \in DOMAIN rows' /\ rows'[n].op = rows[n].op
      /\ rows[n].attempts <= rows'[n].attempts \/ Retried(n)'
      /\ Retried(n) => Retried(n)'
  BY <1>1 DEF Grows, RowsGrow
<1>3. worker[w].attempts \in Nat /\ rows[n].attempts \in Nat /\ rows'[n].attempts \in Nat
  <2>1. rows'[n] \in RowType
    BY <1>2 DEF Types
  <2> QED
    BY <1>1, <2>1, WorkerTyped, RowTyped DEF Inv, RowType
<1>4. worker[w].attempts <= rows'[n].attempts \/ Retried(n)'
  BY <1>1, <1>2, <1>3
<1>5. /\ worker'[w].pc = "finish" /\ worker'[w].outcome = outcome /\ worker'[w].event = e
      /\ worker'[w].row = n /\ worker'[w].attempts = worker[w].attempts
  BY <1>1, FinishGives DEF Inv
<1>6. (worker[w].event # 0 => IsEventOf(worker[w].event, rows[worker[w].row].source))'
  BY <1>5 DEF Of, IsEventOf
<1> QED
  BY <1>1, <1>2, <1>4, <1>5, <1>6 DEF WorkerInv

LEMMA TakeStep ==
  ASSUME Inv, NEW w \in Workers, NEW n \in DOMAIN rows, Take(w, n)
  PROVE  Inv'
<1>1. /\ rows[n].source \in Sources /\ rows[n].attempts \in Nat /\ n \in Nat
      /\ source[rows[n].source].version \in 0..MaxVersion
      /\ source[rows[n].source].version # 0
  <2>1. rows[n].source \in Sources /\ rows[n].attempts \in Nat
    BY RowTyped DEF Inv
  <2>2. n \in Nat
    BY DEF Inv, Types
  <2>3. source[rows[n].source].version \in 0..MaxVersion
    BY <2>1 DEF Inv, Types
  <2> QED
    BY <2>1, <2>2, <2>3 DEF Inv, RowInv
<1>2. Idle \in WorkerType /\ Idle.event = 0
  BY CalendarAssumption DEF Idle, WorkerType
<1>3. /\ Read(n) \in WorkerType
      /\ Read(n).pc = "read" /\ Read(n).row = n /\ Read(n).attempts = rows[n].attempts
      /\ Read(n).version # 0 /\ Read(n).event = 0
  BY <1>1, <1>2 DEF Read, WorkerType
<1>4. worker \in [Workers -> WorkerType] /\ worker' = [worker EXCEPT ![w] = Read(n)]
  BY DEF Inv, Types, Take
<1>5. /\ worker'[w] = Read(n) /\ worker' \in [Workers -> WorkerType]
      /\ \A v \in Workers \ {w} : worker'[v] = worker[v]
  BY <1>3, <1>4
<1>6. Alone(w)
  BY <1>5 DEF Alone, Take, Inv, Types, outside
<1>7. WorkerInv(w)'
  BY <1>1, <1>3, <1>5 DEF WorkerInv, Take
<1> QED
  BY <1>6, <1>7, AloneStep

LEMMA BusyStep ==
  ASSUME Inv, NEW w \in Workers, Busy(w) \/ Unreadable(w)
  PROVE  Inv'
<1>1. Idle \in WorkerType /\ Idle.pc = "idle"
  BY CalendarAssumption DEF Idle, WorkerType
<1>2. worker \in [Workers -> WorkerType] /\ worker' = [worker EXCEPT ![w] = Idle]
  BY DEF Inv, Types, Busy, Unreadable
<1>3. Alone(w) /\ worker'[w] = Idle
  BY <1>1, <1>2 DEF Alone, Busy, AfterBusy, Unreadable, Inv, Types, outside
<1> QED
  BY <1>1, <1>3, AloneStep DEF WorkerInv

\* What Claim and List make of a worker that goes on.
Goes(w, pc, outcome, e) ==
  worker' = [worker EXCEPT ![w].pc = pc, ![w].outcome = outcome, ![w].event = e]

LEMMA GoesOn ==
  ASSUME Inv, NEW w \in Workers, worker[w].pc \in {"read", "list"},
         UNCHANGED <<source, rows, mapping, events, stray, operator, faults>>,
         NEW pc \in Calling \cup {"finish"},
         NEW outcome \in {"none", "SUCCESS", "SKIPPED", "error"}, NEW e \in Nat,
         Goes(w, pc, outcome, e),
         e # 0 => IsEventOf(e, Of(w)),
         pc \in {"patch", "delete"} => e # 0,
         pc = "delete" => rows[worker[w].row].op = "CANCEL",
         pc = "finish" => outcome # "none",
         pc = "finish" /\ outcome = "SUCCESS" /\ e = 0 => rows[worker[w].row].op = "CANCEL"
  PROVE  Inv'
<1> DEFINE h == [worker[w] EXCEPT !.pc = pc, !.outcome = outcome, !.event = e]
<1>1. worker \in [Workers -> WorkerType] /\ worker[w] \in WorkerType
  BY DEF Inv, Types
<1>2. /\ h \in WorkerType
      /\ h.pc = pc /\ h.outcome = outcome /\ h.event = e
      /\ h.row = worker[w].row /\ h.attempts = worker[w].attempts /\ h.version = worker[w].version
  BY <1>1 DEF WorkerType
<1>3. worker' = [worker EXCEPT ![w] = h]
  BY <1>1 DEF Goes
<1>4. worker'[w] = h /\ worker' \in [Workers -> WorkerType]
      /\ \A v \in Workers \ {w} : worker'[v] = worker[v]
  BY <1>1, <1>2, <1>3
<1> HIDE DEF h
<1>5. Alone(w)
  BY <1>4 DEF Alone, Inv, Types
<1>6. PICK n \in DOMAIN rows :
        /\ worker[w].row = n /\ (worker[w].attempts <= rows[n].attempts \/ Retried(n))
        /\ worker[w].version # 0
  BY DEF Inv, WorkerInv
<1>7. Retried(n) => Retried(n)'
  BY DEF Retried
<1>8. WorkerInv(w)'
  BY <1>2, <1>4, <1>6, <1>7 DEF WorkerInv, IsEventOf, Of
<1> QED
  BY <1>5, <1>8, AloneStep

LEMMA ClaimStep ==
  ASSUME Inv, NEW w \in Workers, Claim(w)
  PROVE  Inv'
<1> DEFINE s == Of(w)
           op == rows[worker[w].row].op
<1>1. /\ worker[w].pc = "read"
      /\ UNCHANGED <<source, rows, mapping, events, stray, operator, faults>>
  BY DEF Claim, outside
<1>2. s \in Sources
  BY <1>1, RowTyped DEF Inv, WorkerInv, Of
<1>3. mapping[s] \in Nat /\ (mapping[s] # 0 => IsEventOf(mapping[s], s))
  BY <1>2 DEF Inv, Types, SourceInv
<1>4. \/ Goes(w, "finish", "SKIPPED", 0)
      \/ Goes(w, "list", "none", 0)
      \/ op # "CANCEL" /\ mapping[s] # 0 /\ Goes(w, "patch", "none", mapping[s])
      \/ op = "CANCEL" /\ Goes(w, "finish", "SUCCESS", 0)
      \/ op = "CANCEL" /\ mapping[s] # 0 /\ Goes(w, "delete", "none", mapping[s])
  BY DEF Claim, Promoted, Goes
<1>5. CASE Goes(w, "finish", "SKIPPED", 0)
  BY <1>1, <1>5, GoesOn
<1>6. CASE Goes(w, "list", "none", 0)
  BY <1>1, <1>6, GoesOn DEF Calling
<1>7. CASE op # "CANCEL" /\ mapping[s] # 0 /\ Goes(w, "patch", "none", mapping[s])
  BY <1>1, <1>3, <1>7, GoesOn DEF Calling
<1>8. CASE op = "CANCEL" /\ Goes(w, "finish", "SUCCESS", 0)
  BY <1>1, <1>8, GoesOn
<1>9. CASE op = "CANCEL" /\ mapping[s] # 0 /\ Goes(w, "delete", "none", mapping[s])
  BY <1>1, <1>3, <1>9, GoesOn DEF Calling
<1> QED
  BY <1>4, <1>5, <1>6, <1>7, <1>8, <1>9

\* A worker that comes to its end without a call that lands.
LEMMA EndsAlone ==
  ASSUME Inv, NEW w \in Workers, worker[w].pc # "idle",
         NEW outcome \in {"SUCCESS", "SKIPPED", "error"}, NEW e \in Nat, Finish(w, outcome, e),
         UNCHANGED <<source, rows, mapping, events, stray, operator>>, faults' \in FaultType,
         e # 0 => IsEventOf(e, Of(w)),
         outcome = "SUCCESS" /\ e = 0 => rows[worker[w].row].op = "CANCEL"
  PROVE  Inv'
<1>1. Alone(w) /\ worker'[w].row = worker[w].row
  BY FinishGives DEF Alone, Inv
<1>2. Grows /\ Types'
  BY <1>1, UnchangedGrows DEF Inv, Alone, Types
<1>3. (e # 0 => IsEventOf(e, Of(w))')
  BY <1>1 DEF IsEventOf, Of
<1>4. WorkerInv(w)'
  BY <1>2, <1>3, FinishInv
<1> QED
  BY <1>1, <1>4, AloneStep

LEMMA ListStep ==
  ASSUME Inv, NEW w \in Workers, List(w)
  PROVE  Inv'
<1>1. worker[w].pc = "list" /\ UNCHANGED <<source, rows, mapping, events, stray, operator, faults>>
  BY DEF List, outside
<1>2. worker[w] \in WorkerType /\ faults' \in FaultType
  BY <1>1 DEF Inv, Types
<1>3. CASE worker' = [worker EXCEPT ![w].pc = "insert"]
  <2>1. Goes(w, "insert", worker[w].outcome, worker[w].event)
    <3> DEFINE h == [worker[w] EXCEPT !.pc = "insert"]
               g == [worker[w] EXCEPT !.pc = "insert", !.outcome = worker[w].outcome,
                                      !.event = worker[w].event]
    <3>1. h = g
      BY <1>2 DEF WorkerType
    <3>2. worker' = [worker EXCEPT ![w] = h]
      BY <1>3
    <3>3. worker' = [worker EXCEPT ![w] = g]
      BY <3>1, <3>2
    <3> QED
      BY <3>3 DEF Goes
  <2>2. worker[w].outcome \in {"none", "SUCCESS", "SKIPPED", "error"} /\ worker[w].event \in Nat
    BY <1>2 DEF WorkerType
  <2>3. worker[w].event # 0 => IsEventOf(worker[w].event, Of(w))
    BY <1>1 DEF Inv, WorkerInv, Of
  <2> QED
    BY <1>1, <2>1, <2>2, <2>3, GoesOn DEF Calling
<1>4. ASSUME NEW e \in Existing(Of(w)), Finish(w, "SUCCESS", Found(e))
      PROVE  Inv'
  <2>1. e \in Nat /\ e # 0 /\ IsEventOf(e, Of(w))
    BY DEF Existing, Live, IsEventOf, Inv, Types
  <2> QED
    BY <1>1, <1>2, <1>4, <2>1, EndsAlone DEF Found
<1> QED
  BY <1>3, <1>4 DEF List

LEMMA RejectedStep ==
  ASSUME Inv, NEW w \in Workers, Rejected(w)
  PROVE  Inv'
<1>1. faults' \in FaultType
  BY DEF Rejected, Inv, Types
<1> QED
  BY <1>1, EndsAlone DEF Rejected, outside

LEMMA RefusedStep ==
  ASSUME Inv, NEW w \in Workers, Refused(w)
  PROVE  Inv'
<1>1. faults' \in FaultType /\ worker[w].pc # "idle"
  BY FaultsTyped DEF Refused, Calling, Inv
<1> QED
  BY <1>1, EndsAlone DEF Refused, outside

-----------------------------------------------------------------------------
(* Steps of Google.                                                         *)

LEMMA EventTyped ==
  ASSUME Types, NEW e \in DOMAIN events
  PROVE  /\ events[e] \in EventType /\ events[e].source \in Sources
         /\ events[e].version \in 1..MaxVersion /\ events[e].live \in BOOLEAN
<1>1. events[e] \in EventType
  BY DEF Types
<1> QED
  BY <1>1 DEF EventType

LEMMA Lands ==
  ASSUME Inv, NEW call \in CallType, CallInv(call), events' = After(call), UNCHANGED source
  PROVE  /\ events' \in Seq(EventType) /\ EventsGrow
         /\ \A e \in DOMAIN events' : EventInv(e)'
         /\ call.pc = "insert" =>
              /\ Len(events) + 1 \in DOMAIN events'
              /\ events'[Len(events) + 1].source = call.source
<1>1. /\ call.pc \in {"list", "insert", "patch", "delete"} /\ call.source \in Sources
      /\ call.version \in 1..MaxVersion
  BY DEF CallType, Calling
<1>2. events \in Seq(EventType) /\ \A e \in DOMAIN events : EventInv(e)
  BY DEF Inv, Types
<1>3. CASE call.pc = "insert"
  <2> DEFINE new == [source |-> call.source, version |-> call.version, live |-> TRUE]
  <2>1. events' = Append(events, new)
    BY <1>3 DEF After
  <2>2. new \in EventType /\ new.live /\ new.source = call.source
    BY <1>1 DEF EventType
  <2> HIDE DEF new
  <2>3. /\ events' \in Seq(EventType)
        /\ DOMAIN events' = 1..(Len(events) + 1)
        /\ \A e \in DOMAIN events : e \in DOMAIN events' /\ events'[e] = events[e]
        /\ events'[Len(events) + 1] = new
    BY <1>2, <2>1, <2>2, AppendProperties
  <2>4. ASSUME NEW e \in DOMAIN events'
        PROVE  e \in DOMAIN events \/ e = Len(events) + 1
    BY <1>2, <2>3
  <2>5. Len(events) + 1 \in DOMAIN events'
    BY <1>2, <2>3
  <2> QED
    BY <1>2, <2>2, <2>3, <2>4, <2>5 DEF EventsGrow, EventInv, IsEventOf
<1>4. CASE call.pc = "patch"
  <2>1. call.event \in DOMAIN events
    BY <1>4 DEF CallInv, IsEventOf
  <2>2. /\ events[call.event] \in EventType
        /\ [events[call.event] EXCEPT !.version = call.version] \in EventType
    BY <1>1, <2>1, EventTyped DEF EventType, Inv
  <2>3. \/ events' = events
        \/ events' = [events EXCEPT ![call.event] =
                        [events[call.event] EXCEPT !.version = call.version]]
    BY <1>4 DEF After
  <2>4. events' \in Seq(EventType) /\ DOMAIN events' = DOMAIN events
    BY <1>2, <2>1, <2>2, <2>3
  <2>5. ASSUME NEW e \in DOMAIN events
        PROVE  events'[e].source = events[e].source /\ events'[e].live = events[e].live
    <3>1. events[e] \in EventType
      BY EventTyped DEF Inv
    <3> QED
      BY <1>2, <2>2, <2>3, <3>1 DEF EventType
  <2> QED
    BY <1>2, <1>4, <2>4, <2>5 DEF EventsGrow, EventInv
<1>5. CASE call.pc = "delete"
  <2>1. /\ call.event \in DOMAIN events /\ events[call.event].source = call.source
        /\ source[call.source].state = "cancelled"
    BY <1>5 DEF CallInv, IsEventOf
  <2>2. /\ events[call.event] \in EventType
        /\ [events[call.event] EXCEPT !.live = FALSE] \in EventType
    BY <1>1, <2>1, EventTyped DEF EventType, Inv
  <2>3. events' = [events EXCEPT ![call.event] = [events[call.event] EXCEPT !.live = FALSE]]
    BY <1>5 DEF After
  <2>4. events' \in Seq(EventType) /\ DOMAIN events' = DOMAIN events
    BY <1>2, <2>1, <2>2, <2>3
  <2>5. ASSUME NEW e \in DOMAIN events
        PROVE  /\ events'[e].source = events[e].source
               /\ e # call.event => events'[e].live = events[e].live
    <3>1. events[e] \in EventType
      BY EventTyped DEF Inv
    <3> QED
      BY <1>2, <2>2, <2>3, <3>1 DEF EventType
  <2> QED
    BY <1>2, <1>5, <2>1, <2>4, <2>5 DEF EventsGrow, EventInv
<1>6. CASE call.pc = "list"
  BY <1>2, <1>6 DEF After, EventsGrow, EventInv
<1> QED
  BY <1>1, <1>3, <1>4, <1>5, <1>6

LEMMA EventsGrowAlone ==
  ASSUME Types, EventsGrow, UNCHANGED <<source, rows, operator>>
  PROVE  Grows
<1>1. \A n \in DOMAIN rows : rows[n].attempts >= rows[n].attempts
  BY RowTyped
<1> QED
  BY <1>1 DEF Grows, RowsGrow, SourcesGrow, Retried

LEMMA EventsStep ==
  ASSUME Inv, Types', EventsGrow, UNCHANGED <<source, rows, mapping, operator>>,
         \A e \in DOMAIN events' : EventInv(e)', \A w \in Workers : WorkerInv(w)',
         stray' \subseteq stray
  PROVE  Inv'
<1>1. Grows
  BY EventsGrowAlone DEF Inv
<1>2. \A s \in Sources : SourceInv(s)'
  BY DEF Inv, SourceInv, IsEventOf, EventsGrow
<1>3. \A n \in DOMAIN rows' : RowInv(n)'
  BY DEF Inv, RowInv, Retried
<1>4. \A call \in stray' : CallInv(call)'
  BY <1>1, CallKept DEF Inv
<1> QED
  BY <1>2, <1>3, <1>4 DEF Inv

\* The call that a worker has in hand.
LEMMA CallOfWorker ==
  ASSUME Inv, NEW w \in Workers, worker[w].pc \in Calling
  PROVE  /\ CallOf(w) \in CallType /\ CallInv(CallOf(w))
         /\ CallOf(w).pc = worker[w].pc /\ CallOf(w).source = Of(w)
<1>1. /\ worker[w].row \in DOMAIN rows
      /\ worker[w].version # 0
      /\ worker[w].event # 0 => IsEventOf(worker[w].event, Of(w))
      /\ worker[w].pc \in {"patch", "delete"} => worker[w].event # 0
      /\ worker[w].pc = "delete" => rows[worker[w].row].op = "CANCEL"
  BY DEF Inv, WorkerInv, Of, Calling
<1>2. /\ Of(w) \in Sources /\ faults.other \in Nat /\ worker[w].event \in Nat
      /\ worker[w].version \in 1..MaxVersion
  BY <1>1, RowTyped, WorkerTyped, CalendarAssumption DEF Of, Inv, Types, FaultType
<1>3. worker[w].pc = "delete" => source[Of(w)].state = "cancelled"
  BY <1>1 DEF Inv, RowInv, Of
<1> QED
  BY <1>1, <1>2, <1>3 DEF CallOf, CallType, CallInv

LEMMA AnsweredStep ==
  ASSUME Inv, NEW w \in Workers, Answered(w)
  PROVE  Inv'
<1>1. /\ worker[w].pc \in {"insert", "patch", "delete"} /\ events' = After(CallOf(w))
      /\ UNCHANGED <<source, rows, mapping, stray, operator, faults>>
  BY DEF Answered, outside
<1>2. /\ events' \in Seq(EventType) /\ EventsGrow /\ \A e \in DOMAIN events' : EventInv(e)'
      /\ worker[w].pc = "insert" =>
           /\ Len(events) + 1 \in DOMAIN events' /\ events'[Len(events) + 1].source = Of(w)
  BY <1>1, CallOfWorker, Lands DEF Calling
<1>3. PICK e \in Nat :
        /\ Finish(w, "SUCCESS", e)
        /\ e # 0 /\ e \in DOMAIN events' /\ events'[e].source = Of(w)
  <2> DEFINE e == IF worker[w].pc = "insert" THEN Len(events) + 1 ELSE worker[w].event
  <2>1. Finish(w, "SUCCESS", e)
    BY DEF Answered
  <2>2. CASE worker[w].pc = "insert"
    <3>1. Len(events) \in Nat
      BY DEF Inv, Types
    <3> QED
      BY <1>2, <2>1, <2>2, <3>1
  <2>3. CASE worker[w].pc # "insert"
    <3>1. worker[w].event \in Nat /\ worker[w].event # 0 /\ IsEventOf(worker[w].event, Of(w))
      BY <1>1, <2>3, WorkerTyped DEF Inv, WorkerInv, Of
    <3> QED
      BY <1>2, <2>1, <2>3, <3>1 DEF EventsGrow, IsEventOf
  <2> QED
    BY <2>2, <2>3
<1>4. /\ worker' \in [Workers -> WorkerType] /\ worker'[w].row = worker[w].row
      /\ \A v \in Workers \ {w} : worker'[v] = worker[v]
  BY <1>3, FinishGives DEF Inv
<1>5. Types'
  BY <1>1, <1>2, <1>4 DEF Inv, Types
<1>6. Grows
  BY <1>1, <1>2, EventsGrowAlone DEF Inv
<1>7. IsEventOf(e, Of(w))'
  BY <1>1, <1>3, <1>4 DEF IsEventOf, Of
<1>8. WorkerInv(w)'
  BY <1>1, <1>3, <1>5, <1>6, <1>7, FinishInv
<1>9. \A v \in Workers : WorkerInv(v)'
  BY <1>4, <1>5, <1>6, <1>8, OneWorker
<1> QED
  BY <1>1, <1>2, <1>5, <1>9, EventsStep

LEMMA UnansweredStep ==
  ASSUME Inv, NEW w \in Workers, Unanswered(w)
  PROVE  Inv'
<1>1. /\ worker[w].pc \in {"insert", "patch", "delete"} /\ events' = After(CallOf(w))
      /\ Finish(w, "error", 0)
      /\ UNCHANGED <<source, rows, mapping, stray, operator>>
      /\ faults' = [faults EXCEPT !.other = @ + 1]
  BY DEF Unanswered, outside
<1>2. /\ events' \in Seq(EventType) /\ EventsGrow /\ \A e \in DOMAIN events' : EventInv(e)'
  BY <1>1, CallOfWorker, Lands DEF Calling
<1>3. /\ worker' \in [Workers -> WorkerType]
      /\ \A v \in Workers \ {w} : worker'[v] = worker[v]
  BY <1>1, FinishGives DEF Inv
<1>4. Types'
  <2>1. faults' \in FaultType
    BY <1>1, FaultsTyped DEF Inv
  <2> QED
    BY <1>1, <1>2, <1>3, <2>1 DEF Inv, Types
<1>5. Grows
  BY <1>1, <1>2, EventsGrowAlone DEF Inv
<1>6. WorkerInv(w)'
  BY <1>1, <1>4, <1>5, FinishInv
<1>7. \A v \in Workers : WorkerInv(v)'
  BY <1>3, <1>4, <1>5, <1>6, OneWorker
<1> QED
  BY <1>1, <1>2, <1>4, <1>7, EventsStep

LEMMA LandStep ==
  ASSUME Inv, NEW call \in stray, Land(call)
  PROVE  Inv'
<1>1. /\ call \in CallType /\ CallInv(call) /\ stray' \subseteq stray
      /\ UNCHANGED <<source, rows, mapping, worker, operator, faults>>
  BY DEF Land, Inv, Types, outside
<1>2. /\ events' \in Seq(EventType) /\ EventsGrow /\ \A e \in DOMAIN events' : EventInv(e)'
  <2>1. CASE events' = events
    BY <1>1, <2>1 DEF Inv, Types, EventsGrow, EventInv
  <2>2. CASE events' = After(call)
    BY <1>1, <2>2, Lands
  <2> QED
    BY <2>1, <2>2 DEF Land
<1>3. Types'
  BY <1>1, <1>2 DEF Inv, Types
<1>4. Grows
  BY <1>1, <1>2, EventsGrowAlone DEF Inv
<1>5. \A v \in Workers : WorkerInv(v)'
  BY <1>1, <1>3, <1>4, WorkerKept DEF Inv
<1> QED
  BY <1>1, <1>2, <1>3, <1>5, EventsStep

LEMMA GoOnStep ==
  ASSUME Inv, NEW call \in stray, GoOn(call)
  PROVE  Inv'
<1> DEFINE insert == [call EXCEPT !.pc = "insert"]
<1>1. /\ call \in CallType /\ call.pc = "list" /\ stray' = (stray \ {call}) \cup {insert}
      /\ UNCHANGED <<source, rows, mapping, events, worker, operator, faults>>
  BY DEF GoOn, Inv, Types, outside
<1>2. insert \in CallType /\ insert.pc = "insert"
  BY <1>1 DEF CallType, Calling
<1> HIDE DEF insert
<1>3. Types'
  BY <1>1, <1>2 DEF Inv, Types
<1>4. Grows
  BY <1>1, UnchangedGrows DEF Inv
<1>5. \A v \in Workers : WorkerInv(v)'
  BY <1>1, <1>3, <1>4, WorkerKept DEF Inv
<1>6. \A c \in stray' : CallInv(c)'
  <2>1. CallInv(insert)'
    BY <1>2 DEF CallInv
  <2> QED
    BY <1>1, <1>4, <2>1, CallKept DEF Inv
<1>7. /\ \A s \in Sources : SourceInv(s)'
      /\ \A n \in DOMAIN rows' : RowInv(n)'
      /\ \A e \in DOMAIN events' : EventInv(e)'
  BY <1>1 DEF Inv, SourceInv, RowInv, EventInv, IsEventOf, Retried
<1> QED
  BY <1>3, <1>5, <1>6, <1>7 DEF Inv

-----------------------------------------------------------------------------
(* The end of a transaction.                                                *)

LEMMA CutStep ==
  ASSUME Inv, NEW w \in Workers, Cut(w)
  PROVE  Inv'
<1>1. /\ worker[w].pc # "idle" /\ faults' = [faults EXCEPT !.other = @ + 1]
      /\ worker' = [worker EXCEPT ![w] = Idle]
      /\ UNCHANGED <<source, rows, mapping, events, operator>>
  BY DEF Cut, outside
<1>2. Idle \in WorkerType /\ Idle.pc = "idle"
  BY CalendarAssumption DEF Idle, WorkerType
<1>3. /\ worker'[w] = Idle /\ worker' \in [Workers -> WorkerType]
      /\ \A v \in Workers \ {w} : worker'[v] = worker[v]
  BY <1>1, <1>2 DEF Inv, Types
<1>4. \A call \in stray' : call \in CallType /\ CallInv(call)
  <2>1. CASE worker[w].pc \in Calling
    <3>1. stray' = stray \cup {CallOf(w)}
      BY <2>1 DEF Cut
    <3> QED
      BY <2>1, <3>1, CallOfWorker DEF Inv, Types
  <2>2. CASE worker[w].pc \notin Calling
    <3>1. stray' = stray
      BY <2>2 DEF Cut
    <3> QED
      BY <3>1 DEF Inv, Types
  <2> QED
    BY <2>1, <2>2
<1>5. Types'
  <2>1. faults' \in FaultType
    BY <1>1, FaultsTyped DEF Inv
  <2> QED
    BY <1>1, <1>3, <1>4, <2>1 DEF Inv, Types
<1>6. Grows
  BY <1>1, UnchangedGrows DEF Inv
<1>7. \A v \in Workers : WorkerInv(v)'
  <2>1. WorkerInv(w)'
    BY <1>2, <1>3 DEF WorkerInv
  <2> QED
    BY <1>3, <1>5, <1>6, <2>1, OneWorker
<1>8. /\ \A s \in Sources : SourceInv(s)'
      /\ \A n \in DOMAIN rows' : RowInv(n)'
      /\ \A e \in DOMAIN events' : EventInv(e)'
  BY <1>1 DEF Inv, SourceInv, RowInv, EventInv, IsEventOf, Retried
<1>9. \A call \in stray' : CallInv(call)'
  BY <1>1, <1>4 DEF CallInv, IsEventOf
<1> QED
  BY <1>5, <1>7, <1>8, <1>9 DEF Inv

\* What Commit makes of the row and of the mapping.
LEMMA Committed ==
  ASSUME Inv, NEW w \in Workers, worker[w].pc = "finish", ~Conflicts(w), Commit(w),
         NEW n, n = worker[w].row
  PROVE  /\ n \in DOMAIN rows /\ rows' \in Seq(RowType) /\ DOMAIN rows' = DOMAIN rows
         /\ rows'[n].source = rows[n].source /\ rows'[n].op = rows[n].op
         /\ rows'[n].attempts = rows[n].attempts + 1
         /\ rows'[n].status = IF worker[w].outcome = "error" THEN Retries(worker[w].attempts + 1)
                              ELSE worker[w].outcome
         /\ \A k \in DOMAIN rows \ {n} : rows'[k] = rows[k]
<1> DEFINE status == IF worker[w].outcome = "error" THEN Retries(worker[w].attempts + 1)
                     ELSE worker[w].outcome
           attempts == rows[n].attempts + 1
           row == [rows[n] EXCEPT !.attempts = attempts, !.status = status]
<1>1. n \in DOMAIN rows /\ worker[w].outcome # "none"
  BY DEF Inv, WorkerInv
<1>2. rows[n] \in RowType /\ attempts \in Nat
  BY <1>1, RowTyped DEF Inv
<1>3. worker[w].outcome \in {"SUCCESS", "SKIPPED", "error"}
  BY <1>1, WorkerTyped DEF Inv, WorkerType
<1>4. status \in {"PENDING", "FAILED"} \cup Final
  BY <1>3 DEF Retries, Final
<1>5. rows' = [rows EXCEPT ![n] = row]
  BY DEF Commit
<1> HIDE DEF status, attempts
<1>6. /\ row \in RowType
      /\ row.source = rows[n].source /\ row.op = rows[n].op
      /\ row.attempts = attempts /\ row.status = status
  BY <1>2, <1>4 DEF RowType
<1> HIDE DEF row
<1>7. rows \in Seq(RowType)
  BY DEF Inv, Types
<1>8. rows' \in Seq(RowType) /\ DOMAIN rows' = DOMAIN rows
  BY <1>1, <1>5, <1>6, <1>7
<1>9. rows'[n] = row /\ \A k \in DOMAIN rows \ {n} : rows'[k] = rows[k]
  BY <1>1, <1>5
<1> QED
  BY <1>1, <1>6, <1>8, <1>9 DEF status, attempts

LEMMA CommitStep ==
  ASSUME Inv, NEW w \in Workers, Commit(w)
  PROVE  Inv'
<1> DEFINE n == worker[w].row
           s == Of(w)
<1>1. /\ worker[w].pc = "finish" /\ worker' = [worker EXCEPT ![w] = Idle]
      /\ UNCHANGED <<source, events, stray, operator, faults>>
  BY DEF Commit, outside
<1>2. Idle \in WorkerType /\ Idle.pc = "idle"
  BY CalendarAssumption DEF Idle, WorkerType
<1>3. /\ worker'[w] = Idle /\ worker' \in [Workers -> WorkerType]
      /\ \A v \in Workers \ {w} : worker'[v] = worker[v]
  BY <1>1, <1>2 DEF Inv, Types
<1>4. WorkerInv(w)'
  BY <1>2, <1>3 DEF WorkerInv
<1>5. CASE Conflicts(w)
  <2>1. UNCHANGED <<rows, mapping>>
    BY <1>5 DEF Commit
  <2>2. Alone(w)
    BY <1>1, <1>3, <2>1 DEF Alone, Inv, Types
  <2> QED
    BY <1>4, <2>2, AloneStep
<1>6. CASE ~Conflicts(w)
  <2>1. /\ n \in DOMAIN rows /\ rows' \in Seq(RowType) /\ DOMAIN rows' = DOMAIN rows
        /\ rows'[n].source = rows[n].source /\ rows'[n].op = rows[n].op
        /\ rows'[n].attempts = rows[n].attempts + 1
        /\ rows'[n].status = IF worker[w].outcome = "error" THEN Retries(worker[w].attempts + 1)
                             ELSE worker[w].outcome
        /\ \A k \in DOMAIN rows \ {n} : rows'[k] = rows[k]
    BY <1>1, <1>6, Committed
  <2>2. /\ s \in Sources /\ s = rows[n].source /\ rows[n].attempts \in Nat
        /\ worker[w].event \in Nat /\ worker[w].attempts \in Nat
        /\ worker[w].attempts <= rows[n].attempts \/ Retried(n)
        /\ worker[w].event # 0 => IsEventOf(worker[w].event, s)
        /\ worker[w].outcome = "SUCCESS" /\ worker[w].event = 0 => rows[n].op = "CANCEL"
    BY <1>1, <2>1, RowTyped, WorkerTyped DEF Inv, WorkerInv, Of
  <2>3. /\ mapping' \in [Sources -> Nat]
        /\ \A t \in Sources : mapping'[t] # 0 =>
             mapping'[t] = mapping[t] \/ (t = s /\ mapping'[t] = worker[w].event)
        /\ \A t \in Sources : mapping[t] # 0 => mapping'[t] # 0
        /\ worker[w].event # 0 => mapping'[s] # 0
    <3>1. mapping' = [mapping EXCEPT ![s] = IF worker[w].event # 0 THEN worker[w].event
                                            ELSE mapping[s]]
      BY <1>6 DEF Commit
    <3>2. mapping \in [Sources -> Nat]
      BY DEF Inv, Types
    <3> QED
      BY <2>2, <3>1, <3>2
  <2>4. Types'
    BY <1>1, <1>3, <2>1, <2>3 DEF Inv, Types
  <2>5. Grows
    <3>1. \A k \in DOMAIN rows : rows[k].attempts \in Nat
      BY RowTyped DEF Inv
    <3>2. \A k \in DOMAIN rows :
            /\ rows'[k].source = rows[k].source /\ rows'[k].op = rows[k].op
            /\ rows'[k].attempts >= rows[k].attempts
      BY <2>1, <3>1
    <3> QED
      BY <1>1, <2>1, <3>2 DEF Grows, RowsGrow, EventsGrow, SourcesGrow, Retried
  <2>6. \A v \in Workers : WorkerInv(v)'
    BY <1>3, <1>4, <2>4, <2>5, OneWorker
  <2>7. \A t \in Sources : SourceInv(t)'
    BY <1>1, <2>2, <2>3 DEF Inv, SourceInv, IsEventOf
  <2>8. ASSUME NEW k \in DOMAIN rows'
        PROVE  RowInv(k)'
    <3>1. k \in DOMAIN rows /\ RowInv(k) /\ rows[k].source \in Sources
      BY <2>1, RowTyped DEF Inv
    <3>2. CASE k # n
      BY <1>1, <2>1, <2>3, <3>1, <3>2 DEF RowInv, Retried
    <3>3. CASE k = n
      <4>1. rows'[k].status = "DEAD_LETTER" => rows'[k].attempts >= MAX_ATTEMPTS \/ Retried(k)'
        <5>1. worker[w].outcome # "DEAD_LETTER"
          BY WorkerTyped DEF Inv, WorkerType
        <5>2. Retried(k) => Retried(k)'
          BY <1>1 DEF Retried
        <5> QED
          BY <2>1, <2>2, <3>3, <5>1, <5>2, CalendarAssumption DEF Retries
      <4>2. rows'[n].status = "SUCCESS" /\ rows'[n].op # "CANCEL" => mapping'[s] # 0
        BY <2>1, <2>2, <2>3 DEF Retries
      <4> QED
        BY <1>1, <2>1, <2>2, <3>1, <3>3, <4>1, <4>2 DEF RowInv
    <3> QED
      BY <3>2, <3>3
  <2>9. /\ \A e \in DOMAIN events' : EventInv(e)'
        /\ \A call \in stray' : CallInv(call)'
    BY <1>1 DEF Inv, EventInv, CallInv, IsEventOf
  <2> QED
    BY <2>4, <2>6, <2>7, <2>8, <2>9 DEF Inv
<1> QED
  BY <1>5, <1>6

-----------------------------------------------------------------------------
(* Steps of the reservation.                                                *)

\* A row is added to rows that differ from those before in their status only, and only for
\* SKIPPED.
Skipping(before) ==
  /\ before \in Seq(RowType) /\ DOMAIN before = DOMAIN rows
  /\ \A n \in DOMAIN rows :
       /\ before[n].source = rows[n].source /\ before[n].op = rows[n].op
       /\ before[n].attempts = rows[n].attempts
       /\ before[n].status \in {rows[n].status, "SKIPPED"}

LEMMA EnqueueStep ==
  ASSUME Inv, NEW s \in Sources, NEW op \in Ops, NEW before, Skipping(before),
         Enqueue(before, s, op),
         NEW state \in {"booked", "cancelled"}, NEW version \in 1..MaxVersion,
         source' = [source EXCEPT ![s] = [state |-> state, version |-> version]],
         source[s].state # "cancelled", op = "CANCEL" => state = "cancelled"
  PROVE  Inv'
<1>1. /\ rows' = Append(before, NewRow(s, op))
      /\ UNCHANGED <<mapping, events, worker, stray, operator, faults>>
  BY DEF Enqueue, outside
<1>2. /\ NewRow(s, op) \in RowType /\ NewRow(s, op).source = s /\ NewRow(s, op).op = op
      /\ NewRow(s, op).status = "PENDING"
  BY DEF NewRow, RowType, Ops
<1>3. /\ rows' \in Seq(RowType) /\ DOMAIN rows' = 1..(Len(before) + 1)
      /\ rows'[Len(before) + 1] = NewRow(s, op)
      /\ \A n \in 1..Len(before) : rows'[n] = before[n]
  BY <1>1, <1>2, AppendProperties DEF Skipping
<1>4. /\ 1..Len(before) = DOMAIN rows /\ Len(before) \in Nat
  BY DEF Skipping
<1>5. /\ \A n \in DOMAIN rows : n \in DOMAIN rows' /\ rows'[n] = before[n]
      /\ \A n \in DOMAIN rows' : n \in DOMAIN rows \/ n = Len(before) + 1
  BY <1>3, <1>4
<1>6. /\ source' \in [Sources -> [state : {"none", "booked", "cancelled"}, version : 0..MaxVersion]]
      /\ source'[s].state = state /\ source'[s].version = version /\ version # 0
      /\ \A t \in Sources \ {s} : source'[t] = source[t]
  <2>1. [state |-> state, version |-> version]
          \in [state : {"none", "booked", "cancelled"}, version : 0..MaxVersion]
    BY CalendarAssumption
  <2>2. source \in [Sources -> [state : {"none", "booked", "cancelled"}, version : 0..MaxVersion]]
    BY DEF Inv, Types
  <2>3. version # 0
    BY CalendarAssumption
  <2> QED
    BY <2>1, <2>2, <2>3
<1>7. Types'
  BY <1>1, <1>3, <1>6 DEF Inv, Types
<1>8. SourcesGrow
  BY <1>6 DEF SourcesGrow
<1>9. Grows
  <2>1. \A n \in DOMAIN rows : rows[n].attempts \in Nat
    BY RowTyped DEF Inv
  <2>2. RowsGrow
    BY <1>1, <1>5, <2>1 DEF RowsGrow, Skipping, Retried
  <2> QED
    BY <1>1, <1>8, <2>2 DEF Grows, EventsGrow
<1>10. \A w \in Workers : WorkerInv(w)'
  BY <1>1, <1>7, <1>9, WorkerKept DEF Inv
<1>11. \A call \in stray' : CallInv(call)'
  BY <1>1, <1>9, CallKept DEF Inv
<1>12. \A e \in DOMAIN events' : EventInv(e)'
  BY <1>1, <1>8, EventTyped DEF Inv, EventInv, SourcesGrow
<1>13. \A t \in Sources : SourceInv(t)'
  BY <1>1, <1>6 DEF Inv, SourceInv, IsEventOf
<1>14. ASSUME NEW n \in DOMAIN rows'
       PROVE  RowInv(n)'
  <2>1. CASE n \in DOMAIN rows
    <3>1. RowInv(n) /\ rows[n].source \in Sources
      BY <2>1, RowTyped DEF Inv
    <3> QED
      BY <1>1, <1>5, <1>8, <2>1, <3>1 DEF RowInv, SourcesGrow, Skipping, Retried
  <2>2. CASE n = Len(before) + 1
    BY <1>2, <1>3, <1>6, <2>2 DEF RowInv
  <2> QED
    BY <1>5, <2>1, <2>2
<1> QED
  BY <1>7, <1>10, <1>11, <1>12, <1>13, <1>14 DEF Inv

LEMMA NoneSkipped == ASSUME Inv PROVE Skipping(rows)
BY DEF Inv, Types, Skipping

LEMMA ReservationTyped ==
  ASSUME Inv, NEW s \in Sources
  PROVE  /\ source \in [Sources -> [state : {"none", "booked", "cancelled"}, version : 0..MaxVersion]]
         /\ source[s] \in [state : {"none", "booked", "cancelled"}, version : 0..MaxVersion]
         /\ source[s].version = 0 <=> source[s].state = "none"
BY DEF Inv, Types, SourceInv

LEMMA BookStep ==
  ASSUME Inv, NEW s \in Sources, Book(s)
  PROVE  Inv'
<1>1. /\ source' = [source EXCEPT ![s] = [state |-> "booked", version |-> 1]]
      /\ source[s].state # "cancelled" /\ Enqueue(rows, s, "CREATE")
  BY DEF Book
<1>2. 1 \in 1..MaxVersion
  BY CalendarAssumption
<1> QED
  BY <1>1, <1>2, NoneSkipped, EnqueueStep DEF Ops

LEMMA ChangeStep ==
  ASSUME Inv, NEW s \in Sources, Change(s)
  PROVE  Inv'
<1>1. PICK version \in 1..MaxVersion :
        source' = [source EXCEPT ![s] = [state |-> "booked", version |-> version]]
  <2> DEFINE h == [source[s] EXCEPT !.version = source[s].version + 1]
             g == [state |-> "booked", version |-> source[s].version + 1]
  <2>1. /\ source[s].state = "booked" /\ source[s].version < MaxVersion
        /\ source' = [source EXCEPT ![s] = h]
    BY DEF Change
  <2>2. source[s].version + 1 \in 1..MaxVersion
    BY <2>1, ReservationTyped, CalendarAssumption
  <2>3. h = g
    BY <2>1, ReservationTyped
  <2> QED
    BY <2>1, <2>2, <2>3
<1>2. source[s].state # "cancelled" /\ Enqueue(rows, s, "UPDATE")
  BY DEF Change
<1> QED
  BY <1>1, <1>2, NoneSkipped, EnqueueStep DEF Ops

LEMMA CollapsedSkips ==
  ASSUME Inv, NEW s \in Sources
  PROVE  Skipping(Collapsed(s))
<1>1. rows \in Seq(RowType) /\ \A n \in DOMAIN rows : rows[n] \in RowType
  BY DEF Inv, Types
<1>2. ASSUME NEW n \in DOMAIN rows
      PROVE  /\ Collapsed(s)[n] \in RowType
             /\ Collapsed(s)[n].source = rows[n].source /\ Collapsed(s)[n].op = rows[n].op
             /\ Collapsed(s)[n].attempts = rows[n].attempts
             /\ Collapsed(s)[n].status \in {rows[n].status, "SKIPPED"}
  BY <1>1 DEF Collapsed, RowType, Final
<1>3. DOMAIN Collapsed(s) = 1..Len(rows) /\ Len(rows) \in Nat /\ DOMAIN rows = 1..Len(rows)
  BY <1>1 DEF Collapsed
<1>4. Collapsed(s) \in Seq(RowType)
  <2>1. Collapsed(s) \in [1..Len(rows) -> RowType]
    <3>1. Collapsed(s) = [n \in 1..Len(rows) |-> Collapsed(s)[n]]
      BY <1>3 DEF Collapsed
    <3> QED
      BY <1>2, <1>3, <3>1
  <2> QED
    BY <1>3, <2>1
<1> QED
  BY <1>2, <1>3, <1>4 DEF Skipping

LEMMA CancelStep ==
  ASSUME Inv, NEW s \in Sources, Cancel(s)
  PROVE  Inv'
<1>1. PICK version \in 1..MaxVersion :
        source' = [source EXCEPT ![s] = [state |-> "cancelled", version |-> version]]
  <2> DEFINE h == [source[s] EXCEPT !.state = "cancelled"]
             g == [state |-> "cancelled", version |-> source[s].version]
  <2>1. source[s].state = "booked" /\ source' = [source EXCEPT ![s] = h]
    BY DEF Cancel
  <2>2. source[s].version \in 1..MaxVersion
    BY <2>1, ReservationTyped, CalendarAssumption
  <2>3. h = g
    BY ReservationTyped
  <2> QED
    BY <2>1, <2>2, <2>3
<1>2. source[s].state # "cancelled" /\ Enqueue(Collapsed(s), s, "CANCEL")
  BY DEF Cancel
<1>3. Skipping(Collapsed(s))
  BY CollapsedSkips
<1> QED
  BY <1>1, <1>2, <1>3, EnqueueStep DEF Ops

-----------------------------------------------------------------------------
(* Steps around the workers.                                                *)

\* The tokens, and a request that finds its row.
LEMMA AroundStep ==
  ASSUME Inv, UNCHANGED <<source, rows, mapping, events, worker, stray>>,
         faults' \in FaultType, operator' \in [Operators -> RequestType],
         \A n \in DOMAIN rows : Retried(n) => Retried(n)'
  PROVE  Inv'
<1>1. Types'
  BY DEF Inv, Types
<1>2. Grows
  <2>1. \A n \in DOMAIN rows : rows[n].attempts >= rows[n].attempts
    BY RowTyped DEF Inv
  <2> QED
    BY <2>1 DEF Grows, RowsGrow, EventsGrow, SourcesGrow
<1>3. \A v \in Workers : WorkerInv(v)'
  BY <1>1, <1>2, WorkerKept DEF Inv
<1>4. /\ \A s \in Sources : SourceInv(s)'
      /\ \A n \in DOMAIN rows' : RowInv(n)'
      /\ \A e \in DOMAIN events' : EventInv(e)'
      /\ \A call \in stray' : CallInv(call)'
  BY DEF Inv, SourceInv, RowInv, EventInv, CallInv, IsEventOf
<1> QED
  BY <1>1, <1>3, <1>4 DEF Inv

LEMMA TokensStep ==
  ASSUME Inv, Unread \/ Mend
  PROVE  Inv'
<1>1. /\ UNCHANGED <<source, rows, mapping, events, worker, stray, operator>>
      /\ faults' = faults \/ faults' = [faults EXCEPT !.other = @ + 1]
  BY DEF Unread, Mend
<1>2. faults' \in FaultType /\ operator' \in [Operators -> RequestType]
  BY <1>1, FaultsTyped DEF Inv, Types
<1>3. \A n \in DOMAIN rows : Retried(n) => Retried(n)'
  BY <1>1 DEF Retried
<1> QED
  BY <1>1, <1>2, <1>3, AroundStep

LEMMA FindDeadStep ==
  ASSUME Inv, NEW o \in Operators, NEW n \in DOMAIN rows, FindDead(o, n)
  PROVE  Inv'
<1>1. /\ UNCHANGED <<source, rows, mapping, events, worker, stray, faults>>
      /\ operator[o].pc = "none" /\ operator' = [operator EXCEPT ![o] = [pc |-> "found", row |-> n]]
  BY DEF FindDead
<1>2. operator \in [Operators -> RequestType] /\ n \in Nat /\ faults' \in FaultType
  BY <1>1 DEF Inv, Types
<1>3. operator' \in [Operators -> RequestType] /\ \A p \in Operators \ {o} : operator'[p] = operator[p]
  BY <1>1, <1>2 DEF RequestType
<1>4. \A k \in DOMAIN rows : Retried(k) => Retried(k)'
  BY <1>1, <1>3 DEF Retried
<1> QED
  BY <1>1, <1>2, <1>3, <1>4, AroundStep

\* What PutBack makes of the row.
LEMMA WhatPutBackDoes ==
  ASSUME Inv, NEW o \in Operators, PutBack(o)
  PROVE  /\ rows' \in Seq(RowType) /\ DOMAIN rows' = DOMAIN rows
         /\ \A k \in DOMAIN rows :
              /\ rows'[k].source = rows[k].source /\ rows'[k].op = rows[k].op
              /\ k # operator[o].row => rows'[k] = rows[k]
              /\ k = operator[o].row => rows'[k].status = "PENDING" /\ rows'[k].attempts = 0
         /\ operator' \in [Operators -> RequestType]
         /\ operator'[o] = [pc |-> "done", row |-> operator[o].row]
         /\ \A p \in Operators \ {o} : operator'[p] = operator[p]
<1> DEFINE n == operator[o].row
           row == [rows[n] EXCEPT !.status = "PENDING", !.attempts = 0]
           request == [operator[o] EXCEPT !.pc = "done"]
<1>1. /\ rows \in Seq(RowType) /\ operator \in [Operators -> RequestType]
      /\ rows' = [rows EXCEPT ![n] = row] /\ operator' = [operator EXCEPT ![o] = request]
  BY DEF Inv, Types, PutBack
<1>2. operator[o] \in RequestType
  BY <1>1
<1>3. request \in RequestType /\ request = [pc |-> "done", row |-> n]
  BY <1>2 DEF RequestType
<1>4. n \in DOMAIN rows =>
        /\ row \in RowType /\ row.source = rows[n].source /\ row.op = rows[n].op
        /\ row.status = "PENDING" /\ row.attempts = 0
  BY RowTyped DEF Inv, RowType
<1> HIDE DEF row, request
<1>5. /\ operator' \in [Operators -> RequestType] /\ operator'[o] = request
      /\ \A p \in Operators \ {o} : operator'[p] = operator[p]
  BY <1>1, <1>3
<1>6. rows' \in Seq(RowType) /\ DOMAIN rows' = DOMAIN rows
  <2>1. CASE n \in DOMAIN rows
    BY <1>1, <1>4, <2>1
  <2>2. CASE n \notin DOMAIN rows
    <3>1. rows' = rows
      BY <1>1, <2>2
    <3> QED
      BY <1>1, <3>1
  <2> QED
    BY <2>1, <2>2
<1>7. /\ \A k \in DOMAIN rows : k # n => rows'[k] = rows[k]
      /\ n \in DOMAIN rows => rows'[n] = row
  BY <1>1
<1> QED
  BY <1>3, <1>4, <1>5, <1>6, <1>7

LEMMA PutBackStep ==
  ASSUME Inv, NEW o \in Operators, PutBack(o)
  PROVE  Inv'
<1> DEFINE n == operator[o].row
<1>1. /\ rows' \in Seq(RowType) /\ DOMAIN rows' = DOMAIN rows
      /\ \A k \in DOMAIN rows :
           /\ rows'[k].source = rows[k].source /\ rows'[k].op = rows[k].op
           /\ k # n => rows'[k] = rows[k]
           /\ k = n => rows'[k].status = "PENDING" /\ rows'[k].attempts = 0
      /\ operator' \in [Operators -> RequestType]
      /\ operator'[o] = [pc |-> "done", row |-> n]
      /\ \A p \in Operators \ {o} : operator'[p] = operator[p]
  BY WhatPutBackDoes
<1>2. UNCHANGED <<source, mapping, events, worker, stray, faults>> /\ operator[o].pc = "found"
  BY DEF PutBack
<1>3. Types'
  BY <1>1, <1>2 DEF Inv, Types
<1>4. Retried(n)' /\ \A k \in DOMAIN rows : Retried(k) => Retried(k)'
  BY <1>1, <1>2 DEF Retried
<1>5. Grows
  <2>1. \A k \in DOMAIN rows : rows[k].attempts \in Nat
    BY RowTyped DEF Inv
  <2>2. \A k \in DOMAIN rows : rows'[k].attempts >= rows[k].attempts \/ Retried(k)'
    BY <1>1, <1>4, <2>1
  <2> QED
    BY <1>1, <1>2, <1>4, <2>2 DEF Grows, RowsGrow, EventsGrow, SourcesGrow
<1>6. \A v \in Workers : WorkerInv(v)'
  BY <1>2, <1>3, <1>5, WorkerKept DEF Inv
<1>7. \A k \in DOMAIN rows' : RowInv(k)'
  BY <1>1, <1>2, <1>4 DEF Inv, RowInv
<1>8. /\ \A s \in Sources : SourceInv(s)'
      /\ \A e \in DOMAIN events' : EventInv(e)'
      /\ \A call \in stray' : CallInv(call)'
  BY <1>2 DEF Inv, SourceInv, EventInv, CallInv, IsEventOf
<1> QED
  BY <1>3, <1>6, <1>7, <1>8 DEF Inv

-----------------------------------------------------------------------------
LEMMA InvNext == Inv /\ [Next]_vars => Inv'
<1> SUFFICES ASSUME Inv, [Next]_vars PROVE Inv'
  OBVIOUS
<1>1. ASSUME NEW s \in Sources, Book(s) \/ Change(s) \/ Cancel(s)
      PROVE  Inv'
  BY <1>1, BookStep, ChangeStep, CancelStep
<1>2. ASSUME NEW w \in Workers, NEW n \in DOMAIN rows, Take(w, n)
      PROVE  Inv'
  BY <1>2, TakeStep
<1>3. ASSUME NEW w \in Workers, Proceed(w)
      PROVE  Inv'
  BY <1>3, BusyStep, ClaimStep, ListStep, AnsweredStep, RejectedStep, CommitStep DEF Proceed
<1>4. ASSUME NEW w \in Workers, Refused(w) \/ Unanswered(w) \/ Cut(w)
      PROVE  Inv'
  BY <1>4, RefusedStep, UnansweredStep, CutStep
<1>5. ASSUME NEW call \in stray, Land(call) \/ GoOn(call)
      PROVE  Inv'
  BY <1>5, LandStep, GoOnStep
<1>6. ASSUME NEW o \in Operators, PutBack(o) \/ \E n \in DOMAIN rows : FindDead(o, n)
      PROVE  Inv'
  BY <1>6, PutBackStep, FindDeadStep
<1>7. CASE Unread \/ Mend
  BY <1>7, TokensStep
<1>8. CASE UNCHANGED vars
  BY <1>8 DEF Inv, Types, SourceInv, RowInv, EventInv, WorkerInv, CallInv, IsEventOf, Retried,
              vars, outside, history
<1> QED
  BY <1>1, <1>2, <1>3, <1>4, <1>5, <1>6, <1>7, <1>8 DEF Next

LEMMA Invariance == Spec => []Inv
BY InitInv, InvNext, PTL DEF Spec

\* The outbox, the calendar, the mapping and the workers are well typed in every state, and no
\* row of processOutboxRow is given up before MAX_ATTEMPTS attempts.
THEOREM Typing == Spec => []TypeOK
<1>1. Inv => TypeOK
  <2> SUFFICES ASSUME Inv PROVE TypeOK
    OBVIOUS
  <2>1. mapping \in [Sources -> 0..Len(events)]
    <3>1. events \in Seq(EventType) /\ mapping \in [Sources -> Nat]
      BY DEF Inv, Types
    <3>2. ASSUME NEW s \in Sources
          PROVE  mapping[s] \in 0..Len(events)
      BY <3>1 DEF Inv, SourceInv, IsEventOf
    <3> QED
      BY <3>1, <3>2
  <2>2. \A n \in DOMAIN rows :
          rows[n].status = "DEAD_LETTER" => rows[n].attempts >= MAX_ATTEMPTS \/ Retried(n)
    BY DEF Inv, RowInv
  <2>3. \A w \in Workers : worker[w].pc # "idle" => worker[w].row \in DOMAIN rows
    BY DEF Inv, WorkerInv
  <2> QED
    BY <2>1, <2>2, <2>3 DEF TypeOK, Inv, Types, EventType
<1> QED
  BY <1>1, Invariance, PTL

\* A row that processOutboxRow marks SUCCESS has its reservation on the calendar, mapped to an
\* event that stays until the reservation is cancelled, whatever is lost or cut meanwhile.
THEOREM SuccessStays == Spec => []SuccessIsOnCalendar
<1>1. Inv => SuccessIsOnCalendar
  <2> SUFFICES ASSUME Inv, NEW n \in DOMAIN rows,
                      rows[n].status = "SUCCESS", rows[n].op # "CANCEL"
               PROVE  LET s == rows[n].source IN
                      /\ mapping[s] \in DOMAIN events /\ events[mapping[s]].source = s
                      /\ source[s].state = "booked" => events[mapping[s]].live
    BY DEF SuccessIsOnCalendar
  <2>1. rows[n].source \in Sources /\ mapping[rows[n].source] # 0
    BY RowTyped DEF Inv, RowInv
  <2>2. IsEventOf(mapping[rows[n].source], rows[n].source)
    BY <2>1 DEF Inv, SourceInv
  <2>3. EventInv(mapping[rows[n].source])
    BY <2>2 DEF Inv, IsEventOf
  <2> QED
    BY <2>2, <2>3 DEF IsEventOf, EventInv
<1> QED
  BY <1>1, Invariance, PTL

-----------------------------------------------------------------------------
(* The events of a reservation.                                             *)

EventsOf(s) == {e \in DOMAIN events : events[e].source = s}

\* A cancellation of the reservation has succeeded.
CancelDone(s) == \E n \in RowsOf(s) : rows[n].op = "CANCEL" /\ rows[n].status = "SUCCESS"

\* The lock is one worker's.
Exclusive(s) == \A v, w \in Workers : Holder(v, s) /\ Holder(w, s) => v = w

\* A call that left its transaction is on record.
Adrift(s) ==
  \A call \in stray : call.source = s =>
    s \in overrun /\ source[s].version # 0 /\ (call.pc = "insert" => s \in unsure)

\* An insert is made where no event is, and by one worker.
Single(s) ==
  s \notin overrun =>
    /\ \A e, f \in Live(s) : e = f
    /\ \A w \in Workers : Holder(w, s) /\ worker[w].pc = "insert" => Live(s) = {}

\* What the worker with the lock knows of the events and of the mapping.
InHand(w, s) ==
  LET h == worker[w] IN
  /\ h.pc = "finish" /\ h.event # 0 => mapping[s] \in {0, h.event}
  /\ h.pc \in {"patch", "delete"} => h.event = mapping[s]
  /\ h.pc \in {"list", "insert"} =>
       /\ \A e \in EventsOf(s) : events[e].live
       /\ \A call \in stray : call.source = s => call.pc # "delete"
       /\ ~CancelDone(s)
       /\ rows[h.row].op # "CREATE" => mapping[s] = 0
  /\ h.pc \in {"list", "insert", "patch"} => rows[h.row].op # "CANCEL"
  /\ h.pc = "insert" => EventsOf(s) = {}
  /\ h.pc = "finish" /\ h.outcome = "SUCCESS" /\ rows[h.row].op = "CANCEL" => Live(s) = {}

\* Every event is mapped or about to be, and a cancellation leaves none.
Recorded(s) ==
  s \notin unsure =>
    /\ \A e \in EventsOf(s) :
         \/ e = mapping[s]
         \/ \E w \in Workers : Holder(w, s) /\ worker[w].pc = "finish" /\ worker[w].event = e
    /\ \A w \in Workers : Holder(w, s) => InHand(w, s)
    /\ CancelDone(s) => Live(s) = {}

\* A change that is still to be pushed.
Waiting(n) ==
  /\ rows[n].op = "UPDATE" /\ rows[n].status \notin {"SUCCESS", "SKIPPED"}
  /\ ~ \E w \in Workers :
         worker[w].row = n /\ worker[w].pc = "finish" /\ worker[w].outcome = "SUCCESS"

\* An event that is behind its reservation has a change waiting, and so has a worker that is.
Fresh(s) ==
  s \notin unsure \cup overrun \cup outdated /\ source[s].state = "booked" =>
    /\ \A e \in Live(s) : \/ events[e].version = source[s].version
                          \/ \E n \in RowsOf(s) : Waiting(n)
    /\ \A w \in Workers : Holder(w, s) =>
         /\ worker[w].pc \in {"list", "insert", "patch"} =>
              \/ worker[w].version = source[s].version
              \/ \E n \in RowsOf(s) \ {worker[w].row} : Waiting(n)
         /\ worker[w].pc = "finish" => worker[w].outcome # "SKIPPED"

\* A reservation without a version has no event.
Begun(s) == EventsOf(s) # {} => source[s].version # 0

PushOk(s) ==
  Exclusive(s) /\ Adrift(s) /\ Single(s) /\ Recorded(s) /\ Fresh(s) /\ Begun(s)

PushInv == Inv /\ \A s \in Sources : PushOk(s)

LEMMA HolderIs ==
  ASSUME Inv, NEW w \in Workers, NEW s, Holder(w, s)
  PROVE  /\ worker[w].pc # "idle" /\ worker[w].row \in RowsOf(s) /\ worker[w].row \in DOMAIN rows
         /\ rows[worker[w].row].source = s /\ s \in Sources /\ source[s].version # 0
<1>1. worker[w].pc # "idle" /\ rows[worker[w].row].source = s
  BY DEF Holder, Of, Calling
<1>2. worker[w].row \in DOMAIN rows
  BY <1>1 DEF Inv, WorkerInv
<1>3. s \in Sources /\ source[s].version # 0
  BY <1>1, <1>2, RowTyped DEF Inv, RowInv
<1> QED
  BY <1>1, <1>2, <1>3 DEF RowsOf

\* A reservation that a step passes by.
PassesBy(s) ==
  /\ EventsOf(s)' = EventsOf(s) /\ \A e \in EventsOf(s) : events'[e] = events[e]
  /\ RowsOf(s)' = RowsOf(s) /\ \A n \in RowsOf(s) : rows'[n] = rows[n]
  /\ \A w \in Workers : (Holder(w, s)' <=> Holder(w, s)) /\ (Holder(w, s) => worker'[w] = worker[w])
  /\ mapping'[s] = mapping[s] /\ source'[s] = source[s]
  /\ \A call \in stray' : call.source = s => call \in stray
  /\ unsure \subseteq unsure' /\ overrun \subseteq overrun' /\ outdated \subseteq outdated'

LEMMA LiveIs == \A s : Live(s) = {e \in EventsOf(s) : events[e].live}
BY DEF Live, EventsOf

LEMMA LiveIsNext == \A s : Live(s)' = {e \in EventsOf(s)' : events'[e].live}
BY DEF Live, EventsOf

\* A change stays waiting if the workers that hold its reservation stay, or leave.
LEMMA WaitingStays ==
  ASSUME Inv', NEW s, NEW n \in RowsOf(s)', Waiting(n), rows'[n] = rows[n],
         \A w \in Workers : Holder(w, s)' =>
           \/ worker'[w] = worker[w]
           \/ worker'[w].pc # "finish" \/ worker'[w].outcome # "SUCCESS" \/ worker'[w].row # n
  PROVE  Waiting(n)'
<1>1. SUFFICES ASSUME NEW w \in Workers, worker'[w].row = n, worker'[w].pc = "finish",
                      worker'[w].outcome = "SUCCESS"
      PROVE  FALSE
  BY DEF Waiting
<1>2. rows'[n].source = s
  BY DEF RowsOf
<1>3. Holder(w, s)'
  BY <1>1, <1>2 DEF Holder, Of
<1>4. worker'[w] = worker[w]
  BY <1>1, <1>3
<1> QED
  BY <1>1, <1>4 DEF Waiting

LEMMA PassedBy ==
  ASSUME Inv, Inv', NEW s \in Sources, PushOk(s), PassesBy(s)
  PROVE  PushOk(s)'
<1>1. Live(s)' = Live(s) /\ \A e \in Live(s) : events'[e] = events[e] /\ e \in EventsOf(s)
  BY LiveIs, LiveIsNext DEF PassesBy
<1>2. Exclusive(s)' /\ Adrift(s)' /\ Single(s)' /\ Begun(s)'
  <2>1. Exclusive(s)'
    BY DEF PassesBy, PushOk, Exclusive
  <2>2. Adrift(s)'
    BY DEF PassesBy, PushOk, Adrift
  <2>3. Single(s)'
    BY <1>1 DEF PassesBy, PushOk, Single
  <2>4. Begun(s)'
    BY DEF PassesBy, PushOk, Begun
  <2> QED
    BY <2>1, <2>2, <2>3, <2>4
<1>3. CancelDone(s)' <=> CancelDone(s)
  BY DEF PassesBy, CancelDone
<1>4. ASSUME s \notin unsure', NEW w \in Workers, Holder(w, s)'
      PROVE  InHand(w, s)'
  <2>1. Holder(w, s) /\ worker'[w] = worker[w] /\ s \notin unsure
    BY <1>4 DEF PassesBy
  <2>2. InHand(w, s) /\ worker[w].row \in RowsOf(s)
    BY <2>1, HolderIs DEF PushOk, Recorded
  <2>3. rows'[worker[w].row] = rows[worker[w].row]
    BY <2>2 DEF PassesBy
  <2>4. \A e \in EventsOf(s) : events'[e] = events[e]
    BY DEF PassesBy
  <2> QED
    BY <1>1, <1>3, <2>1, <2>2, <2>3, <2>4 DEF InHand, PassesBy
<1>5. Recorded(s)'
  <2> SUFFICES ASSUME s \notin unsure' PROVE Recorded(s)'
    BY DEF Recorded
  <2>1. s \notin unsure
    BY DEF PassesBy
  <2>2. \A e \in EventsOf(s)' :
          \/ e = mapping'[s]
          \/ \E w \in Workers : Holder(w, s)' /\ worker'[w].pc = "finish" /\ worker'[w].event = e
    BY <2>1 DEF PushOk, Recorded, PassesBy
  <2>3. CancelDone(s)' => Live(s)' = {}
    BY <1>1, <1>3, <2>1 DEF PushOk, Recorded
  <2> QED
    BY <1>4, <2>2, <2>3 DEF Recorded
<1>6. ASSUME NEW n \in RowsOf(s), Waiting(n)
      PROVE  n \in RowsOf(s)' /\ Waiting(n)'
  <2>1. /\ n \in RowsOf(s)' /\ rows'[n] = rows[n]
        /\ \A w \in Workers : Holder(w, s)' => worker'[w] = worker[w]
    BY <1>6 DEF PassesBy
  <2> QED
    BY <1>6, <2>1, WaitingStays
<1>7. Fresh(s)'
  <2> SUFFICES ASSUME s \notin (unsure \cup overrun \cup outdated)', source'[s].state = "booked"
               PROVE  Fresh(s)'
    BY DEF Fresh
  <2>1. /\ s \notin unsure \cup overrun \cup outdated
        /\ source[s].state = "booked" /\ source'[s] = source[s]
    BY DEF PassesBy
  <2>2. \A e \in Live(s)' : \/ events'[e].version = source'[s].version
                            \/ \E n \in RowsOf(s)' : Waiting(n)'
    BY <1>1, <1>6, <2>1 DEF PushOk, Fresh
  <2>3. ASSUME NEW w \in Workers, Holder(w, s)'
        PROVE  /\ worker'[w].pc \in {"list", "insert", "patch"} =>
                    \/ worker'[w].version = source'[s].version
                    \/ \E n \in RowsOf(s)' \ {worker'[w].row} : Waiting(n)'
               /\ worker'[w].pc = "finish" => worker'[w].outcome # "SKIPPED"
    <3>1. Holder(w, s) /\ worker'[w] = worker[w]
      BY <2>3 DEF PassesBy
    <3> QED
      BY <1>6, <2>1, <3>1 DEF PushOk, Fresh
  <2> QED
    BY <2>2, <2>3 DEF Fresh
<1> QED
  BY <1>2, <1>5, <1>7 DEF PushOk

\* What a worker does is about the reservation of its row.
Moves(w) ==
  /\ worker[w].pc # "idle" /\ UNCHANGED source
  /\ \A v \in Workers \ {w} : worker'[v] = worker[v]
  /\ worker'[w].pc = "idle" \/ worker'[w].row = worker[w].row
  /\ DOMAIN rows' = DOMAIN rows
  /\ \A n \in DOMAIN rows : /\ rows'[n].source = rows[n].source /\ rows'[n].op = rows[n].op
                            /\ n # worker[w].row => rows'[n] = rows[n]
  /\ \A s \in Sources \ {Of(w)} : mapping'[s] = mapping[s]
  /\ \A e \in DOMAIN events : /\ e \in DOMAIN events' /\ events'[e].source = events[e].source
                              /\ events[e].source # Of(w) => events'[e] = events[e]
  /\ \A e \in DOMAIN events' \ DOMAIN events : events'[e].source = Of(w)
  /\ \A call \in stray' : call \in stray \/ call.source = Of(w)
  /\ unsure \subseteq unsure' /\ overrun \subseteq overrun' /\ outdated \subseteq outdated'

LEMMA OthersPassedBy ==
  ASSUME Inv, NEW w \in Workers, Moves(w), NEW s \in Sources \ {Of(w)}
  PROVE  PassesBy(s)
<1>1. EventsOf(s)' = EventsOf(s) /\ \A e \in EventsOf(s) : events'[e] = events[e]
  BY DEF Moves, EventsOf
<1>2. worker[w].row \in DOMAIN rows
  BY DEF Inv, WorkerInv, Moves
<1>3. RowsOf(s)' = RowsOf(s) /\ \A n \in RowsOf(s) : rows'[n] = rows[n]
  BY DEF Moves, RowsOf, Of
<1>4. ASSUME NEW v \in Workers
      PROVE  (Holder(v, s)' <=> Holder(v, s)) /\ (Holder(v, s) => worker'[v] = worker[v])
  <2>1. CASE v = w
    <3>1. ~Holder(w, s)
      BY DEF Holder
    <3>2. ~Holder(w, s)'
      BY <1>2 DEF Moves, Holder, Of, Calling
    <3> QED
      BY <2>1, <3>1, <3>2
  <2>2. CASE v # w
    <3>1. worker'[v] = worker[v] /\ (worker[v].pc # "idle" => worker[v].row \in DOMAIN rows)
      BY <2>2 DEF Moves, Inv, WorkerInv
    <3> QED
      BY <3>1 DEF Moves, Holder, Of, Calling
  <2> QED
    BY <2>1, <2>2
<1>5. \A call \in stray' : call.source = s => call \in stray
  BY DEF Moves
<1> QED
  BY <1>1, <1>3, <1>4, <1>5 DEF PassesBy, Moves

\* With the lock in hand, or free, the worker is the only one to have it then.
HasLock(w) == \A v \in Workers : Holder(v, Of(w)) => v = w

LEMMA OnlyHolder ==
  ASSUME Inv, NEW w \in Workers, Moves(w), HasLock(w), NEW s, s = Of(w)
  PROVE  /\ \A v \in Workers : Holder(v, s)' => v = w /\ worker'[w].pc # "idle"
         /\ \A v \in Workers : Holder(v, s) => v = w
         /\ Exclusive(s)' /\ s \in Sources /\ worker[w].row \in RowsOf(s)
         /\ RowsOf(s)' = RowsOf(s)
         /\ \A n \in RowsOf(s) : /\ rows'[n].op = rows[n].op
                                 /\ n # worker[w].row => rows'[n] = rows[n]
<1>1. ASSUME NEW v \in Workers, Holder(v, s)' PROVE v = w
  <2> SUFFICES ASSUME v # w PROVE FALSE
    OBVIOUS
  <2>1. worker'[v] = worker[v] /\ (worker[v].pc # "idle" => worker[v].row \in DOMAIN rows)
    BY DEF Moves, Inv, WorkerInv
  <2>2. Holder(v, s)
    BY <1>1, <2>1 DEF Moves, Holder, Of, Calling
  <2> QED
    BY <2>2 DEF HasLock
<1>2. \A v \in Workers : Holder(v, s)' => worker'[v].pc # "idle"
  BY DEF Holder, Calling
<1>3. worker[w].row \in DOMAIN rows
  BY DEF Inv, WorkerInv, Moves
<1>4. s \in Sources /\ worker[w].row \in RowsOf(s)
  BY <1>3, RowTyped DEF Inv, Of, RowsOf
<1>5. /\ RowsOf(s)' = RowsOf(s)
      /\ \A n \in RowsOf(s) : rows'[n].op = rows[n].op /\ (n # worker[w].row => rows'[n] = rows[n])
  BY DEF Moves, RowsOf
<1>6. Exclusive(s)'
  BY <1>1 DEF Exclusive
<1> QED
  BY <1>1, <1>2, <1>4, <1>5, <1>6 DEF HasLock

\* A step that makes no event and changes no mapping, row or stray call.
Aside(w) ==
  /\ worker[w].pc # "idle" /\ UNCHANGED <<source, rows, mapping, events, stray, unsure, overrun>>
  /\ \A v \in Workers \ {w} : worker'[v] = worker[v]
  /\ worker'[w].row = worker[w].row /\ worker'[w].pc \in Calling \cup {"finish"}
  /\ outdated \subseteq outdated'

\* Such a step keeps everything but what the worker itself is to know.
LEMMA AsideStep ==
  ASSUME Inv, Inv', NEW w \in Workers, NEW s, s = Of(w), PushOk(s), Aside(w), HasLock(w),
         worker'[w].pc = "insert" => Live(s) = {},
         s \notin unsure =>
           /\ InHand(w, s)'
           /\ \A e \in EventsOf(s) : \/ e = mapping[s]
                                     \/ worker'[w].pc = "finish" /\ worker'[w].event = e,
         s \notin unsure \cup overrun \cup outdated' /\ source[s].state = "booked" =>
           /\ worker'[w].pc \in {"list", "insert", "patch"} =>
                \/ worker'[w].version = source[s].version
                \/ \E n \in RowsOf(s) \ {worker'[w].row} : Waiting(n)
           /\ worker'[w].pc = "finish" => worker'[w].outcome # "SKIPPED"
           /\ worker'[w].pc = "finish" /\ worker'[w].outcome = "SUCCESS" =>
                \A e \in Live(s) : \/ events[e].version = source[s].version
                                   \/ \E n \in RowsOf(s) \ {worker[w].row} : Waiting(n)
  PROVE  PushOk(s)'
<1>1. Moves(w)
  BY DEF Aside, Moves
<1>2. /\ \A v \in Workers : Holder(v, s)' => v = w
      /\ \A v \in Workers : Holder(v, s) => v = w
      /\ Exclusive(s)' /\ s \in Sources /\ worker[w].row \in RowsOf(s)
  BY <1>1, OnlyHolder
<1>3. /\ Live(s)' = Live(s) /\ EventsOf(s)' = EventsOf(s) /\ RowsOf(s)' = RowsOf(s)
      /\ CancelDone(s)' <=> CancelDone(s)
  BY DEF Aside, Live, EventsOf, RowsOf, CancelDone
<1>4. Adrift(s)' /\ Begun(s)'
  BY <1>3 DEF PushOk, Adrift, Begun, Aside
<1>5. Single(s)'
  BY <1>2, <1>3 DEF PushOk, Single, Aside
<1>6. Recorded(s)'
  <2> SUFFICES ASSUME s \notin unsure PROVE Recorded(s)'
    BY DEF Recorded, Aside
  <2>1. Holder(w, s)'
    BY <1>2 DEF Aside, Holder, Of
  <2>2. \A e \in EventsOf(s)' :
          \/ e = mapping'[s]
          \/ \E v \in Workers : Holder(v, s)' /\ worker'[v].pc = "finish" /\ worker'[v].event = e
    BY <1>3, <2>1 DEF Aside
  <2>3. CancelDone(s)' => Live(s)' = {}
    BY <1>3 DEF PushOk, Recorded
  <2> QED
    BY <1>2, <2>2, <2>3 DEF Recorded
<1>7. Fresh(s)'
  <2> SUFFICES ASSUME s \notin unsure \cup overrun \cup outdated', source[s].state = "booked"
               PROVE  Fresh(s)'
    BY DEF Fresh, Aside
  <2>1. s \notin unsure \cup overrun \cup outdated
    BY DEF Aside
  <2>2. ASSUME NEW n \in RowsOf(s), Waiting(n), n # worker[w].row \/ worker'[w].pc # "finish"
                                                \/ worker'[w].outcome # "SUCCESS"
        PROVE  Waiting(n)'
    <3>1. n \in RowsOf(s)' /\ rows'[n] = rows[n] /\ worker'[w].row = worker[w].row
      BY <1>3 DEF Aside
    <3>2. \A v \in Workers : Holder(v, s)' =>
            worker'[v].pc # "finish" \/ worker'[v].outcome # "SUCCESS" \/ worker'[v].row # n
      BY <1>2, <2>2, <3>1
    <3> QED
      BY <2>2, <3>1, <3>2, WaitingStays
  <2>3. \A e \in Live(s)' : \/ events'[e].version = source'[s].version
                            \/ \E n \in RowsOf(s)' : Waiting(n)'
    <3>1. CASE worker'[w].pc = "finish" /\ worker'[w].outcome = "SUCCESS"
      <4>1. \A e \in Live(s) : \/ events[e].version = source[s].version
                               \/ \E n \in RowsOf(s) \ {worker[w].row} : Waiting(n)
        BY <3>1
      <4> QED
        BY <1>3, <2>2, <4>1 DEF Aside
    <3>2. CASE ~ (worker'[w].pc = "finish" /\ worker'[w].outcome = "SUCCESS")
      <4>1. \A e \in Live(s) : \/ events[e].version = source[s].version
                               \/ \E n \in RowsOf(s) : Waiting(n)
        BY <2>1 DEF PushOk, Fresh
      <4> QED
        BY <1>3, <2>2, <3>2, <4>1 DEF Aside
    <3> QED
      BY <3>1, <3>2
  <2>4. ASSUME NEW v \in Workers, Holder(v, s)'
        PROVE  /\ worker'[v].pc \in {"list", "insert", "patch"} =>
                    \/ worker'[v].version = source'[s].version
                    \/ \E n \in RowsOf(s)' \ {worker'[v].row} : Waiting(n)'
               /\ worker'[v].pc = "finish" => worker'[v].outcome # "SKIPPED"
    <3>1. v = w /\ source' = source /\ RowsOf(s)' = RowsOf(s) /\ worker'[w].row = worker[w].row
      BY <1>2, <1>3, <2>4 DEF Aside
    <3> QED
      BY <2>2, <3>1
  <2> QED
    BY <2>3, <2>4 DEF Fresh
<1> QED
  BY <1>2, <1>4, <1>5, <1>6, <1>7 DEF PushOk

LEMMA GoesGives ==
  ASSUME Types, NEW w \in Workers, NEW pc, NEW outcome, NEW e, Goes(w, pc, outcome, e)
  PROVE  /\ \A v \in Workers \ {w} : worker'[v] = worker[v]
         /\ worker'[w].pc = pc /\ worker'[w].outcome = outcome /\ worker'[w].event = e
         /\ worker'[w].row = worker[w].row /\ worker'[w].version = worker[w].version
<1>1. worker[w] \in WorkerType /\ worker \in [Workers -> WorkerType]
  BY DEF Types
<1>2. worker' = [worker EXCEPT ![w] = [worker[w] EXCEPT !.pc = pc, !.outcome = outcome, !.event = e]]
  BY <1>1 DEF Goes
<1>3. /\ worker'[w] = [worker[w] EXCEPT !.pc = pc, !.outcome = outcome, !.event = e]
      /\ \A v \in Workers \ {w} : worker'[v] = worker[v]
  BY <1>1, <1>2
<1> QED
  BY <1>1, <1>3 DEF WorkerType

\* All other reservations are passed by.
LEMMA StepOfWorker ==
  ASSUME PushInv, Inv', NEW w \in Workers, Moves(w), NEW s, s = Of(w), PushOk(s)'
  PROVE  \A t \in Sources : PushOk(t)'
<1> TAKE t \in Sources
<1>1. CASE t = s
  BY <1>1
<1>2. CASE t # s
  BY <1>2, OthersPassedBy, PassedBy DEF PushInv
<1> QED
  BY <1>1, <1>2

LEMMA ClaimKeeps ==
  ASSUME PushInv, Inv', NEW w \in Workers, NEW s, s = Of(w), Claim(w)
  PROVE  Moves(w) /\ PushOk(s)'
<1>0. PICK op : op = rows[worker[w].row].op
  OBVIOUS
<1>1. /\ worker[w].pc = "read" /\ UNCHANGED <<source, rows, mapping, events, stray, unsure, overrun>>
      /\ \A v \in Workers : ~Holder(v, s)
      /\ outdated \subseteq outdated' /\ (s \in outdated' \/ worker[w].version = source[s].version)
      /\ Inv
  BY DEF Claim, PushInv
<1>2. worker[w].row \in DOMAIN rows /\ s \in Sources /\ worker[w].row \in RowsOf(s)
  BY <1>1, RowTyped DEF Inv, WorkerInv, Of, RowsOf
<1>3. PushOk(s) /\ HasLock(w)
  BY <1>1, <1>2 DEF PushInv, HasLock
<1>4. \/ op # "CANCEL" /\ source[s].state = "cancelled" /\ Goes(w, "finish", "SKIPPED", 0)
      \/ op # "CANCEL" /\ source[s].state # "cancelled" /\ (op = "CREATE" \/ mapping[s] = 0)
           /\ Goes(w, "list", "none", 0)
      \/ op # "CANCEL" /\ Goes(w, "patch", "none", mapping[s])
      \/ op = "CANCEL" /\ mapping[s] = 0 /\ Goes(w, "finish", "SUCCESS", 0)
      \/ op = "CANCEL" /\ mapping[s] # 0 /\ Goes(w, "delete", "none", mapping[s])
  BY <1>0 DEF Claim, Promoted, SourceCancelled, Goes
<1>5. PICK pc \in {"finish", "list", "patch", "delete"},
           outcome \in {"none", "SKIPPED", "SUCCESS"}, e \in {0, mapping[s]} :
        /\ Goes(w, pc, outcome, e)
        /\ pc = "finish" => e = 0
        /\ pc \in {"patch", "delete"} => e = mapping[s]
        /\ pc = "list" => /\ op # "CANCEL" /\ source[s].state # "cancelled"
                          /\ op = "CREATE" \/ mapping[s] = 0
        /\ pc = "patch" => op # "CANCEL"
        /\ pc = "delete" => op = "CANCEL"
        /\ pc = "finish" /\ op = "CANCEL" => mapping[s] = 0
        /\ pc = "finish" /\ op # "CANCEL" => source[s].state = "cancelled"
  BY <1>4
<1>6. /\ \A v \in Workers \ {w} : worker'[v] = worker[v]
      /\ worker'[w].pc = pc /\ worker'[w].outcome = outcome /\ worker'[w].event = e
      /\ worker'[w].row = worker[w].row /\ worker'[w].version = worker[w].version
  BY <1>1, <1>5, GoesGives DEF Inv
<1>7. Aside(w)
  BY <1>1, <1>6 DEF Aside, Calling
<1>8. op = "CANCEL" => source[s].state = "cancelled"
  BY <1>0, <1>1, <1>2 DEF Inv, RowInv, Of
<1>9. s \notin unsure => \A d \in EventsOf(s) : d = mapping[s]
  BY <1>1, <1>3 DEF PushOk, Recorded
<1>10. ASSUME s \notin unsure
       PROVE  InHand(w, s)'
  <2>1. pc = "list" =>
          /\ \A d \in EventsOf(s) : events[d].live
          /\ \A call \in stray : call.source = s => call.pc # "delete"
          /\ ~CancelDone(s)
          /\ op # "CREATE" => mapping[s] = 0
    <3> SUFFICES ASSUME pc = "list"
                 PROVE  /\ \A d \in EventsOf(s) : events[d].live
                        /\ \A call \in stray : call.source = s => call.pc # "delete"
                        /\ ~CancelDone(s)
                        /\ op # "CREATE" => mapping[s] = 0
      OBVIOUS
    <3>1. source[s].state # "cancelled" /\ (op = "CREATE" \/ mapping[s] = 0)
      BY <1>5
    <3>2. \A d \in EventsOf(s) : events[d].live
      BY <1>1, <3>1 DEF EventsOf, Inv, EventInv
    <3>3. \A call \in stray : call.source = s => call.pc # "delete"
      BY <1>1, <3>1 DEF Inv, CallInv
    <3>4. ~CancelDone(s)
      BY <1>1, <3>1 DEF CancelDone, RowsOf, Inv, RowInv
    <3> QED
      BY <3>1, <3>2, <3>3, <3>4
  <2>2. pc = "finish" /\ op = "CANCEL" => Live(s) = {}
    <3> SUFFICES ASSUME mapping[s] = 0, NEW d \in Live(s) PROVE FALSE
      BY <1>5
    <3>1. d \in EventsOf(s) /\ d # 0
      BY <1>1 DEF Live, EventsOf, Inv, Types
    <3> QED
      BY <1>9, <1>10, <3>1
  <2>3. /\ EventsOf(s)' = EventsOf(s) /\ Live(s)' = Live(s) /\ (CancelDone(s)' <=> CancelDone(s))
        /\ rows'[worker[w].row].op = op
    BY <1>0, <1>1 DEF EventsOf, Live, CancelDone, RowsOf
  <2> QED
    BY <1>1, <1>5, <1>6, <2>1, <2>2, <2>3 DEF InHand
<1>11. ASSUME s \notin unsure \cup overrun \cup outdated', source[s].state = "booked"
       PROVE  /\ worker'[w].version = source[s].version /\ worker'[w].pc # "finish"
  BY <1>1, <1>5, <1>6, <1>8, <1>11
<1>12. PushOk(s)'
  BY <1>1, <1>3, <1>5, <1>6, <1>7, <1>9, <1>10, <1>11, AsideStep
<1> QED
  BY <1>7, <1>12 DEF Aside, Moves

\* A worker that comes to its end without a call that lands.
LEMMA EndsKeeps ==
  ASSUME PushInv, Inv', NEW w \in Workers, NEW s, s = Of(w), Holder(w, s), worker[w].pc # "finish",
         Finish(w, "error", 0), UNCHANGED <<source, rows, mapping, events, stray, history>>
  PROVE  Moves(w) /\ PushOk(s)'
<1>1. /\ \A v \in Workers \ {w} : worker'[v] = worker[v]
      /\ worker'[w].pc = "finish" /\ worker'[w].outcome = "error" /\ worker'[w].event = 0
      /\ worker'[w].row = worker[w].row
  BY FinishGives DEF PushInv, Inv
<1>2. worker[w].pc # "idle" /\ s \in Sources /\ PushOk(s) /\ HasLock(w) /\ Inv
  BY HolderIs DEF PushInv, PushOk, Exclusive, HasLock
<1>3. Aside(w)
  BY <1>1, <1>2 DEF Aside, history
<1>4. s \notin unsure => /\ InHand(w, s)'
                         /\ \A e \in EventsOf(s) : e = mapping[s]
  BY <1>1, <1>2 DEF InHand, PushOk, Recorded, HasLock
<1>5. PushOk(s)'
  BY <1>1, <1>2, <1>3, <1>4, AsideStep
<1> QED
  BY <1>3, <1>5 DEF Aside, Moves

LEMMA RejectedKeeps ==
  ASSUME PushInv, Inv', NEW w \in Workers, NEW s, s = Of(w), Rejected(w) \/ Refused(w)
  PROVE  Moves(w) /\ PushOk(s)'
<1>1. Holder(w, s) /\ worker[w].pc # "finish" /\ Finish(w, "error", 0)
      /\ UNCHANGED <<source, rows, mapping, events, stray, history>>
  BY DEF Rejected, Refused, Holder, Calling
<1> QED
  BY <1>1, EndsKeeps

LEMMA ListKeeps ==
  ASSUME PushInv, Inv', NEW w \in Workers, NEW s, s = Of(w), List(w)
  PROVE  Moves(w) /\ PushOk(s)'
<1>1. worker[w].pc = "list" /\ UNCHANGED <<source, rows, mapping, events, stray, history>>
  BY DEF List
<1>2. Holder(w, s) /\ worker[w] \in WorkerType /\ worker \in [Workers -> WorkerType]
  BY <1>1 DEF Holder, Calling, PushInv, Inv, Types
<1>3. s \in Sources /\ PushOk(s) /\ HasLock(w) /\ Inv /\ worker[w].row \in RowsOf(s)
  BY <1>2, HolderIs DEF PushInv, PushOk, Exclusive, HasLock
<1>4. s \notin unsure => InHand(w, s) /\ \A e \in EventsOf(s) : e = mapping[s]
  BY <1>1, <1>2, <1>3 DEF PushOk, Recorded, HasLock
<1>5. /\ EventsOf(s)' = EventsOf(s) /\ Live(s)' = Live(s) /\ (CancelDone(s)' <=> CancelDone(s))
      /\ Live(s) \subseteq EventsOf(s)
  BY <1>1 DEF EventsOf, Live, CancelDone, RowsOf
<1>6. CASE Existing(s) = {} /\ worker' = [worker EXCEPT ![w].pc = "insert"]
  <2>1. /\ \A v \in Workers \ {w} : worker'[v] = worker[v]
        /\ worker'[w] = [worker[w] EXCEPT !.pc = "insert"]
    BY <1>2, <1>6
  <2>2. /\ worker'[w].pc = "insert" /\ worker'[w].row = worker[w].row
        /\ worker'[w].version = worker[w].version
    BY <1>2, <2>1 DEF WorkerType
  <2>3. Aside(w)
    BY <1>1, <2>1, <2>2 DEF Aside, Calling, history
  <2>4. Live(s) = {}
    BY <1>6 DEF Existing
  <2>5. ASSUME s \notin unsure PROVE InHand(w, s)'
    <3>1. EventsOf(s) = {}
      BY <1>1, <1>4, <2>4, <2>5 DEF InHand, Live, EventsOf
    <3> QED
      BY <1>1, <1>4, <1>5, <2>2, <2>5, <3>1 DEF InHand
  <2>6. s \notin unsure \cup overrun \cup outdated /\ source[s].state = "booked" =>
          \/ worker'[w].version = source[s].version
          \/ \E n \in RowsOf(s) \ {worker'[w].row} : Waiting(n)
    BY <1>1, <1>2, <1>3, <2>2 DEF PushOk, Fresh
  <2>7. PushOk(s)'
    BY <1>1, <1>3, <1>4, <2>2, <2>3, <2>4, <2>5, <2>6, AsideStep DEF history
  <2> QED
    BY <2>3, <2>7 DEF Aside, Moves
<1>7. ASSUME NEW e \in Existing(s), Finish(w, "SUCCESS", Found(e))
      PROVE  Moves(w) /\ PushOk(s)'
  <2>1. e \in Live(s) /\ e \in Nat /\ e # 0 /\ Found(e) = e
    BY <1>3 DEF Existing, Live, Inv, Types, Found
  <2>2. /\ \A v \in Workers \ {w} : worker'[v] = worker[v]
        /\ worker'[w].pc = "finish" /\ worker'[w].outcome = "SUCCESS" /\ worker'[w].event = e
        /\ worker'[w].row = worker[w].row
    BY <1>3, <1>7, <2>1, FinishGives DEF Inv
  <2>3. Aside(w)
    BY <1>1, <2>2 DEF Aside, history
  <2>4. s \notin unsure => InHand(w, s)'
    BY <1>1, <1>4, <1>5, <2>1, <2>2 DEF InHand
  <2>5. ASSUME s \notin unsure \cup overrun \cup outdated, source[s].state = "booked",
               NEW d \in Live(s)
        PROVE  \/ events[d].version = source[s].version
               \/ \E n \in RowsOf(s) \ {worker[w].row} : Waiting(n)
    <3>1. \/ events[d].version = source[s].version
          \/ \E n \in RowsOf(s) : Waiting(n)
      BY <1>3, <2>5 DEF PushOk, Fresh
    <3>2. rows[worker[w].row].op = "CREATE"
      <4>1. d = mapping[s] /\ d # 0
        BY <1>3, <1>4, <1>5, <2>5 DEF Live, Inv, Types
      <4> QED
        BY <1>1, <1>4, <2>5, <4>1 DEF InHand
    <3> QED
      BY <3>1, <3>2 DEF Waiting
  <2>6. PushOk(s)'
    BY <1>1, <1>3, <1>4, <2>2, <2>3, <2>4, <2>5, AsideStep DEF history
  <2> QED
    BY <2>3, <2>6 DEF Aside, Moves
<1> QED
  BY <1>6, <1>7 DEF List

\* A step of a worker that has no lock and gets none.
LEMMA NothingHeld ==
  ASSUME NEW w \in Workers, worker[w].pc \in {"idle", "read"}, worker'[w].pc \in {"idle", "read"},
         \A v \in Workers \ {w} : worker'[v] = worker[v],
         UNCHANGED <<source, rows, mapping, events, stray, history>>
  PROVE  \A s \in Sources : PassesBy(s)
<1> TAKE s \in Sources
<1>1. /\ EventsOf(s)' = EventsOf(s) /\ \A e \in EventsOf(s) : events'[e] = events[e]
      /\ RowsOf(s)' = RowsOf(s) /\ \A n \in RowsOf(s) : rows'[n] = rows[n]
  BY DEF EventsOf, RowsOf
<1>2. ASSUME NEW v \in Workers
      PROVE  (Holder(v, s)' <=> Holder(v, s)) /\ (Holder(v, s) => worker'[v] = worker[v])
  <2>1. CASE v = w
    BY <2>1 DEF Holder, Calling
  <2>2. CASE v # w
    BY <2>2 DEF Holder, Of
  <2> QED
    BY <2>1, <2>2
<1> QED
  BY <1>1, <1>2 DEF PassesBy, history

LEMMA ReadKeeps ==
  ASSUME PushInv, Inv', NEW w \in Workers,
         \/ \E n \in DOMAIN rows : Take(w, n)
         \/ Busy(w) \/ Unreadable(w)
         \/ Cut(w) /\ worker[w].pc = "read"
  PROVE  \A s \in Sources : PushOk(s)'
<1>1. worker \in [Workers -> WorkerType]
  BY DEF PushInv, Inv, Types
<1>2. /\ worker[w].pc \in {"idle", "read"}
      /\ UNCHANGED <<source, rows, mapping, events, stray, history>>
      /\ \/ worker' = [worker EXCEPT ![w] = Idle]
         \/ \E n \in DOMAIN rows : worker' = [worker EXCEPT ![w] = Read(n)]
  BY DEF Take, Busy, AfterBusy, Unreadable, Cut, Calling, history
<1>3. Idle.pc = "idle" /\ \A n : Read(n).pc = "read"
  BY DEF Idle, Read
<1>4. worker'[w].pc \in {"idle", "read"} /\ \A v \in Workers \ {w} : worker'[v] = worker[v]
  BY <1>1, <1>2, <1>3
<1>5. \A s \in Sources : PassesBy(s)
  BY <1>2, <1>4, NothingHeld
<1> QED
  BY <1>5, PassedBy DEF PushInv

LEMMA CutKeeps ==
  ASSUME PushInv, Inv', NEW w \in Workers, NEW s, s = Of(w), Cut(w), Holder(w, s)
  PROVE  Moves(w) /\ PushOk(s)'
<1>1. /\ UNCHANGED <<source, rows, mapping, events, outdated>>
      /\ unsure \subseteq unsure' /\ overrun \subseteq overrun' /\ stray \subseteq stray'
      /\ \A call \in stray' : call \in stray \/
           /\ call = CallOf(w) /\ s \in overrun'
           /\ worker[w].pc = "insert" => s \in unsure'
      /\ s \notin unsure' => /\ worker[w].pc # "insert"
                             /\ worker[w].pc = "finish" => worker[w].event \in {0, mapping[s]}
  BY DEF Cut
<1>2. CallOf(w).source = s /\ CallOf(w).pc = worker[w].pc
  BY DEF CallOf
<1>3. worker'[w].pc = "idle" /\ \A v \in Workers \ {w} : worker'[v] = worker[v]
  BY DEF Cut, PushInv, Inv, Types, Idle
<1>4. s \in Sources /\ PushOk(s) /\ HasLock(w) /\ Inv /\ source[s].version # 0
      /\ worker[w].pc # "idle"
  BY HolderIs DEF PushInv, PushOk, Exclusive, HasLock
<1>5. Moves(w)
  BY <1>1, <1>2, <1>3, <1>4 DEF Moves
<1>6. (\A v \in Workers : ~Holder(v, s)') /\ (\A v \in Workers : Holder(v, s) => v = w)
  BY <1>3, <1>4, <1>5, OnlyHolder
<1>7. /\ Live(s)' = Live(s) /\ EventsOf(s)' = EventsOf(s) /\ RowsOf(s)' = RowsOf(s)
      /\ CancelDone(s)' <=> CancelDone(s)
  BY <1>1 DEF Live, EventsOf, RowsOf, CancelDone
<1>8. Exclusive(s)' /\ Begun(s)' /\ Single(s)'
  BY <1>1, <1>4, <1>6, <1>7 DEF PushOk, Exclusive, Begun, Single
<1>9. Adrift(s)'
  BY <1>1, <1>2, <1>4 DEF PushOk, Adrift
<1>10. Recorded(s)'
  <2> SUFFICES ASSUME s \notin unsure' PROVE Recorded(s)'
    BY DEF Recorded
  <2>1. s \notin unsure /\ (worker[w].pc = "finish" => worker[w].event \in {0, mapping[s]})
    BY <1>1
  <2>2. ASSUME NEW e \in EventsOf(s) PROVE e = mapping[s]
    <3>1. e # 0
      BY <1>4 DEF EventsOf, Inv, Types
    <3> QED
      BY <1>4, <1>6, <2>1, <3>1 DEF PushOk, Recorded
  <2> QED
    BY <1>1, <1>4, <1>6, <1>7, <2>1, <2>2 DEF PushOk, Recorded
<1>11. Fresh(s)'
  <2> SUFFICES ASSUME s \notin (unsure \cup overrun \cup outdated)', source[s].state = "booked"
               PROVE  Fresh(s)'
    BY <1>1 DEF Fresh
  <2>1. s \notin unsure \cup overrun \cup outdated
    BY <1>1
  <2>2. \A n \in RowsOf(s) : Waiting(n) => Waiting(n)'
    BY <1>1, <1>6, <1>7, WaitingStays
  <2> QED
    BY <1>1, <1>4, <1>6, <1>7, <2>1, <2>2 DEF PushOk, Fresh
<1> QED
  BY <1>5, <1>8, <1>9, <1>10, <1>11 DEF PushOk

\* What a call makes of the events, each of them.
LEMMA Landed ==
  ASSUME Inv, NEW call \in CallType, CallInv(call), events' = After(call)
  PROVE  /\ \A e \in DOMAIN events :
              /\ e \in DOMAIN events' /\ events'[e].source = events[e].source
              /\ events[e].source # call.source \/ e # call.event => events'[e] = events[e]
              /\ events'[e].live => events[e].live
              /\ call.pc # "delete" => events'[e].live = events[e].live
         /\ call.pc = "insert" => /\ DOMAIN events' = DOMAIN events \cup {Len(events) + 1}
                                  /\ Len(events) + 1 \notin DOMAIN events
                                  /\ events'[Len(events) + 1].source = call.source
                                  /\ events'[Len(events) + 1].version = call.version
         /\ call.pc # "insert" => DOMAIN events' = DOMAIN events
         /\ call.pc = "patch" /\ events[call.event].live => events'[call.event].version = call.version
         /\ call.pc = "delete" => ~events'[call.event].live
<1>1. /\ call.pc \in {"list", "insert", "patch", "delete"} /\ events \in Seq(EventType)
      /\ \A e \in DOMAIN events : events[e] \in EventType
      /\ call.source \in Sources /\ call.version \in 1..MaxVersion
  BY DEF CallType, Calling, Inv, Types
<1>2. CASE call.pc = "insert"
  <2> DEFINE new == [source |-> call.source, version |-> call.version, live |-> TRUE]
  <2>1. events' = Append(events, new)
    BY <1>2 DEF After
  <2>2. new \in EventType /\ new.version = call.version /\ new.source = call.source
    BY <1>1 DEF EventType
  <2> HIDE DEF new
  <2>3. /\ DOMAIN events' = 1..(Len(events) + 1) /\ DOMAIN events = 1..Len(events)
        /\ Len(events) \in Nat
        /\ \A e \in DOMAIN events : e \in DOMAIN events' /\ events'[e] = events[e]
        /\ events'[Len(events) + 1] = new
    BY <1>1, <2>1, <2>2, AppendProperties
  <2>4. DOMAIN events' = DOMAIN events \cup {Len(events) + 1} /\ Len(events) + 1 \notin DOMAIN events
    BY <2>3
  <2> QED
    BY <1>2, <2>2, <2>3, <2>4
<1>3. CASE call.pc = "patch"
  <2> DEFINE row == [events[call.event] EXCEPT !.version = call.version]
  <2>1. call.event \in DOMAIN events /\ events[call.event].source = call.source
    BY <1>3 DEF CallInv, IsEventOf
  <2>2. /\ row.source = events[call.event].source /\ row.live = events[call.event].live
        /\ row.version = call.version
    BY <1>1, <2>1 DEF EventType
  <2>3. \/ ~events[call.event].live /\ events' = events
        \/ events[call.event].live /\ events' = [events EXCEPT ![call.event] = row]
    BY <1>3 DEF After
  <2> HIDE DEF row
  <2>4. CASE ~events[call.event].live /\ events' = events
    BY <1>3, <2>4
  <2>5. CASE events[call.event].live /\ events' = [events EXCEPT ![call.event] = row]
    BY <1>1, <1>3, <2>1, <2>2, <2>5
  <2> QED
    BY <2>3, <2>4, <2>5
<1>4. CASE call.pc = "delete"
  <2> DEFINE row == [events[call.event] EXCEPT !.live = FALSE]
  <2>1. call.event \in DOMAIN events /\ events[call.event].source = call.source
    BY <1>4 DEF CallInv, IsEventOf
  <2>2. row.source = events[call.event].source /\ row.live = FALSE
    BY <1>1, <2>1 DEF EventType
  <2>3. events' = [events EXCEPT ![call.event] = row]
    BY <1>4 DEF After
  <2> HIDE DEF row
  <2> QED
    BY <1>1, <1>4, <2>1, <2>2, <2>3
<1>5. CASE call.pc = "list"
  BY <1>5 DEF After
<1> QED
  BY <1>1, <1>2, <1>3, <1>4, <1>5

\* A call that was cut and lands.
LEMMA LandKeeps ==
  ASSUME PushInv, Inv', NEW call \in stray, Land(call)
  PROVE  \A t \in Sources : PushOk(t)'
<1> TAKE t \in Sources
<1>1. UNCHANGED <<source, rows, mapping, worker, history>> /\ stray' \subseteq stray /\ Inv
      /\ PushOk(t)
  BY DEF Land, PushInv
<1>2. /\ RowsOf(t)' = RowsOf(t) /\ (CancelDone(t)' <=> CancelDone(t))
      /\ \A w \in Workers : Holder(w, t)' <=> Holder(w, t)
  BY <1>1 DEF RowsOf, CancelDone, Holder, Of
<1>3. CASE events' = events
  <2>1. PassesBy(t)
    BY <1>1, <1>2, <1>3 DEF PassesBy, EventsOf, history
  <2> QED
    BY <1>1, <2>1, PassedBy
<1>4. CASE events' = After(call) /\ call.source # t
  <2>1. call \in CallType /\ CallInv(call)
    BY <1>1 DEF Inv, Types
  <2>2. /\ \A e \in DOMAIN events :
             /\ e \in DOMAIN events' /\ events'[e].source = events[e].source
             /\ events[e].source # call.source => events'[e] = events[e]
        /\ \A e \in DOMAIN events' : e \in DOMAIN events \/ events'[e].source = call.source
    BY <1>1, <1>4, <2>1, Landed
  <2>3. EventsOf(t)' = EventsOf(t) /\ \A e \in EventsOf(t) : events'[e] = events[e]
    BY <1>4, <2>2 DEF EventsOf
  <2>4. PassesBy(t)
    BY <1>1, <1>2, <2>3 DEF PassesBy, history
  <2> QED
    BY <1>1, <2>4, PassedBy
<1>5. CASE events' = After(call) /\ call.source = t
  <2>1. call \in CallType /\ CallInv(call)
    BY <1>1 DEF Inv, Types
  <2>2. t \in overrun /\ source[t].version # 0 /\ (call.pc = "insert" => t \in unsure)
    BY <1>1, <1>5 DEF PushOk, Adrift
  <2>3. Exclusive(t)' /\ Adrift(t)' /\ Single(t)' /\ Fresh(t)' /\ Begun(t)'
    BY <1>1, <1>2, <2>2 DEF PushOk, Exclusive, Adrift, Single, Fresh, Begun, history
  <2>4. ASSUME t \notin unsure PROVE Recorded(t)'
    <3>1. /\ DOMAIN events' = DOMAIN events
          /\ \A e \in DOMAIN events :
               /\ events'[e].source = events[e].source
               /\ events'[e].live => events[e].live
               /\ call.pc # "delete" => events'[e].live = events[e].live
      BY <1>1, <1>5, <2>1, <2>2, <2>4, Landed
    <3>2. EventsOf(t)' = EventsOf(t) /\ Live(t)' \subseteq Live(t)
      BY <3>1 DEF EventsOf, Live
    <3>3. ASSUME NEW w \in Workers, Holder(w, t) PROVE InHand(w, t)'
      <4>1. InHand(w, t)
        BY <1>1, <2>4, <3>3 DEF PushOk, Recorded
      <4>2. worker[w].pc \in {"list", "insert"} => \A e \in EventsOf(t) : events'[e].live
        BY <1>5, <3>1, <4>1 DEF InHand, EventsOf
      <4> QED
        BY <1>1, <1>2, <3>2, <4>1, <4>2 DEF InHand
    <3> QED
      BY <1>1, <1>2, <2>4, <3>2, <3>3 DEF PushOk, Recorded
  <2> QED
    BY <1>1, <2>3, <2>4 DEF PushOk, Recorded, history
<1> QED
  BY <1>3, <1>4, <1>5 DEF Land

\* A search that was cut and goes on: its reservation is among the exceptions from here on.
LEMMA GoOnKeeps ==
  ASSUME PushInv, Inv', NEW call \in stray, GoOn(call)
  PROVE  \A t \in Sources : PushOk(t)'
<1> DEFINE insert == [call EXCEPT !.pc = "insert"]
<1> TAKE t \in Sources
<1>1. /\ UNCHANGED <<source, rows, mapping, events, worker, overrun, outdated>> /\ Inv /\ PushOk(t)
      /\ stray' = (stray \ {call}) \cup {insert} /\ unsure' = unsure \cup {call.source}
  BY DEF GoOn, PushInv
<1>2. insert.source = call.source
  BY DEF Inv, Types, CallType, PushInv
<1> HIDE DEF insert
<1>3. /\ RowsOf(t)' = RowsOf(t) /\ EventsOf(t)' = EventsOf(t)
      /\ \A w \in Workers : Holder(w, t)' <=> Holder(w, t)
  BY <1>1 DEF RowsOf, EventsOf, Holder, Of
<1>4. CASE call.source # t
  <2>1. PassesBy(t)
    BY <1>1, <1>2, <1>3, <1>4 DEF PassesBy
  <2> QED
    BY <1>1, <2>1, PassedBy
<1>5. CASE call.source = t
  <2>1. t \in overrun' /\ t \in unsure' /\ source'[t].version # 0
    BY <1>1, <1>5 DEF PushOk, Adrift
  <2>2. Adrift(t)' /\ Single(t)' /\ Recorded(t)' /\ Fresh(t)'
    BY <2>1 DEF Adrift, Single, Recorded, Fresh
  <2>3. Exclusive(t)' /\ Begun(t)'
    BY <1>1, <1>3 DEF PushOk, Exclusive, Begun
  <2> QED
    BY <2>2, <2>3 DEF PushOk
<1> QED
  BY <1>4, <1>5

\* A row that is put back: no worker has claimed it, and a change waits again.
LEMMA PutBackKeeps ==
  ASSUME PushInv, Inv', NEW o \in Operators, PutBack(o)
  PROVE  \A t \in Sources : PushOk(t)'
<1> DEFINE n == operator[o].row
<1> TAKE t \in Sources
<1>1. /\ UNCHANGED <<source, mapping, events, worker, stray, history>> /\ Inv /\ PushOk(t)
      /\ ~ \E w \in Workers : worker[w].row = n /\ Holder(w, Of(w))
  BY DEF PutBack, PushInv
<1>2. /\ DOMAIN rows' = DOMAIN rows
      /\ \A k \in DOMAIN rows :
           /\ rows'[k].source = rows[k].source /\ rows'[k].op = rows[k].op
           /\ k # n => rows'[k] = rows[k]
           /\ k = n => rows'[k].status = "PENDING"
  BY <1>1, WhatPutBackDoes
<1>3. RowsOf(t)' = RowsOf(t) /\ EventsOf(t)' = EventsOf(t) /\ Live(t)' = Live(t)
  BY <1>1, <1>2 DEF RowsOf, EventsOf, Live
<1>4. \A w \in Workers : Holder(w, t)' <=> Holder(w, t)
  <2> TAKE w \in Workers
  <2>1. worker[w].pc # "idle" => worker[w].row \in DOMAIN rows
    BY <1>1 DEF Inv, WorkerInv
  <2> QED
    BY <1>1, <1>2, <2>1 DEF Holder, Of, Calling
<1>5. CancelDone(t)' => CancelDone(t)
  BY <1>2, <1>3 DEF CancelDone, RowsOf
<1>6. Exclusive(t)' /\ Adrift(t)' /\ Single(t)' /\ Begun(t)'
  BY <1>1, <1>3, <1>4 DEF PushOk, Exclusive, Adrift, Single, Begun, history
<1>7. Recorded(t)'
  <2> SUFFICES ASSUME t \notin unsure PROVE Recorded(t)'
    BY <1>1 DEF Recorded, history
  <2>1. ASSUME NEW w \in Workers, Holder(w, t) PROVE InHand(w, t)'
    <3>1. InHand(w, t) /\ worker[w].row \in DOMAIN rows
      BY <1>1, <2>1, HolderIs DEF PushOk, Recorded
    <3>2. rows'[worker[w].row].op = rows[worker[w].row].op
      BY <1>2, <3>1
    <3> QED
      BY <1>1, <1>3, <1>5, <3>1, <3>2 DEF InHand
  <2> QED
    BY <1>1, <1>3, <1>4, <1>5, <2>1 DEF PushOk, Recorded
<1>8. ASSUME NEW k \in RowsOf(t), Waiting(k) PROVE Waiting(k)'
  <2>1. CASE k # n
    <3>1. rows'[k] = rows[k] /\ k \in RowsOf(t)'
      BY <1>2, <1>3, <2>1 DEF RowsOf
    <3> QED
      BY <1>1, <1>8, <3>1, WaitingStays
  <2>2. CASE k = n
    <3>1. rows'[k].op = rows[k].op /\ rows'[k].status = "PENDING"
      BY <1>2, <2>2 DEF RowsOf
    <3> QED
      BY <1>1, <1>8, <3>1 DEF Waiting
  <2> QED
    BY <2>1, <2>2
<1>9. Fresh(t)'
  BY <1>1, <1>3, <1>4, <1>8 DEF PushOk, Fresh, history
<1> QED
  BY <1>6, <1>7, <1>9 DEF PushOk

\* A call that Google accepts, whether its answer arrives or is lost.
LEMMA CallKeeps ==
  ASSUME PushInv, Inv', NEW w \in Workers, NEW s, s = Of(w),
         worker[w].pc \in {"insert", "patch", "delete"}, Accepts(w), events' = After(CallOf(w)),
         UNCHANGED <<source, rows, mapping, stray, overrun, outdated>>,
         NEW outcome \in {"SUCCESS", "error"}, NEW e \in Nat, Finish(w, outcome, e),
         outcome = "SUCCESS" =>
           /\ e = IF worker[w].pc = "insert" THEN Len(events) + 1 ELSE worker[w].event
           /\ unsure' = unsure,
         outcome = "error" =>
           e = 0 /\ unsure' = IF worker[w].pc = "insert" THEN unsure \cup {s} ELSE unsure
  PROVE  Moves(w) /\ PushOk(s)'
<1>1. /\ \A v \in Workers \ {w} : worker'[v] = worker[v]
      /\ worker'[w].pc = "finish" /\ worker'[w].outcome = outcome /\ worker'[w].event = e
      /\ worker'[w].row = worker[w].row
  BY FinishGives DEF PushInv, Inv
<1>2. Holder(w, s) /\ Inv /\ worker[w].pc # "idle" /\ worker[w].pc # "finish"
  BY DEF Holder, Calling, PushInv
<1>3. /\ s \in Sources /\ PushOk(s) /\ HasLock(w) /\ source[s].version # 0
      /\ worker[w].row \in RowsOf(s) /\ worker[w].row \in DOMAIN rows
  BY <1>2, HolderIs DEF PushInv, PushOk, Exclusive, HasLock
<1>4. PICK call \in CallType :
        /\ CallInv(call) /\ events' = After(call) /\ call.pc = worker[w].pc /\ call.source = s
        /\ call.version = worker[w].version /\ call.event = worker[w].event
  BY <1>2, CallOfWorker DEF CallOf, Calling
<1>5. /\ \A d \in DOMAIN events :
           /\ d \in DOMAIN events' /\ events'[d].source = events[d].source
           /\ events[d].source # s \/ d # worker[w].event => events'[d] = events[d]
           /\ events'[d].live => events[d].live
           /\ worker[w].pc # "delete" => events'[d].live = events[d].live
      /\ worker[w].pc = "insert" => /\ DOMAIN events' = DOMAIN events \cup {Len(events) + 1}
                                    /\ Len(events) + 1 \notin DOMAIN events
                                    /\ events'[Len(events) + 1].source = s
                                    /\ events'[Len(events) + 1].version = worker[w].version
      /\ worker[w].pc # "insert" => DOMAIN events' = DOMAIN events
      /\ worker[w].pc = "patch" /\ events[worker[w].event].live =>
           events'[worker[w].event].version = worker[w].version
      /\ worker[w].pc = "delete" => ~events'[worker[w].event].live
  <2>1. /\ \A d \in DOMAIN events :
             /\ d \in DOMAIN events' /\ events'[d].source = events[d].source
             /\ events[d].source # call.source \/ d # call.event => events'[d] = events[d]
             /\ events'[d].live => events[d].live
             /\ call.pc # "delete" => events'[d].live = events[d].live
        /\ call.pc = "insert" => /\ DOMAIN events' = DOMAIN events \cup {Len(events) + 1}
                                 /\ Len(events) + 1 \notin DOMAIN events
                                 /\ events'[Len(events) + 1].source = call.source
                                 /\ events'[Len(events) + 1].version = call.version
        /\ call.pc # "insert" => DOMAIN events' = DOMAIN events
        /\ call.pc = "patch" /\ events[call.event].live =>
             events'[call.event].version = call.version
        /\ call.pc = "delete" => ~events'[call.event].live
    BY <1>2, <1>4, Landed
  <2> QED
    BY <1>4, <2>1
<1>6. unsure \subseteq unsure'
  <2>1. outcome = "SUCCESS" \/ outcome = "error"
    OBVIOUS
  <2> QED
    BY <2>1
<1>7. Moves(w)
  <2>1. \A d \in DOMAIN events' \ DOMAIN events : events'[d].source = Of(w)
    BY <1>5
  <2> QED
    BY <1>1, <1>2, <1>5, <1>6, <2>1 DEF Moves
<1>8. /\ \A v \in Workers : Holder(v, s)' => v = w
      /\ \A v \in Workers : Holder(v, s) => v = w
      /\ Exclusive(s)' /\ RowsOf(s)' = RowsOf(s)
  BY <1>2, <1>3, <1>7, OnlyHolder
<1>9. Holder(w, s)' /\ (CancelDone(s)' <=> CancelDone(s))
  BY <1>1 DEF Holder, Of, CancelDone, RowsOf
<1>10. /\ worker[w].pc = "insert" => /\ EventsOf(s)' = EventsOf(s) \cup {Len(events) + 1}
                                     /\ Live(s)' \subseteq Live(s) \cup {Len(events) + 1}
       /\ worker[w].pc # "insert" => EventsOf(s)' = EventsOf(s) /\ Live(s)' \subseteq Live(s)
       /\ \A t \in EventsOf(s) : t # worker[w].event => events'[t] = events[t]
  BY <1>5 DEF EventsOf, Live
<1>11. Adrift(s)' /\ Begun(s)'
  BY <1>3, <1>6 DEF PushOk, Adrift, Begun
<1>12. Single(s)'
  <2> SUFFICES ASSUME s \notin overrun PROVE Single(s)'
    BY DEF Single
  <2>1. worker[w].pc = "insert" => Live(s) = {}
    BY <1>2, <1>3 DEF PushOk, Single
  <2>2. \A d, f \in Live(s)' : d = f
    BY <1>3, <1>10, <2>1 DEF PushOk, Single
  <2> QED
    BY <1>1, <1>8, <2>2 DEF Single
<1>13. ASSUME s \notin unsure
       PROVE  /\ InHand(w, s)
              /\ worker[w].pc = "insert" => EventsOf(s) = {}
              /\ \A d \in EventsOf(s) : d = mapping[s]
              /\ worker[w].pc # "insert" => worker[w].event = mapping[s]
  <2>1. InHand(w, s)
    BY <1>2, <1>3, <1>13 DEF PushOk, Recorded
  <2>2. \A d \in EventsOf(s) : d = mapping[s]
    BY <1>2, <1>3, <1>8, <1>13 DEF PushOk, Recorded
  <2> QED
    BY <2>1, <2>2 DEF InHand
<1>14. Recorded(s)'
  <2> SUFFICES ASSUME s \notin unsure' PROVE Recorded(s)'
    BY DEF Recorded
  <2>1. s \notin unsure /\ (outcome = "error" => worker[w].pc # "insert")
    BY <1>6
  <2>2. outcome = "SUCCESS" =>
          e = IF worker[w].pc = "insert" THEN Len(events) + 1 ELSE worker[w].event
    OBVIOUS
  <2>3. ASSUME NEW d \in EventsOf(s)'
        PROVE  \/ d = mapping'[s]
               \/ Holder(w, s)' /\ worker'[w].pc = "finish" /\ worker'[w].event = d
    <3>1. CASE worker[w].pc = "insert"
      <4>1. d = Len(events) + 1 /\ outcome = "SUCCESS"
        BY <1>10, <1>13, <2>1, <3>1
      <4> QED
        BY <1>1, <1>9, <2>2, <3>1, <4>1
    <3>2. CASE worker[w].pc # "insert"
      BY <1>10, <1>13, <2>1, <3>2
    <3> QED
      BY <3>1, <3>2
  <2>4. e # 0 => mapping[s] \in {0, e}
    <3>1. CASE worker[w].pc = "insert"
      <4>1. mapping[s] = 0
        BY <1>2, <1>3, <1>13, <2>1, <3>1 DEF Inv, SourceInv, IsEventOf, EventsOf
      <4> QED
        BY <4>1
    <3>2. CASE worker[w].pc # "insert"
      BY <1>13, <2>1, <2>2, <3>2
    <3> QED
      BY <3>1, <3>2
  <2>5. outcome = "SUCCESS" /\ rows[worker[w].row].op = "CANCEL" => Live(s)' = {}
    <3> SUFFICES ASSUME rows[worker[w].row].op = "CANCEL", NEW d \in Live(s)' PROVE FALSE
      OBVIOUS
    <3>1. worker[w].pc = "delete"
      BY <1>13, <2>1 DEF InHand
    <3>2. d \in EventsOf(s)' /\ events'[d].live
      BY DEF Live, EventsOf
    <3>3. d = worker[w].event
      BY <1>10, <1>13, <2>1, <3>1, <3>2
    <3> QED
      BY <1>5, <3>1, <3>2, <3>3
  <2>6. InHand(w, s)'
    BY <1>1, <2>4, <2>5 DEF InHand
  <2>7. CancelDone(s)' => Live(s)' = {}
    <3> SUFFICES ASSUME CancelDone(s) PROVE Live(s)' = {}
      BY <1>9
    <3>1. Live(s) = {} /\ worker[w].pc # "insert"
      BY <1>3, <1>13, <2>1 DEF PushOk, Recorded, InHand
    <3> QED
      BY <1>10, <3>1
  <2> QED
    BY <1>8, <2>3, <2>6, <2>7 DEF Recorded
<1>15. Fresh(s)'
  <2> SUFFICES ASSUME s \notin unsure' \cup overrun \cup outdated, source[s].state = "booked"
               PROVE  Fresh(s)'
    BY DEF Fresh
  <2>1. s \notin unsure \cup overrun \cup outdated
    BY <1>6
  <2>2. worker[w].pc \in {"insert", "patch"}
    <3>1. worker[w].pc = "delete" => source[s].state = "cancelled"
      BY <1>4 DEF CallInv
    <3> QED
      BY <3>1
  <2>3. \/ worker[w].version = source[s].version
        \/ \E n \in RowsOf(s) \ {worker[w].row} : Waiting(n)
    BY <1>2, <1>3, <2>1, <2>2 DEF PushOk, Fresh
  <2>4. ASSUME NEW n \in RowsOf(s) \ {worker[w].row}, Waiting(n)
        PROVE  n \in RowsOf(s)' /\ Waiting(n)'
    <3>1. n \in RowsOf(s)' /\ rows'[n] = rows[n]
      BY <1>8
    <3>2. \A v \in Workers : Holder(v, s)' => worker'[v].row # n
      BY <1>1, <1>8, <2>4
    <3> QED
      BY <2>4, <3>1, <3>2, WaitingStays
  <2>5. ASSUME NEW d \in Live(s)'
        PROVE  \/ events'[d].version = source'[s].version
               \/ \E n \in RowsOf(s)' : Waiting(n)'
    <3>1. d \in EventsOf(s)'
      BY DEF Live, EventsOf
    <3>2. events'[d].version = worker[w].version
      <4>1. CASE worker[w].pc = "insert"
        BY <1>5, <1>10, <1>13, <2>1, <3>1, <4>1
      <4>2. CASE worker[w].pc = "patch"
        <5>1. events[worker[w].event].live
          BY <4>2 DEF Accepts
        <5>2. d = worker[w].event
          BY <1>10, <1>13, <2>1, <3>1, <4>2
        <5> QED
          BY <1>5, <4>2, <5>1, <5>2
      <4> QED
        BY <2>2, <4>1, <4>2
    <3> QED
      BY <2>3, <2>4, <3>2
  <2>6. \A v \in Workers : Holder(v, s)' => worker'[v].pc = "finish" /\ worker'[v].outcome # "SKIPPED"
    BY <1>1, <1>8
  <2> QED
    BY <2>5, <2>6 DEF Fresh
<1> QED
  BY <1>7, <1>8, <1>11, <1>12, <1>14, <1>15 DEF PushOk

LEMMA AnsweredKeeps ==
  ASSUME PushInv, Inv', NEW w \in Workers, NEW s, s = Of(w), Answered(w) \/ Unanswered(w)
  PROVE  Moves(w) /\ PushOk(s)'
<1>1. /\ worker[w].pc \in {"insert", "patch", "delete"} /\ Accepts(w) /\ events' = After(CallOf(w))
      /\ UNCHANGED <<source, rows, mapping, stray, overrun, outdated>>
  BY DEF Answered, Unanswered, history
<1>2. CASE Answered(w)
  <2>1. PICK e : e = IF worker[w].pc = "insert" THEN Len(events) + 1 ELSE worker[w].event
    OBVIOUS
  <2>2. Finish(w, "SUCCESS", e) /\ unsure' = unsure
    BY <1>2, <2>1 DEF Answered, history
  <2>3. e \in Nat
    BY <2>1, WorkerTyped DEF PushInv, Inv, Types
  <2> QED
    BY <1>1, <2>1, <2>2, <2>3, CallKeeps
<1>3. CASE Unanswered(w)
  <2>1. Finish(w, "error", 0)
        /\ unsure' = IF worker[w].pc = "insert" THEN unsure \cup {s} ELSE unsure
    BY <1>3 DEF Unanswered
  <2> QED
    BY <1>1, <2>1, CallKeeps
<1> QED
  BY <1>2, <1>3

LEMMA CommitKeeps ==
  ASSUME PushInv, Inv', NEW w \in Workers, NEW s, s = Of(w), Commit(w)
  PROVE  Moves(w) /\ PushOk(s)'
<1>1. /\ worker[w].pc = "finish" /\ worker' = [worker EXCEPT ![w] = Idle]
      /\ UNCHANGED <<source, events, stray, faults, history>>
  BY DEF Commit
<1>2. worker'[w].pc = "idle" /\ \A v \in Workers \ {w} : worker'[v] = worker[v]
  BY <1>1 DEF PushInv, Inv, Types, Idle
<1>3. Holder(w, s) /\ Inv
  BY <1>1 DEF Holder, PushInv
<1>4. /\ s \in Sources /\ PushOk(s) /\ HasLock(w)
      /\ worker[w].row \in RowsOf(s) /\ worker[w].row \in DOMAIN rows
  BY <1>3, HolderIs DEF PushInv, PushOk, Exclusive, HasLock
<1>5. PICK n : n = worker[w].row
  OBVIOUS
<1>6. /\ DOMAIN rows' = DOMAIN rows
      /\ \A k \in DOMAIN rows : /\ rows'[k].source = rows[k].source /\ rows'[k].op = rows[k].op
                                /\ k # n => rows'[k] = rows[k]
      /\ ~Conflicts(w) =>
           rows'[n].status = IF worker[w].outcome = "error" THEN Retries(worker[w].attempts + 1)
                             ELSE worker[w].outcome
  <2>1. CASE Conflicts(w)
    BY <2>1 DEF Commit
  <2>2. CASE ~Conflicts(w)
    BY <1>1, <1>3, <1>5, <2>2, Committed
  <2> QED
    BY <2>1, <2>2
<1>7. /\ \A t \in Sources \ {s} : mapping'[t] = mapping[t]
      /\ ~Conflicts(w) =>
           mapping'[s] = IF worker[w].event # 0 THEN worker[w].event ELSE mapping[s]
  <2>1. mapping \in [Sources -> Nat]
    BY <1>3 DEF Inv, Types
  <2>2. CASE Conflicts(w)
    BY <2>2 DEF Commit
  <2>3. CASE ~Conflicts(w)
    <3>1. mapping' = [mapping EXCEPT ![s] = IF worker[w].event # 0 THEN worker[w].event
                                            ELSE mapping[s]]
      BY <2>3 DEF Commit
    <3> QED
      BY <1>4, <2>1, <3>1
  <2> QED
    BY <2>2, <2>3
<1>8. Moves(w)
  BY <1>1, <1>2, <1>5, <1>6, <1>7 DEF Moves, history
<1>9. /\ \A v \in Workers : ~Holder(v, s)'
      /\ \A v \in Workers : Holder(v, s) => v = w
      /\ Exclusive(s)' /\ RowsOf(s)' = RowsOf(s)
  BY <1>2, <1>3, <1>4, <1>8, OnlyHolder
<1>10. EventsOf(s)' = EventsOf(s) /\ Live(s)' = Live(s)
  BY <1>1 DEF EventsOf, Live
<1>11. Adrift(s)' /\ Begun(s)' /\ Single(s)'
  BY <1>1, <1>4, <1>9, <1>10 DEF PushOk, Adrift, Begun, Single, history
<1>12. s \notin unsure => InHand(w, s) /\ ~Conflicts(w)
  BY <1>1, <1>3, <1>4 DEF PushOk, Recorded, InHand, Conflicts
<1>13. Recorded(s)'
  <2> SUFFICES ASSUME s \notin unsure PROVE Recorded(s)'
    BY <1>1 DEF Recorded, history
  <2>1. mapping'[s] = IF worker[w].event # 0 THEN worker[w].event ELSE mapping[s]
    BY <1>7, <1>12
  <2>2. ASSUME NEW e \in EventsOf(s) PROVE e = mapping'[s]
    <3>1. e = mapping[s] \/ worker[w].event = e
      BY <1>4, <1>9 DEF PushOk, Recorded
    <3>2. e # 0
      BY <1>3 DEF EventsOf, Inv, Types
    <3>3. worker[w].event # 0 => mapping[s] \in {0, worker[w].event}
      BY <1>1, <1>12 DEF InHand
    <3> QED
      BY <2>1, <3>1, <3>2, <3>3
  <2>3. CancelDone(s)' => Live(s) = {}
    <3> SUFFICES ASSUME NEW k \in RowsOf(s), rows'[k].op = "CANCEL", rows'[k].status = "SUCCESS"
                 PROVE  Live(s) = {}
      BY <1>9 DEF CancelDone
    <3>1. CASE k # n
      <4>1. CancelDone(s)
        BY <1>6, <3>1 DEF CancelDone, RowsOf
      <4> QED
        BY <1>4, <4>1 DEF PushOk, Recorded
    <3>2. CASE k = n
      <4>1. worker[w].outcome = "SUCCESS" /\ rows[n].op = "CANCEL"
        BY <1>4, <1>5, <1>6, <1>12, <3>2 DEF Retries
      <4> QED
        BY <1>1, <1>5, <1>12, <4>1 DEF InHand
    <3> QED
      BY <3>1, <3>2
  <2> QED
    BY <1>9, <1>10, <2>2, <2>3 DEF Recorded
<1>14. Fresh(s)'
  <2> SUFFICES ASSUME s \notin unsure \cup overrun \cup outdated, source[s].state = "booked"
               PROVE  Fresh(s)'
    BY <1>1 DEF Fresh, history
  <2>1. ASSUME NEW k \in RowsOf(s), Waiting(k) PROVE Waiting(k)'
    <3>1. CASE k # n
      <4>1. rows'[k] = rows[k] /\ k \in RowsOf(s)'
        BY <1>6, <1>9, <3>1 DEF RowsOf
      <4> QED
        BY <1>9, <2>1, <4>1, WaitingStays
    <3>2. CASE k = n
      <4>1. worker[w].outcome # "SUCCESS" /\ worker[w].outcome # "SKIPPED" /\ rows[n].op = "UPDATE"
        BY <1>1, <1>3, <1>4, <1>5, <2>1, <3>2 DEF Waiting, PushOk, Fresh
      <4>2. rows'[n].status \notin {"SUCCESS", "SKIPPED"} /\ rows'[n].op = "UPDATE"
        BY <1>4, <1>5, <1>6, <1>12, <4>1 DEF Retries
      <4>3. \A v \in Workers : ~ (worker'[v].row = n /\ worker'[v].pc = "finish")
        BY <1>4, <1>5, <1>6, <1>9 DEF Holder, Of, RowsOf
      <4> QED
        BY <3>2, <4>2, <4>3 DEF Waiting
    <3> QED
      BY <3>1, <3>2
  <2> QED
    BY <1>1, <1>4, <1>9, <1>10, <2>1 DEF PushOk, Fresh
<1> QED
  BY <1>8, <1>9, <1>11, <1>13, <1>14 DEF PushOk

\* A change of the reservation and the row that is committed with it.
LEMMA EnqueueKeeps ==
  ASSUME PushInv, Inv', NEW s \in Sources, NEW op, NEW before, Skipping(before),
         \A n \in DOMAIN rows : rows[n].source # s => before[n] = rows[n],
         Enqueue(before, s, op),
         \A t \in Sources \ {s} : source'[t] = source[t], source'[s].version # 0,
         source'[s].state = "booked" =>
           \/ source[s].version = 0
           \/ source[s].state = "booked" /\ op = "UPDATE"
  PROVE  \A t \in Sources : PushOk(t)'
<1>1. UNCHANGED <<mapping, events, worker, stray, history>> /\ Inv
  BY DEF Enqueue, PushInv
<1>2. PICK n : n = Len(before) + 1
  OBVIOUS
<1>3. /\ NewRow(s, op).source = s /\ NewRow(s, op).op = op /\ NewRow(s, op).status = "PENDING"
      /\ rows' = Append(before, NewRow(s, op))
  BY DEF NewRow, Enqueue
<1>4. /\ DOMAIN rows' = DOMAIN rows \cup {n} /\ n \notin DOMAIN rows
      /\ rows'[n] = NewRow(s, op)
      /\ \A k \in DOMAIN rows : rows'[k] = before[k]
  <2>1. DOMAIN before = 1..Len(before) /\ Len(before) \in Nat /\ DOMAIN before = DOMAIN rows
    BY DEF Skipping
  <2>2. /\ DOMAIN rows' = 1..(Len(before) + 1)
        /\ rows'[Len(before) + 1] = NewRow(s, op)
        /\ \A k \in 1..Len(before) : rows'[k] = before[k]
    BY <1>3, <2>1
  <2> QED
    BY <1>2, <2>1, <2>2
<1>5. \A k \in DOMAIN rows : /\ rows'[k].source = rows[k].source /\ rows'[k].op = rows[k].op
                             /\ rows'[k].status \in {rows[k].status, "SKIPPED"}
                             /\ rows[k].source # s => rows'[k] = rows[k]
  BY <1>4 DEF Skipping
<1>6. \A w \in Workers, t \in Sources : Holder(w, t)' <=> Holder(w, t)
  <2> TAKE w \in Workers, t \in Sources
  <2>1. worker[w].pc # "idle" => worker[w].row \in DOMAIN rows
    BY <1>1 DEF Inv, WorkerInv
  <2> QED
    BY <1>1, <1>5, <2>1 DEF Holder, Of, Calling
<1>7. ASSUME NEW t \in Sources, t # s PROVE PushOk(t)'
  <2>1. RowsOf(t)' = RowsOf(t) /\ \A k \in RowsOf(t) : rows'[k] = rows[k]
    BY <1>3, <1>4, <1>5, <1>7 DEF RowsOf
  <2>2. EventsOf(t)' = EventsOf(t)
    BY <1>1 DEF EventsOf
  <2>3. PassesBy(t)
    BY <1>1, <1>6, <1>7, <2>1, <2>2 DEF PassesBy, history
  <2> QED
    BY <1>1, <2>3, PassedBy DEF PushInv
<1>8. /\ PushOk(s) /\ RowsOf(s)' = RowsOf(s) \cup {n} /\ n \notin RowsOf(s)
      /\ EventsOf(s)' = EventsOf(s) /\ Live(s)' = Live(s)
  BY <1>1, <1>3, <1>4, <1>5 DEF PushInv, RowsOf, EventsOf, Live
<1>9. Exclusive(s)' /\ Adrift(s)' /\ Single(s)' /\ Begun(s)'
  BY <1>1, <1>6, <1>8 DEF PushOk, Exclusive, Adrift, Single, Begun, history
<1>10. CancelDone(s)' => CancelDone(s)
  BY <1>3, <1>4, <1>5, <1>8 DEF CancelDone, RowsOf
<1>11. Recorded(s)'
  <2> SUFFICES ASSUME s \notin unsure PROVE Recorded(s)'
    BY <1>1 DEF Recorded, history
  <2>1. ASSUME NEW w \in Workers, Holder(w, s) PROVE InHand(w, s)'
    <3>1. InHand(w, s) /\ worker[w].row \in DOMAIN rows
      BY <1>1, <1>8, <2>1, HolderIs DEF PushOk, Recorded
    <3>2. rows'[worker[w].row].op = rows[worker[w].row].op
      BY <1>5, <3>1
    <3> QED
      BY <1>1, <1>8, <1>10, <3>1, <3>2 DEF InHand
  <2> QED
    BY <1>1, <1>6, <1>8, <1>10, <2>1 DEF PushOk, Recorded
<1>12. Fresh(s)'
  <2> SUFFICES ASSUME s \notin unsure \cup overrun \cup outdated, source'[s].state = "booked"
               PROVE  Fresh(s)'
    BY <1>1 DEF Fresh, history
  <2>1. CASE source[s].version = 0
    <3>1. Live(s)' = {}
      BY <1>8, <2>1 DEF PushOk, Begun, Live, EventsOf
    <3>2. \A w \in Workers : ~Holder(w, s)'
      BY <1>1, <1>6, <2>1, HolderIs
    <3> QED
      BY <3>1, <3>2 DEF Fresh
  <2>2. CASE source[s].state = "booked" /\ op = "UPDATE"
    <3>1. \A w \in Workers : worker[w].pc = "finish" => worker[w].row # n
      BY <1>1, <1>4 DEF Inv, WorkerInv
    <3>2. Waiting(n)' /\ n \in RowsOf(s)'
      BY <1>1, <1>3, <1>4, <1>8, <2>2, <3>1 DEF Waiting
    <3>3. ASSUME NEW w \in Workers, Holder(w, s)'
          PROVE  worker'[w].row # n /\ (worker'[w].pc = "finish" => worker'[w].outcome # "SKIPPED")
      <4>1. Holder(w, s) /\ worker[w].row \in DOMAIN rows
        BY <1>1, <1>6, <3>3, HolderIs
      <4> QED
        BY <1>1, <1>4, <1>8, <2>2, <4>1 DEF PushOk, Fresh
    <3> QED
      BY <3>2, <3>3 DEF Fresh
  <2> QED
    BY <2>1, <2>2
<1>13. PushOk(s)'
  BY <1>9, <1>11, <1>12 DEF PushOk
<1> QED
  BY <1>7, <1>13

LEMMA SourceKeeps ==
  ASSUME PushInv, Inv', NEW s \in Sources, Book(s) \/ Change(s) \/ Cancel(s)
  PROVE  \A t \in Sources : PushOk(t)'
<1>1. Inv /\ Skipping(rows)
  BY NoneSkipped DEF PushInv
<1>2. CASE Book(s)
  <2>1. /\ source' = [source EXCEPT ![s] = [state |-> "booked", version |-> 1]]
        /\ source[s].version = 0 /\ Enqueue(rows, s, "CREATE")
    BY <1>1, <1>2, ReservationTyped DEF Book
  <2>2. source'[s].version = 1 /\ \A t \in Sources \ {s} : source'[t] = source[t]
    BY <1>1, <2>1, ReservationTyped
  <2> QED
    BY <1>1, <2>1, <2>2, EnqueueKeeps
<1>3. CASE Change(s)
  <2> DEFINE h == [source[s] EXCEPT !.version = source[s].version + 1]
  <2>1. source[s].state = "booked" /\ source' = [source EXCEPT ![s] = h] /\ Enqueue(rows, s, "UPDATE")
    BY <1>3 DEF Change
  <2>2. h.version = source[s].version + 1 /\ source[s].version \in Nat
    BY <1>1, ReservationTyped
  <2> HIDE DEF h
  <2>3. source'[s] = h /\ \A t \in Sources \ {s} : source'[t] = source[t]
    BY <1>1, <2>1, ReservationTyped
  <2>4. source'[s].version # 0
    BY <2>2, <2>3
  <2> QED
    BY <1>1, <2>1, <2>3, <2>4, EnqueueKeeps
<1>4. CASE Cancel(s)
  <2> DEFINE h == [source[s] EXCEPT !.state = "cancelled"]
  <2>1. /\ source[s].state = "booked" /\ source' = [source EXCEPT ![s] = h]
        /\ Enqueue(Collapsed(s), s, "CANCEL")
    BY <1>4 DEF Cancel
  <2>2. h.version = source[s].version /\ source[s].version # 0 /\ h.state = "cancelled"
    BY <1>1, <2>1, ReservationTyped
  <2> HIDE DEF h
  <2>3. source'[s] = h /\ \A t \in Sources \ {s} : source'[t] = source[t]
    BY <1>1, <2>1, ReservationTyped
  <2>4. /\ Skipping(Collapsed(s))
        /\ \A n \in DOMAIN rows : rows[n].source # s => Collapsed(s)[n] = rows[n]
    BY <1>1, CollapsedSkips DEF Collapsed, Superseded
  <2> QED
    BY <2>1, <2>2, <2>3, <2>4, EnqueueKeeps
<1> QED
  BY <1>2, <1>3, <1>4

LEMMA PushInit == Init => PushInv
<1> SUFFICES ASSUME Init PROVE PushInv
  OBVIOUS
<1>1. \A s : EventsOf(s) = {} /\ RowsOf(s) = {} /\ Live(s) = {}
  BY DEF Init, EventsOf, RowsOf, Live
<1>2. \A w \in Workers : \A s : ~Holder(w, s)
  BY DEF Init, Holder, Idle, Calling
<1>3. \A s \in Sources : PushOk(s)
  BY <1>1, <1>2 DEF Init, PushOk, Exclusive, Adrift, Single, Recorded, CancelDone, Fresh, Begun
<1> QED
  BY <1>3, InitInv DEF PushInv

LEMMA PushNext == PushInv /\ [Next]_vars => PushInv'
<1> SUFFICES ASSUME PushInv, [Next]_vars PROVE PushInv'
  OBVIOUS
<1>1. Inv /\ Inv'
  BY InvNext DEF PushInv
<1> SUFFICES \A t \in Sources : PushOk(t)'
  BY <1>1 DEF PushInv
<1>2. ASSUME NEW s \in Sources, Book(s) \/ Change(s) \/ Cancel(s)
      PROVE  \A t \in Sources : PushOk(t)'
  BY <1>1, <1>2, SourceKeeps
<1>3. ASSUME NEW w \in Workers, NEW n \in DOMAIN rows, Take(w, n)
      PROVE  \A t \in Sources : PushOk(t)'
  BY <1>1, <1>3, ReadKeeps
<1>4. ASSUME NEW w \in Workers, Proceed(w) \/ Refused(w) \/ Unanswered(w) \/ Cut(w)
      PROVE  \A t \in Sources : PushOk(t)'
  <2>1. PICK s : s = Of(w)
    OBVIOUS
  <2>2. CASE Busy(w) \/ Unreadable(w) \/ (Cut(w) /\ worker[w].pc = "read")
    BY <1>1, <2>2, ReadKeeps
  <2>3. CASE Cut(w) /\ worker[w].pc # "read"
    <3>1. Holder(w, s)
      BY <1>1, <2>1, <2>3, WorkerTyped DEF Cut, Holder, Inv, WorkerType
    <3> QED
      BY <1>1, <2>1, <2>3, <3>1, CutKeeps, StepOfWorker
  <2>4. CASE Claim(w)
    BY <1>1, <2>1, <2>4, ClaimKeeps, StepOfWorker
  <2>5. CASE List(w)
    BY <1>1, <2>1, <2>5, ListKeeps, StepOfWorker
  <2>6. CASE Answered(w) \/ Unanswered(w)
    BY <1>1, <2>1, <2>6, AnsweredKeeps, StepOfWorker
  <2>7. CASE Rejected(w) \/ Refused(w)
    BY <1>1, <2>1, <2>7, RejectedKeeps, StepOfWorker
  <2>8. CASE Commit(w)
    BY <1>1, <2>1, <2>8, CommitKeeps, StepOfWorker
  <2> QED
    BY <1>4, <2>2, <2>3, <2>4, <2>5, <2>6, <2>7, <2>8 DEF Proceed
<1>5. ASSUME NEW call \in stray, Land(call) \/ GoOn(call)
      PROVE  \A t \in Sources : PushOk(t)'
  BY <1>1, <1>5, LandKeeps, GoOnKeeps
<1>6. ASSUME NEW o \in Operators, PutBack(o)
      PROVE  \A t \in Sources : PushOk(t)'
  BY <1>1, <1>6, PutBackKeeps
<1>7. CASE UNCHANGED <<source, rows, mapping, events, worker, stray, history>>
  <2> TAKE t \in Sources
  <2>1. PassesBy(t)
    BY <1>7 DEF history, PassesBy, EventsOf, RowsOf, Holder, Of
  <2> QED
    BY <1>1, <2>1, PassedBy DEF PushInv
<1>8. CASE Unread \/ Mend \/ UNCHANGED vars
  BY <1>7, <1>8 DEF Unread, Mend, vars
<1>9. ASSUME NEW o \in Operators, NEW n \in DOMAIN rows, FindDead(o, n)
      PROVE  \A t \in Sources : PushOk(t)'
  BY <1>7, <1>9 DEF FindDead
<1> QED
  BY <1>2, <1>3, <1>4, <1>5, <1>6, <1>8, <1>9 DEF Next

LEMMA PushInvariance == Spec => []PushInv
BY PushInit, PushNext, PTL DEF Spec

\* A reservation has one event at most, whichever consumers and sweepers come to its rows, in
\* whatever order, unless a transaction of processOutboxRow was cut with its call on the way.
THEOREM OneEvent == Spec => []OneEventPerSource
<1>1. PushInv => OneEventPerSource
  <2> SUFFICES ASSUME PushInv, NEW s \in Sources \ overrun PROVE Cardinality(Live(s)) <= 1
    BY DEF OneEventPerSource
  <2>1. \A e, f \in Live(s) : e = f
    BY DEF PushInv, PushOk, Single
  <2>2. Live(s) = {} \/ \E e : Live(s) = {e}
    BY <2>1
  <2>3. Live(s) = {} => Cardinality(Live(s)) = 0
    BY FS_EmptySet
  <2>4. \A e : Live(s) = {e} => Cardinality(Live(s)) = 1
    BY FS_Singleton
  <2>5. Cardinality(Live(s)) \in {0, 1}
    BY <2>2, <2>3, <2>4, Zenon
  <2> QED
    BY <2>5
<1> QED
  BY <1>1, PushInvariance, PTL

\* Once the cancellation of a reservation is done, no event of it is left in the calendar, unless
\* the answer to an insert of createEvent was never recorded.
THEOREM NoGhosts == Spec => []NoGhostEvent
<1>1. PushInv => NoGhostEvent
  BY DEF PushInv, PushOk, Recorded, CancelDone, NoGhostEvent
<1> QED
  BY <1>1, PushInvariance, PTL

\* Once its rows have succeeded the calendar shows a reservation as it is, unless an answer was
\* lost, a transaction cut, or a row claimed on a read that processOutboxRow made before the lock
\* and that was outdated by then.
THEOREM LatestShown == Spec => []ShowsTheLatest
<1>1. PushInv => ShowsTheLatest
  <2> SUFFICES ASSUME PushInv, NEW s \in Sources \ (unsure \cup overrun \cup outdated),
                      source[s].state = "booked",
                      \A n \in RowsOf(s) : rows[n].status \in {"SUCCESS", "SKIPPED"},
                      NEW e \in Live(s)
               PROVE  events[e].version = source[s].version
    BY DEF ShowsTheLatest
  <2>1. \A n \in RowsOf(s) : ~Waiting(n)
    BY DEF Waiting
  <2> QED
    BY <2>1 DEF PushInv, PushOk, Fresh
<1> QED
  BY <1>1, PushInvariance, PTL
=============================================================================
