----------------------------- MODULE CalendarPush -----------------------------
(***************************************************************************)
(* The outbox that copies reservations to a Google calendar.  A row is     *)
(* committed with every change of a reservation, and processed by a        *)
(* RabbitMQ consumer, told of it once, never or again, or by the sweeper   *)
(* of a server, which comes back every 30 seconds.                         *)
(*                                                                         *)
(* Processing is one READ COMMITTED transaction around the calls to        *)
(* Google: it reads the row and the reservation, takes the advisory lock   *)
(* of the reservation, calls, and commits the row with the mapping.  When  *)
(* it is cut, by its timeout of 60 seconds or by a crash, what it wrote is *)
(* undone and what Google did is not: the timeout ends the transaction,    *)
(* not the function, which goes on to its next query.                      *)
(*                                                                         *)
(* Each reservation has one calendar that it is pushed to.                 *)
(***************************************************************************)
EXTENDS Integers, Sequences, FiniteSets

CONSTANTS
  Sources,      \* reservations
  Workers,      \* what calls processOutboxRow: the RabbitMQ consumers, and
  Sweepers,     \* the sweeper jobs, one for each server
  Operators,    \* requests to put a row back that was given up
  RemoveCancelled, \* googleCalendarRemoveCancelled, of the venue
  MAX_ATTEMPTS, \* 7 in the code
  MaxVersion,   \* bound on the changes of a reservation
  MaxRefused,   \* bound on the calls that Google refuses
  MaxFaults     \* bound on the answers that are lost, the transactions that are cut and the
                \* times that the tokens become unreadable

ASSUME CalendarAssumption ==
  /\ Sweepers \subseteq Workers
  /\ RemoveCancelled \in BOOLEAN
  /\ MAX_ATTEMPTS \in Nat \ {0} /\ MaxVersion \in Nat \ {0}
  /\ MaxRefused \in Nat /\ MaxFaults \in Nat

VARIABLES
  source,   \* of each reservation: its state, and how many versions it has had
  rows,     \* CalendarSyncOutbox, as committed
  mapping,  \* ReservationGoogleEventMapping: the event of a reservation, or 0
  events,   \* the events in Google
  worker,   \* where each worker stands, and what it read
  stray,    \* calls on their way to Google whose transaction was cut
  operator, \* where each request stands, and its row
  readable, \* the tokens of the connection are there and can be decrypted
  faults,   \* how many there have been, refused calls and others
  unsure,   \* reservations with an insert whose answer was never recorded
  overrun,  \* reservations with a call that its transaction did not live to see
  outdated  \* reservations of which a row was claimed on an outdated read

history == <<unsure, overrun, outdated>>
outside == <<operator, readable>>
vars == <<source, rows, mapping, events, worker, stray, faults, outside, history>>

-----------------------------------------------------------------------------
Final == {"SUCCESS", "SKIPPED", "DEAD_LETTER"}

Calling == {"list", "insert", "patch", "delete"}

Idle == [pc |-> "idle", row |-> 0, version |-> 0, attempts |-> 0, event |-> 0,
         outcome |-> "none"]

\* A row that the sweeper lists and that processOutboxRow goes on with.
Open(n) == rows[n].status \in {"PENDING", "FAILED"}

Of(w) == rows[worker[w].row].source

\* pg_try_advisory_xact_lock on the syncKey, held until the transaction ends.
Holder(w, s) == worker[w].pc \in Calling \cup {"finish"} /\ Of(w) = s

Init ==
  /\ source = [s \in Sources |-> [state |-> "none", version |-> 0]]
  /\ rows = <<>>
  /\ mapping = [s \in Sources |-> 0]
  /\ events = <<>>
  /\ worker = [w \in Workers |-> Idle]
  /\ stray = {}
  /\ operator = [o \in Operators |-> [pc |-> "none", row |-> 0]]
  /\ readable = TRUE
  /\ faults = [refused |-> 0, other |-> 0]
  /\ unsure = {} /\ overrun = {} /\ outdated = {}

-----------------------------------------------------------------------------
(* The reservation, and the row that is committed with it.                  *)

NewRow(s, op) == [source |-> s, op |-> op, status |-> "PENDING", attempts |-> 0]

\* enqueuePush
Enqueue(before, s, op) ==
  /\ rows' = Append(before, NewRow(s, op))
  /\ UNCHANGED <<mapping, events, worker, stray, faults, outside, history>>

Book(s) ==
  /\ source[s].state = "none"
  /\ source' = [source EXCEPT ![s] = [state |-> "booked", version |-> 1]]
  /\ Enqueue(rows, s, "CREATE")

\* updateReservation, rescheduleAppointmentReservation
Change(s) ==
  /\ source[s].state = "booked" /\ source[s].version < MaxVersion
  /\ source' = [source EXCEPT ![s].version = @ + 1]
  /\ Enqueue(rows, s, "UPDATE")

Superseded(n, s) ==
  rows[n].source = s /\ Open(n) /\ rows[n].op # "CANCEL"

\* collapseSupersededOps
Collapsed(s) ==
  [n \in DOMAIN rows |-> IF Superseded(n, s) THEN [rows[n] EXCEPT !.status = "SKIPPED"] ELSE rows[n]]

\* Collapsing waits for the rows that a worker has claimed and not committed.
Cancel(s) ==
  /\ source[s].state = "booked"
  /\ ~ \E w \in Workers : Holder(w, s) /\ Superseded(worker[w].row, s)
  /\ source' = [source EXCEPT ![s].state = "cancelled"]
  /\ Enqueue(Collapsed(s), s, "CANCEL")

-----------------------------------------------------------------------------
(* processOutboxRow                                                         *)

\* The row and the reservation are read before the lock.
Read(n) ==
  [Idle EXCEPT !.pc = "read", !.row = n, !.version = source[rows[n].source].version,
               !.attempts = rows[n].attempts]

\* Variant: rows that failed are not taken again.
TakesFirstTries(n) == rows[n].status = "PENDING"

\* The row as it is read first.
Takes(n) == Open(n)

\* The sweeper comes to a row whose delay has passed, or a consumer is told of it.
Take(w, n) ==
  /\ worker[w].pc = "idle" /\ Takes(n)
  /\ worker' = [worker EXCEPT ![w] = Read(n)]
  /\ UNCHANGED <<source, rows, mapping, events, stray, faults, outside, history>>

\* Variant: the row is taken to be what the other worker is at.
AfterBusySkipped(n) == [rows EXCEPT ![n].status = "SKIPPED"]

\* The row stays as it is for the next visit.
AfterBusy(n) == rows

\* Another worker has the lock.
Busy(w) ==
  /\ worker[w].pc = "read"
  /\ \E v \in Workers : Holder(v, Of(w))
  /\ worker' = [worker EXCEPT ![w] = Idle]
  /\ rows' = AfterBusy(worker[w].row)
  /\ UNCHANGED <<source, mapping, events, stray, faults, outside, history>>

\* The worker has the lock and has claimed the row, and the client for Google cannot be made:
\* what it throws is caught by nobody in the transaction, and undoes the claim.
Unreadable(w) ==
  /\ worker[w].pc = "read" /\ ~readable
  /\ ~ \E v \in Workers : Holder(v, Of(w))
  /\ worker' = [worker EXCEPT ![w] = Idle]
  /\ UNCHANGED <<source, rows, mapping, events, stray, faults, outside, history>>

\* Variant: the reservation is not read again.
SourceCancelledNever(s) == FALSE

\* isSourceCancelled
SourceCancelled(s) == source[s].state = "cancelled"

\* handleCreate, and handleUpdate when nothing is mapped yet.
Promoted(op, s) == op = "CREATE" \/ mapping[s] = 0

\* The lock is taken and the row claimed, IN_PROGRESS for nobody else to see.  The
\* reservation is read again, and its mapping: what is left to ask of Google?
Claim(w) ==
  LET s == Of(w)
      op == rows[worker[w].row].op
      go(pc, outcome, e) ==
        worker' = [worker EXCEPT ![w].pc = pc, ![w].outcome = outcome, ![w].event = e] IN
  /\ worker[w].pc = "read" /\ readable
  /\ ~ \E v \in Workers : Holder(v, s)
  /\ \/ op # "CANCEL" /\ SourceCancelled(s) /\ go("finish", "SKIPPED", 0)
     \/ op # "CANCEL" /\ ~SourceCancelled(s) /\ Promoted(op, s) /\ go("list", "none", 0)
     \/ op # "CANCEL" /\ ~SourceCancelled(s) /\ ~Promoted(op, s) /\ go("patch", "none", mapping[s])
     \/ op = "CANCEL" /\ mapping[s] = 0 /\ go("finish", "SUCCESS", 0)
     \/ op = "CANCEL" /\ mapping[s] # 0 /\ go("delete", "none", mapping[s])
  /\ outdated' = IF Open(worker[w].row) /\ worker[w].version = source[s].version
                 THEN outdated ELSE outdated \cup {s}
  /\ UNCHANGED <<source, rows, mapping, events, stray, faults, outside, unsure, overrun>>

-----------------------------------------------------------------------------
(* Google.                                                                  *)

\* The events of a reservation that are not cancelled.
Live(s) == {e \in DOMAIN events : events[e].source = s /\ events[e].live}

\* Variant: an event that is already there is not looked for.
ExistingNone(s) == {}

\* events.list of the reservation's private property, showDeleted: false
Existing(s) == Live(s)

\* The calendar after a call lands.
After(call) ==
  CASE call.pc = "insert" ->
         Append(events, [source |-> call.source, version |-> call.version, live |-> TRUE])
    [] call.pc = "patch" ->
         IF events[call.event].live THEN [events EXCEPT ![call.event].version = call.version]
         ELSE events
    [] call.pc = "delete" ->
         [events EXCEPT ![call.event].live = FALSE]
    [] call.pc = "list" -> events

CallOf(w) == [pc |-> worker[w].pc, source |-> Of(w), version |-> worker[w].version,
              event |-> worker[w].event, number |-> faults.other]

\* A cancelled event takes no patch.  It can be cancelled again, but not deleted again.
Accepts(w) ==
  CASE worker[w].pc = "insert" -> TRUE
    [] worker[w].pc = "patch"  -> events[worker[w].event].live
    [] worker[w].pc = "delete" -> events[worker[w].event].live \/ ~RemoveCancelled

\* The handler comes to its end with that outcome, and the event to map.
Finish(w, outcome, e) ==
  worker' = [worker EXCEPT ![w].pc = "finish", ![w].outcome = outcome, ![w].event = e,
                           ![w].version = 0]

\* Variant: an event that was found is not mapped.
FoundUnmapped(e) == 0

\* The event to map when one was found.
Found(e) == e

\* The search that comes before an insert.
List(w) ==
  /\ worker[w].pc = "list"
  /\ \/ Existing(Of(w)) = {} /\ worker' = [worker EXCEPT ![w].pc = "insert"]
     \/ \E e \in Existing(Of(w)) : Finish(w, "SUCCESS", Found(e))
  /\ UNCHANGED <<source, rows, mapping, events, stray, faults, outside, history>>

Answered(w) ==
  /\ worker[w].pc \in {"insert", "patch", "delete"} /\ Accepts(w)
  /\ events' = After(CallOf(w))
  /\ Finish(w, "SUCCESS", IF worker[w].pc = "insert" THEN Len(events) + 1 ELSE worker[w].event)
  /\ UNCHANGED <<source, rows, mapping, stray, faults, outside, history>>

\* A call on an event that Google has no longer.
Rejected(w) ==
  /\ worker[w].pc \in {"patch", "delete"} /\ ~Accepts(w)
  /\ Finish(w, "error", 0)
  /\ UNCHANGED <<source, rows, mapping, events, stray, faults, outside, history>>

\* Google refuses a call (a quota, a token that expired).
Refused(w) ==
  /\ worker[w].pc \in Calling /\ faults.refused < MaxRefused
  /\ faults' = [faults EXCEPT !.refused = @ + 1]
  /\ Finish(w, "error", 0)
  /\ UNCHANGED <<source, rows, mapping, events, stray, outside, history>>

\* Google does what it is asked, and the answer is lost.
Unanswered(w) ==
  /\ worker[w].pc \in {"insert", "patch", "delete"} /\ Accepts(w) /\ faults.other < MaxFaults
  /\ faults' = [faults EXCEPT !.other = @ + 1]
  /\ events' = After(CallOf(w))
  /\ unsure' = IF worker[w].pc = "insert" THEN unsure \cup {Of(w)} ELSE unsure
  /\ Finish(w, "error", 0)
  /\ UNCHANGED <<source, rows, mapping, stray, outside, overrun, outdated>>

-----------------------------------------------------------------------------
(* The end of the transaction.                                              *)

\* Variant: one attempt too few.
RetriesOnceLess(attempts) == IF attempts + 1 >= MAX_ATTEMPTS THEN "DEAD_LETTER" ELSE "FAILED"

\* The status of a row that failed so many times.
Retries(attempts) == IF attempts >= MAX_ATTEMPTS THEN "DEAD_LETTER" ELSE "FAILED"

\* A reservation has one mapping for a connection, by a unique index.
Conflicts(w) == worker[w].event # 0 /\ mapping[Of(w)] \notin {0, worker[w].event}

\* The row and the mapping.  The attempts are counted from the row as it was read.
Commit(w) ==
  LET n == worker[w].row
      outcome == worker[w].outcome IN
  /\ worker[w].pc = "finish"
  /\ worker' = [worker EXCEPT ![w] = Idle]
  /\ IF Conflicts(w) THEN UNCHANGED <<rows, mapping>>
     ELSE /\ rows' = [rows EXCEPT ![n].attempts = @ + 1,
                       ![n].status = IF outcome = "error" THEN Retries(worker[w].attempts + 1)
                                     ELSE outcome]
          /\ mapping' = [mapping EXCEPT ![Of(w)] =
                           IF worker[w].event # 0 THEN worker[w].event ELSE @]
  /\ UNCHANGED <<source, events, stray, faults, outside, history>>

\* The timeout of the transaction, or a crash.  A call that is out goes on alone.
Cut(w) ==
  LET s == Of(w)
      out == worker[w].pc \in Calling IN
  /\ worker[w].pc # "idle" /\ faults.other < MaxFaults
  /\ faults' = [faults EXCEPT !.other = @ + 1]
  /\ worker' = [worker EXCEPT ![w] = Idle]
  /\ stray' = IF out THEN stray \cup {CallOf(w)} ELSE stray
  /\ overrun' = IF out THEN overrun \cup {s} ELSE overrun
  /\ unsure' = IF \/ worker[w].pc = "insert"
                  \/ worker[w].pc = "finish" /\ worker[w].event \notin {0, mapping[s]}
               THEN unsure \cup {s} ELSE unsure
  /\ UNCHANGED <<source, rows, mapping, events, outside, outdated>>

\* It reaches Google, or never does.  What it found, or did, cannot be written any more.
Land(call) ==
  /\ events' \in {events, After(call)}
  /\ stray' = stray \ {call}
  /\ UNCHANGED <<source, rows, mapping, worker, faults, outside, history>>

\* A search that found nothing: the function that waited for it goes on to the insert, with no
\* query in between if the reservation has no product, and knows of no lock.
GoOn(call) ==
  /\ call.pc = "list" /\ Existing(call.source) = {}
  /\ stray' = (stray \ {call}) \cup {[call EXCEPT !.pc = "insert"]}
  /\ unsure' = unsure \cup {call.source}
  /\ UNCHANGED <<source, rows, mapping, events, worker, faults, outside, overrun, outdated>>

-----------------------------------------------------------------------------
(* What goes on around the workers.                                         *)

\* The key of the tokens is lost, or changed, and put right again.
Unread ==
  /\ readable /\ faults.other < MaxFaults
  /\ readable' = FALSE /\ faults' = [faults EXCEPT !.other = @ + 1]
  /\ UNCHANGED <<source, rows, mapping, events, worker, stray, operator, history>>

Mend ==
  /\ ~readable /\ readable' = TRUE
  /\ UNCHANGED <<source, rows, mapping, events, worker, stray, operator, faults, history>>

\* retryDeadLetterOutbox reads the row and its status.
FindDead(o, n) ==
  /\ operator[o].pc = "none" /\ rows[n].status = "DEAD_LETTER"
  /\ operator' = [operator EXCEPT ![o] = [pc |-> "found", row |-> n]]
  /\ UNCHANGED <<source, rows, mapping, events, worker, stray, readable, faults, history>>

\* Its update looks at the status no more: a worker that read the row before it was given up may
\* have taken it to another end.  It waits for a worker that has claimed the row.
PutBack(o) ==
  LET n == operator[o].row IN
  /\ operator[o].pc = "found"
  /\ ~ \E w \in Workers : worker[w].row = n /\ Holder(w, Of(w))
  /\ operator' = [operator EXCEPT ![o].pc = "done"]
  /\ rows' = [rows EXCEPT ![n].status = "PENDING", ![n].attempts = 0]
  /\ UNCHANGED <<source, mapping, events, worker, stray, readable, faults, history>>

-----------------------------------------------------------------------------
\* What a worker does by itself, once it has read a row.
Proceed(w) ==
  Busy(w) \/ Unreadable(w) \/ Claim(w) \/ List(w) \/ Answered(w) \/ Rejected(w) \/ Commit(w)

Next ==
  \/ \E s \in Sources : Book(s) \/ Change(s) \/ Cancel(s)
  \/ \E w \in Workers, n \in DOMAIN rows : Take(w, n)
  \/ \E w \in Workers : Proceed(w) \/ Refused(w) \/ Unanswered(w) \/ Cut(w)
  \/ \E call \in stray : Land(call) \/ GoOn(call)
  \/ \E o \in Operators : PutBack(o) \/ \E n \in DOMAIN rows : FindDead(o, n)
  \/ Unread \/ Mend

\* A transaction ends, within 60 seconds.  Each tick of the sweeper comes to the rows that are
\* open and due, so that it takes one again and again for as long as there is one at some of its
\* ticks, if never 100 rows that are older stay due: those of another connection whose tokens
\* cannot be read would.  No message need arrive, and no key be mended.
Fairness ==
  /\ \A w \in Workers : WF_vars(Proceed(w))
  /\ \A w \in Sweepers : SF_vars(\E n \in DOMAIN rows : Take(w, n))

Spec == Init /\ [][Next]_vars /\ Fairness

-----------------------------------------------------------------------------
(* Properties.                                                              *)

RowType ==
  [source : Sources, op : {"CREATE", "UPDATE", "CANCEL"}, attempts : Nat,
   status : {"PENDING", "FAILED"} \cup Final]

\* An operator has put the row back.
Retried(n) == \E o \in Operators : operator[o] = [pc |-> "done", row |-> n]

\* Types.  A row is not given up before MAX_ATTEMPTS attempts, whoever counts them, unless it
\* was put back: a worker may count on from what it read before.
TypeOK ==
  /\ source \in [Sources -> [state : {"none", "booked", "cancelled"}, version : 0..MaxVersion]]
  /\ rows \in Seq(RowType)
  /\ \A n \in DOMAIN rows :
       rows[n].status = "DEAD_LETTER" => rows[n].attempts >= MAX_ATTEMPTS \/ Retried(n)
  /\ events \in Seq([source : Sources, version : 1..MaxVersion, live : BOOLEAN])
  /\ mapping \in [Sources -> 0..Len(events)]
  /\ \A w \in Workers : worker[w].pc # "idle" => worker[w].row \in DOMAIN rows

RowsOf(s) == {n \in DOMAIN rows : rows[n].source = s}

\* One event per reservation, whoever processes its rows, in whatever order, and whatever is
\* lost, unless a transaction was cut with its call on the way, be it the search only.
OneEventPerSource ==
  \A s \in Sources \ overrun : Cardinality(Live(s)) <= 1

\* A row that succeeded has put its reservation in the calendar: the mapping points to an
\* event of it, and that event is there until the reservation is cancelled.
SuccessIsOnCalendar ==
  \A n \in DOMAIN rows :
    LET s == rows[n].source IN
    rows[n].status = "SUCCESS" /\ rows[n].op # "CANCEL" =>
      /\ mapping[s] \in DOMAIN events /\ events[mapping[s]].source = s
      /\ source[s].state = "booked" => events[mapping[s]].live

\* A cancelled reservation leaves no event behind once its cancellation is done, unless an
\* insert was never recorded.
NoGhostEvent ==
  \A s \in Sources \ unsure :
    (\E n \in RowsOf(s) : rows[n].op = "CANCEL" /\ rows[n].status = "SUCCESS")
      => Live(s) = {}

\* Once its rows have succeeded the calendar shows a reservation as it is, unless an answer
\* was lost, a transaction cut, or a row claimed on an outdated read.
ShowsTheLatest ==
  \A s \in Sources \ (unsure \cup overrun \cup outdated) :
    source[s].state = "booked" /\ (\A n \in RowsOf(s) : rows[n].status \in {"SUCCESS", "SKIPPED"})
      => \A e \in Live(s) : events[e].version = source[s].version

\* Every row comes to an end, and stays there once no operator puts it back, if the tokens are
\* readable in the end, and unless a transaction was cut with its call on the way: two events
\* would then keep their reservation's mapping from being written.
RowsSettle ==
  <>[](readable /\ overrun = {}) => <>[](\A n \in DOMAIN rows : rows[n].status \in Final)
=============================================================================
