------------------------------ MODULE SimCustody -----------------------------
(***************************************************************************)
(* The custody of SIM cards: from the warehouse to a supervisor, to a      *)
(* promoter who accepts or rejects them, and to a sale.                    *)
(*                                                                         *)
(* A custody call reads a row, checks it, and writes every custody column  *)
(* if custodyVersion has not moved.  Sales, returns, damages and the       *)
(* owner's approvals write the same row without looking at the version.    *)
(***************************************************************************)
EXTENDS Integers, Sequences

CONSTANTS
  Sims,
  Supervisors, Promoters, Admins,  \* staff of the organization
  Encargados,   \* who runs the store that each SIM was registered from
  Flagged,      \* SIMs that start out waiting for the owner's approval
  VenueLevel,   \* legacy SIMs of a venue, the only ones a return or a damage finds
  Enforced,     \* SIMs of an organization in mode ENFORCE but eSIMs: no other is refused
  Calls,        \* custody calls, which serve one row after another
  Sales,        \* order items that sell a SIM
  SimOf,        \* the SIM of each
  SellerOf,     \* who rings each up
  Manual,       \* the sales that the back office uploads
  MaxVersion    \* bound on custodyVersion

NoOne == "nobody"
NoSim == "no SIM"
NoItem == "no order item"

Staff == Supervisors \cup Promoters \cup Admins

ASSUME SimCustodyAssumption ==
  /\ Encargados \in [Sims -> SUBSET Staff]
  /\ Flagged \subseteq Sims /\ VenueLevel \subseteq Sims \ Flagged
  /\ Enforced \subseteq Sims /\ Manual \subseteq Sales
  /\ SimOf \in [Sales -> Sims] /\ SellerOf \in [Sales -> Staff]
  /\ NoOne \notin Staff /\ NoSim \notin Sims /\ NoItem \notin Sales
  /\ MaxVersion \in Nat

VARIABLES
  row,       \* SerializedItem of each SIM
  timeline,  \* its custody events
  target,    \* the SIM that each call has read
  old,       \* the row that it read
  at,        \* where each sale stands
  seen       \* the custody state that an uploaded sale has read

vars == <<row, timeline, target, old, at, seen>>

CustodyStates == {"ADMIN_HELD", "SUPERVISOR_HELD", "PROMOTER_PENDING", "PROMOTER_HELD",
                  "PROMOTER_REJECTED", "SOLD"}

Rows == [status : {"AVAILABLE", "SOLD", "RETURNED", "DAMAGED"}, custody : CustodyStates,
         supervisor : Staff \cup {NoOne}, promoter : Staff \cup {NoOne}, accepted : BOOLEAN,
         flagged : BOOLEAN, orderItem : Sales \cup {NoItem}, version : Nat]

\* A SIM is held by whoever scans it in: a promoter, a supervisor or the warehouse.
Registered(s, custody, who) ==
  [status |-> "AVAILABLE", custody |-> custody,
   supervisor |-> IF custody = "SUPERVISOR_HELD" THEN who ELSE NoOne,
   promoter |-> IF custody = "PROMOTER_HELD" THEN who ELSE NoOne,
   accepted |-> custody = "PROMOTER_HELD",
   flagged |-> s \in Flagged, orderItem |-> NoItem, version |-> 0]

Registrations(s) ==
  {Registered(s, "ADMIN_HELD", NoOne)} \cup {Registered(s, "SUPERVISOR_HELD", a) : a \in Supervisors}
    \cup {Registered(s, "PROMOTER_HELD", p) : p \in Promoters}

Blank == [status |-> "AVAILABLE", custody |-> "ADMIN_HELD", supervisor |-> NoOne, promoter |-> NoOne,
          accepted |-> FALSE, flagged |-> FALSE, orderItem |-> NoItem, version |-> 0]

\* The warehouse's registrations leave no event.
Init ==
  /\ row \in [Sims -> UNION {Registrations(s) : s \in Sims}]
  /\ \A s \in Sims : row[s] \in Registrations(s)
  /\ timeline = [s \in Sims |-> IF row[s].custody = "ADMIN_HELD" THEN <<>>
                                ELSE <<[from |-> "none", to |-> row[s].custody]>>]
  /\ target = [c \in Calls |-> NoSim]
  /\ old = [c \in Calls |-> Blank]
  /\ at = [k \in Sales |-> "new"]
  /\ seen = [k \in Sales |-> "ADMIN_HELD"]

-----------------------------------------------------------------------------
(* Custody calls                                                            *)

Fetch(c, s) ==
  /\ target[c] = NoSim
  /\ target' = [target EXCEPT ![c] = s]
  /\ old' = [old EXCEPT ![c] = row[s]]
  /\ UNCHANGED <<row, timeline, at, seen>>

\* Mutant of Over: the next row of the batch is checked against the row before it.
RemembersTheRow(c) == target' = [target EXCEPT ![c] = NoSim] /\ UNCHANGED old

Over(c) ==
  /\ target' = [target EXCEPT ![c] = NoSim]
  /\ old' = [old EXCEPT ![c] = Blank]

\* A check fails, or the transaction does: nothing is written.
Refuse(c) ==
  /\ target[c] # NoSim
  /\ Over(c)
  /\ UNCHANGED <<row, timeline, at, seen>>

\* Mutant of UpdateWithVersion: the version is left out of the WHERE clause.
UpdateWithoutVersion(c, custody, supervisor, promoter, accepted) ==
  LET s == target[c] IN
  /\ row[s].version < MaxVersion
  /\ row' = [row EXCEPT ![s] = [@ EXCEPT !.custody = custody, !.supervisor = supervisor,
                                  !.promoter = promoter, !.accepted = accepted,
                                  !.version = @ + 1]]
  /\ timeline' = [timeline EXCEPT ![s] = Append(@, [from |-> old[c].custody, to |-> custody])]
  /\ Over(c)
  /\ UNCHANGED <<at, seen>>

\* Every column is written, those that stay the same from the row that was read.
UpdateWithVersion(c, custody, supervisor, promoter, accepted) ==
  LET s == target[c] IN
  /\ IF row[s].version = old[c].version
     THEN /\ row[s].version < MaxVersion
          /\ row' = [row EXCEPT ![s] = [@ EXCEPT !.custody = custody, !.supervisor = supervisor,
                                          !.promoter = promoter, !.accepted = accepted,
                                          !.version = old[c].version + 1]]
          /\ timeline' = [timeline EXCEPT ![s] = Append(@, [from |-> old[c].custody, to |-> custody])]
     ELSE UNCHANGED <<row, timeline>>
  /\ Over(c)
  /\ UNCHANGED <<at, seen>>

\* The owner's approval is asked for before a SIM goes down the chain.
Distributable(s, r) == r.status # "SOLD" /\ ~ (s \in Enforced /\ r.flagged)

AssignToSupervisor(c, a) ==
  /\ target[c] # NoSim /\ Distributable(target[c], old[c]) /\ old[c].custody = "ADMIN_HELD"
  /\ UpdateWithVersion(c, "SUPERVISOR_HELD", a, NoOne, FALSE)

AssignToPromoter(c, p) ==
  /\ target[c] # NoSim /\ Distributable(target[c], old[c]) /\ old[c].custody = "SUPERVISOR_HELD"
  /\ old[c].supervisor # NoOne
  /\ UpdateWithVersion(c, "PROMOTER_PENDING", old[c].supervisor, p, FALSE)

AssignToPromoterDirect(c, p) ==
  /\ target[c] # NoSim /\ Distributable(target[c], old[c]) /\ old[c].custody = "ADMIN_HELD"
  /\ UpdateWithVersion(c, "PROMOTER_PENDING", NoOne, p, FALSE)

\* The promoter of the row is the one who calls.
Accept(c) ==
  /\ target[c] # NoSim /\ old[c].promoter # NoOne /\ old[c].custody = "PROMOTER_PENDING"
  /\ UpdateWithVersion(c, "PROMOTER_HELD", old[c].supervisor, old[c].promoter, TRUE)

Reject(c) ==
  /\ target[c] # NoSim /\ old[c].promoter # NoOne /\ old[c].custody = "PROMOTER_PENDING"
  /\ UpdateWithVersion(c, "PROMOTER_REJECTED", old[c].supervisor, old[c].promoter, old[c].accepted)

\* Mutant of Collector: a SIM that a promoter scanned in stays without a supervisor.
NoCollector(r, a) == r.supervisor

\* Whoever collects a SIM that has no supervisor becomes its supervisor.
Collector(r, a) == IF r.supervisor = NoOne THEN a ELSE r.supervisor

CollectFromPromoter(c, a) ==
  /\ target[c] # NoSim /\ old[c].status # "SOLD"
  /\ a \in Admins \/ old[c].supervisor = a \/ a \in Encargados[target[c]]
  /\ old[c].custody \in {"PROMOTER_PENDING", "PROMOTER_HELD", "PROMOTER_REJECTED"}
  /\ UpdateWithVersion(c, "SUPERVISOR_HELD", Collector(old[c], a), NoOne, FALSE)

CollectFromSupervisor(c) ==
  /\ target[c] # NoSim /\ old[c].status # "SOLD" /\ old[c].custody = "SUPERVISOR_HELD"
  /\ UpdateWithVersion(c, "ADMIN_HELD", NoOne, old[c].promoter, old[c].accepted)

ReassignPromoter(c, p) ==
  /\ target[c] # NoSim /\ old[c].status # "SOLD"
  /\ old[c].custody \in {"PROMOTER_PENDING", "PROMOTER_HELD"} /\ old[c].promoter # p
  /\ UpdateWithVersion(c, old[c].custody, old[c].supervisor, p,
                       old[c].accepted \/ old[c].custody = "PROMOTER_HELD")

-----------------------------------------------------------------------------
(* Writers that do not look at the version                                  *)

\* The row of a SIM that goes back to the warehouse.
Warehoused(r) == [r EXCEPT !.custody = "ADMIN_HELD", !.supervisor = NoOne, !.promoter = NoOne,
                           !.accepted = FALSE]

ApproveStock(c) ==
  LET s == target[c] IN
  /\ s # NoSim /\ old[c].flagged
  /\ row' = [row EXCEPT ![s] = [Warehoused(@) EXCEPT !.flagged = FALSE]]
  /\ timeline' = [timeline EXCEPT ![s] = Append(@, [from |-> old[c].custody, to |-> "ADMIN_HELD"])]
  /\ Over(c)
  /\ UNCHANGED <<at, seen>>

MarkAsReturned(s) ==
  /\ s \in VenueLevel
  /\ row' = [row EXCEPT ![s] = [Warehoused(@) EXCEPT !.status = "RETURNED", !.orderItem = NoItem]]
  /\ UNCHANGED <<timeline, target, old, at, seen>>

MarkAsDamaged(s) ==
  /\ s \in VenueLevel
  /\ row' = [row EXCEPT ![s] = [Warehoused(@) EXCEPT !.status = "DAMAGED"]]
  /\ UNCHANGED <<timeline, target, old, at, seen>>

-----------------------------------------------------------------------------
(* Sales                                                                    *)

Goes(k, next) == at' = [at EXCEPT ![k] = next] /\ UNCHANGED <<target, old>>

\* A terminal asks whether the SIM is sold, outside the transaction that sells it.
Scan(k) ==
  /\ k \notin Manual /\ at[k] = "new" /\ row[SimOf[k]].status # "SOLD"
  /\ Goes(k, "scanned") /\ UNCHANGED <<row, timeline, seen>>

\* Mutant of PassesPrecheck: the owner's approval is not asked for.
UnapprovedPasses(k, r) ==
  SimOf[k] \in Enforced => r.custody = "PROMOTER_HELD" /\ r.promoter = SellerOf[k]

PassesPrecheck(k, r) ==
  SimOf[k] \in Enforced => /\ ~ r.flagged
                           /\ r.custody = "PROMOTER_HELD" /\ r.promoter = SellerOf[k]

\* markAsSold reads the row, and rolls the transaction back if it may not be sold.
CheckSale(k) ==
  /\ at[k] = "scanned"
  /\ Goes(k, IF PassesPrecheck(k, row[SimOf[k]]) THEN "selling" ELSE "new")
  /\ UNCHANGED <<row, timeline, seen>>

\* The back office reads that a SIM of the organization is available; there is no precheck.
CheckManualSale(k) ==
  /\ k \in Manual /\ SimOf[k] \notin VenueLevel
  /\ at[k] = "new" /\ row[SimOf[k]].status = "AVAILABLE"
  /\ seen' = [seen EXCEPT ![k] = row[SimOf[k]].custody]
  /\ Goes(k, "selling") /\ UNCHANGED <<row, timeline>>

\* The update is by id alone.
MarkAsSold(k, next) ==
  /\ row' = [row EXCEPT ![SimOf[k]] = [@ EXCEPT !.status = "SOLD", !.custody = "SOLD",
                                                !.orderItem = k]]
  /\ Goes(k, next) /\ UNCHANGED <<timeline, seen>>

Sell(k) == at[k] = "selling" /\ MarkAsSold(k, "sold")

\* The payment of the order marks the SIM once more.  An error is swallowed.
CheckPayment(k) ==
  /\ k \notin Manual /\ at[k] = "sold"
  /\ Goes(k, IF PassesPrecheck(k, row[SimOf[k]]) THEN "paying" ELSE "paid")
  /\ UNCHANGED <<row, timeline, seen>>

Pay(k) == at[k] = "paying" /\ MarkAsSold(k, "paid")

\* Another item of the order has no stock: the order goes back to be paid again.
RollBack(k) ==
  /\ k \notin Manual /\ at[k] = "paid"
  /\ row' = [row EXCEPT ![SimOf[k]] =
               IF @.orderItem = k /\ @.status = "SOLD"
               THEN [@ EXCEPT !.status = "AVAILABLE", !.orderItem = NoItem] ELSE @]
  /\ Goes(k, "sold") /\ UNCHANGED <<timeline, seen>>

\* The upload writes its event after the sale, and nobody waits for it: it may never come.
WriteCustodyEvent(k) ==
  /\ k \in Manual /\ at[k] = "sold"
  /\ timeline' = [timeline EXCEPT ![SimOf[k]] = Append(@, [from |-> seen[k], to |-> "SOLD"])]
  /\ Goes(k, "paid") /\ UNCHANGED <<row, seen>>

-----------------------------------------------------------------------------
Call(c) ==
  \/ \E s \in Sims : Fetch(c, s)
  \/ Refuse(c)
  \/ \E a \in Supervisors : AssignToSupervisor(c, a)
  \/ \E p \in Promoters : AssignToPromoter(c, p) \/ AssignToPromoterDirect(c, p)
  \/ Accept(c) \/ Reject(c)
  \/ \E a \in Staff : CollectFromPromoter(c, a)
  \/ CollectFromSupervisor(c)
  \/ \E p \in Promoters : ReassignPromoter(c, p)
  \/ ApproveStock(c)

Sale(k) ==
  \/ Scan(k) \/ CheckSale(k) \/ CheckManualSale(k) \/ Sell(k)
  \/ CheckPayment(k) \/ Pay(k) \/ RollBack(k) \/ WriteCustodyEvent(k)

Next ==
  \/ \E c \in Calls : Call(c)
  \/ \E s \in Sims : MarkAsReturned(s) \/ MarkAsDamaged(s)
  \/ \E k \in Sales : Sale(k)

Spec == Init /\ [][Next]_vars

-----------------------------------------------------------------------------
Events == [from : CustodyStates \cup {"none"}, to : CustodyStates]

\* Every variable has its type, and a call that is over has forgotten what it read.
TypeOK ==
  /\ row \in [Sims -> Rows] /\ timeline \in [Sims -> Seq(Events)]
  /\ target \in [Calls -> Sims \cup {NoSim}] /\ old \in [Calls -> Rows]
  /\ at \in [Sales -> {"new", "scanned", "selling", "sold", "paying", "paid"}]
  /\ seen \in [Sales -> CustodyStates]
  /\ \A c \in Calls : target[c] = NoSim => old[c] = Blank

\* What a row says of who holds the SIM: its custody state against its three other columns.
HeldBy(r) ==
  /\ r.custody = "ADMIN_HELD" => r.supervisor = NoOne /\ r.promoter = NoOne
  /\ r.custody = "SUPERVISOR_HELD" => r.supervisor # NoOne /\ r.promoter = NoOne
  /\ r.custody \in {"PROMOTER_PENDING", "PROMOTER_HELD", "PROMOTER_REJECTED"} => r.promoter # NoOne
  /\ r.custody # "SOLD" => (r.accepted <=> r.custody = "PROMOTER_HELD")

\* Whatever the order in which calls, sales, returns and approvals write a row, somebody who
\* can act on the SIM holds it: with its promoter there is one, with its supervisor there is
\* one, and the warehouse shares it with nobody.
HoldersMatchState == \A s \in Sims : HeldBy(row[s])

\* No sale has written the row of the SIM, and nothing else that has no version can.
OnlyCalls(s) ==
  /\ s \notin VenueLevel \cup Flagged
  /\ \A k \in Sales : SimOf[k] = s => at[k] \in {"new", "scanned", "selling"}

\* The events of a SIM that only custody calls have written are a chain: each begins in the
\* state the one before ended in, and the last one ended in the state the SIM is in.
ChainOfCustody ==
  \A s \in Sims : OnlyCalls(s) =>
    /\ \A i \in 1..(Len(timeline[s]) - 1) : timeline[s][i].to = timeline[s][i + 1].from
    /\ row[s].custody = IF timeline[s] = <<>> THEN "ADMIN_HELD"
                        ELSE timeline[s][Len(timeline[s])].to

\* Where the gates are enforced no terminal sells a SIM that its owner has not approved.
UnapprovedIsNotSold ==
  \A s \in Enforced : row[s].flagged /\ row[s].status = "SOLD" => row[s].orderItem \in Manual

=============================================================================
