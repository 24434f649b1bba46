--------------------------- MODULE SimCustodyProofs ---------------------------
(* Theorems of SimCustody.                                                  *)
EXTENDS SimCustody, TLAPS

Holders == Staff \cup {NoOne}

\* The four columns that a custody call writes, as HeldBy wants them.
Columns(custody, supervisor, promoter, accepted) ==
  /\ custody \in CustodyStates \ {"SOLD"}
  /\ supervisor \in Holders /\ promoter \in Holders /\ accepted \in BOOLEAN
  /\ custody = "ADMIN_HELD" => supervisor = NoOne /\ promoter = NoOne
  /\ custody = "SUPERVISOR_HELD" => supervisor # NoOne /\ promoter = NoOne
  /\ custody \in {"PROMOTER_PENDING", "PROMOTER_HELD", "PROMOTER_REJECTED"} => promoter # NoOne
  /\ accepted <=> custody = "PROMOTER_HELD"

\* A custody call has read a row of its SIM, and what it read was held by somebody.
Held == (\A s \in Sims : HeldBy(row[s])) /\ \A c \in Calls : HeldBy(old[c])

\* The calls that write under the version.
Versioned(c) ==
  \/ \E a \in Supervisors : AssignToSupervisor(c, a)
  \/ \E p \in Promoters : AssignToPromoter(c, p) \/ AssignToPromoterDirect(c, p)
  \/ Accept(c) \/ Reject(c)
  \/ \E a \in Staff : CollectFromPromoter(c, a)
  \/ CollectFromSupervisor(c)
  \/ \E p \in Promoters : ReassignPromoter(c, p)

LEMMA RowColumns ==
  ASSUME NEW r \in Rows
  PROVE  /\ r.custody \in CustodyStates /\ r.supervisor \in Holders /\ r.promoter \in Holders
         /\ r.accepted \in BOOLEAN /\ r.flagged \in BOOLEAN /\ r.version \in Nat
  BY DEF Rows, Holders

\* Whatever a custody call decides, it writes columns that name a holder, because the row
\* it has read did.
LEMMA WritesAHolder ==
  ASSUME TypeOK, Held, NEW c \in Calls, Versioned(c)
  PROVE  target[c] \in Sims /\ \E custody, supervisor, promoter, accepted :
           /\ Columns(custody, supervisor, promoter, accepted)
           /\ UpdateWithVersion(c, custody, supervisor, promoter, accepted)
<1>1. old[c] \in Rows /\ HeldBy(old[c])
  BY DEF TypeOK, Held
<1>2. target[c] # NoSim
  BY DEF Versioned, AssignToSupervisor, AssignToPromoter, AssignToPromoterDirect, Accept, Reject,
         CollectFromPromoter, CollectFromSupervisor, ReassignPromoter
<1>3. target[c] \in Sims
  BY <1>2 DEF TypeOK
<1>4. /\ old[c].custody \in CustodyStates /\ old[c].supervisor \in Holders
      /\ old[c].promoter \in Holders /\ old[c].accepted \in BOOLEAN
  BY <1>1, RowColumns
<1>5. NoOne \in Holders /\ Supervisors \subseteq Holders \ {NoOne}
      /\ Promoters \subseteq Holders \ {NoOne} /\ Staff \subseteq Holders \ {NoOne}
  BY SimCustodyAssumption DEF Holders, Staff
<1> USE DEF CustodyStates, Columns, HeldBy
<1>a. CASE \E a \in Supervisors : AssignToSupervisor(c, a)
  <2>1. PICK a \in Supervisors : AssignToSupervisor(c, a)
    BY <1>a
  <2>2. Columns("SUPERVISOR_HELD", a, NoOne, FALSE)
    BY <1>5
  <2> QED BY <1>3, <2>1, <2>2 DEF AssignToSupervisor
<1>b. CASE \E p \in Promoters : AssignToPromoter(c, p)
  <2>1. PICK p \in Promoters : AssignToPromoter(c, p)
    BY <1>b
  <2>2. Columns("PROMOTER_PENDING", old[c].supervisor, p, FALSE)
    BY <1>4, <1>5
  <2> QED BY <1>3, <2>1, <2>2 DEF AssignToPromoter
<1>c. CASE \E p \in Promoters : AssignToPromoterDirect(c, p)
  <2>1. PICK p \in Promoters : AssignToPromoterDirect(c, p)
    BY <1>c
  <2>2. Columns("PROMOTER_PENDING", NoOne, p, FALSE)
    BY <1>5
  <2> QED BY <1>3, <2>1, <2>2 DEF AssignToPromoterDirect
<1>d. CASE Accept(c)
  <2>1. Columns("PROMOTER_HELD", old[c].supervisor, old[c].promoter, TRUE)
    BY <1>4, <1>d DEF Accept
  <2> QED BY <1>3, <1>d, <2>1 DEF Accept
<1>e. CASE Reject(c)
  <2>1. Columns("PROMOTER_REJECTED", old[c].supervisor, old[c].promoter, old[c].accepted)
    BY <1>1, <1>4, <1>e DEF Reject
  <2> QED BY <1>3, <1>e, <2>1 DEF Reject
<1>f. CASE \E a \in Staff : CollectFromPromoter(c, a)
  <2>1. PICK a \in Staff : CollectFromPromoter(c, a)
    BY <1>f
  <2>2. Columns("SUPERVISOR_HELD", Collector(old[c], a), NoOne, FALSE)
    BY <1>4, <1>5 DEF Collector
  <2> QED BY <1>3, <2>1, <2>2 DEF CollectFromPromoter
<1>g. CASE CollectFromSupervisor(c)
  <2>1. Columns("ADMIN_HELD", NoOne, old[c].promoter, old[c].accepted)
    BY <1>1, <1>4, <1>5, <1>g DEF CollectFromSupervisor
  <2> QED BY <1>3, <1>g, <2>1 DEF CollectFromSupervisor
<1>h. CASE \E p \in Promoters : ReassignPromoter(c, p)
  <2>1. PICK p \in Promoters : ReassignPromoter(c, p)
    BY <1>h
  <2>2. Columns(old[c].custody, old[c].supervisor, p,
                old[c].accepted \/ old[c].custody = "PROMOTER_HELD")
    BY <1>1, <1>4, <1>5, <2>1 DEF ReassignPromoter
  <2> QED BY <1>3, <2>1, <2>2 DEF ReassignPromoter
<1> QED
  BY <1>a, <1>b, <1>c, <1>d, <1>e, <1>f, <1>g, <1>h DEF Versioned

\* Every step is one of these.
LEMMA Steps ==
  ASSUME TypeOK, Held, Next
  PROVE  \/ \E c \in Calls, s \in Sims : Fetch(c, s)
         \/ \E c \in Calls : Refuse(c)
         \/ \E c \in Calls : target[c] \in Sims /\ \E custody, supervisor, promoter, accepted :
              /\ Columns(custody, supervisor, promoter, accepted)
              /\ UpdateWithVersion(c, custody, supervisor, promoter, accepted)
         \/ \E c \in Calls : ApproveStock(c)
         \/ \E s \in Sims : MarkAsReturned(s)
         \/ \E s \in Sims : MarkAsDamaged(s)
         \/ \E k \in Sales : Sale(k)
<1>1. ASSUME NEW c \in Calls, Call(c)
      PROVE  \/ \E s \in Sims : Fetch(c, s)
             \/ Refuse(c) \/ Versioned(c) \/ ApproveStock(c)
  BY <1>1 DEF Call, Versioned
<1>2. CASE \E c \in Calls : Call(c)
  BY <1>1, <1>2, WritesAHolder
<1> QED
  BY <1>2 DEF Next

-----------------------------------------------------------------------------
LEMMA RegisteredRow ==
  ASSUME NEW s \in Sims, NEW custody \in {"ADMIN_HELD", "SUPERVISOR_HELD", "PROMOTER_HELD"},
         NEW who \in Holders, who = NoOne => custody = "ADMIN_HELD"
  PROVE  LET r == Registered(s, custody, who)
         IN  /\ r \in Rows /\ HeldBy(r) /\ (r.flagged <=> s \in Flagged)
             /\ r.orderItem = NoItem /\ r.status = "AVAILABLE"
<1> DEFINE flag == s \in Flagged
           acc == custody = "PROMOTER_HELD"
           r == Registered(s, custody, who)
<1>1. r = [status |-> "AVAILABLE", custody |-> custody,
           supervisor |-> IF custody = "SUPERVISOR_HELD" THEN who ELSE NoOne,
           promoter |-> IF custody = "PROMOTER_HELD" THEN who ELSE NoOne,
           accepted |-> acc, flagged |-> flag, orderItem |-> NoItem, version |-> 0]
  BY DEF Registered
<1>2. flag \in BOOLEAN /\ acc \in BOOLEAN /\ (acc <=> custody = "PROMOTER_HELD")
  OBVIOUS
<1> HIDE DEF flag, acc, r
<1>3. r \in Rows /\ HeldBy(r) /\ r.flagged = flag /\ r.orderItem = NoItem /\ r.status = "AVAILABLE"
  BY <1>1, <1>2 DEF Rows, HeldBy, CustodyStates, Holders
<1> QED
  BY <1>3 DEF flag, r

LEMMA Registration ==
  ASSUME NEW s \in Sims, NEW r \in Registrations(s)
  PROVE  /\ r \in Rows /\ HeldBy(r) /\ (r.flagged <=> s \in Flagged)
         /\ r.orderItem = NoItem /\ r.status = "AVAILABLE"
<1>1. NoOne \in Holders /\ \A a \in Supervisors \cup Promoters : a \in Holders /\ a # NoOne
  BY SimCustodyAssumption DEF Holders, Staff
<1>2. PICK custody \in {"ADMIN_HELD", "SUPERVISOR_HELD", "PROMOTER_HELD"}, who \in Holders :
        (who = NoOne => custody = "ADMIN_HELD") /\ r = Registered(s, custody, who)
  BY <1>1 DEF Registrations
<1> QED
  BY <1>2, RegisteredRow

LEMMA BlankRow == Blank \in Rows /\ HeldBy(Blank)
  BY SimCustodyAssumption DEF Blank, Rows, HeldBy, CustodyStates

LEMMA OverTyped ==
  ASSUME TypeOK, Held, NEW c \in Calls, Over(c)
  PROVE  /\ target' \in [Calls -> Sims \cup {NoSim}] /\ old' \in [Calls -> Rows]
         /\ \A d \in Calls : target'[d] = NoSim => old'[d] = Blank
         /\ \A d \in Calls : HeldBy(old'[d])
         /\ \A d \in Calls : target'[d] # NoSim => d # c /\ target'[d] = target[d] /\ old'[d] = old[d]
  BY BlankRow DEF TypeOK, Held, Over

\* An event more on the timeline of a SIM.
LEMMA MoreEvents ==
  ASSUME timeline \in [Sims -> Seq(Events)], NEW s \in Sims, NEW e \in Events,
         timeline' = [timeline EXCEPT ![s] = Append(@, e)]
  PROVE  timeline' \in [Sims -> Seq(Events)]
<1>1. Append(timeline[s], e) \in Seq(Events)
  OBVIOUS
<1> QED BY <1>1

LEMMA WarehousedRow ==
  ASSUME NEW r \in Rows
  PROVE  Warehoused(r) \in Rows /\ HeldBy(Warehoused(r))
         /\ Warehoused(r).flagged = r.flagged /\ Warehoused(r).status = r.status
         /\ Warehoused(r).orderItem = r.orderItem
  BY DEF Warehoused, Rows, HeldBy, CustodyStates

Stations == {"new", "scanned", "selling", "sold", "paying", "paid"}

Inv1 == TypeOK /\ Held

\* The rows have their type in every state, and somebody holds each SIM.
LEMMA Inv1Init == Init => Inv1
<1> SUFFICES ASSUME Init PROVE Inv1
  OBVIOUS
<1>1. \A s \in Sims : row[s] \in Rows /\ HeldBy(row[s])
  BY Registration DEF Init
<1>2. row \in [Sims -> Rows]
  BY <1>1 DEF Init
<1>3. timeline \in [Sims -> Seq(Events)]
  <2> SUFFICES ASSUME NEW s \in Sims
      PROVE (IF row[s].custody = "ADMIN_HELD" THEN <<>>
             ELSE <<[from |-> "none", to |-> row[s].custody]>>) \in Seq(Events)
    BY DEF Init
  <2>1. [from |-> "none", to |-> row[s].custody] \in Events
    BY <1>1, RowColumns DEF Events
  <2> QED BY <2>1
<1> QED
  BY <1>1, <1>2, <1>3, BlankRow DEF Inv1, TypeOK, Held, Init, CustodyStates

\* What a sale does to the row of its SIM.
LEMMA SaleRow ==
  ASSUME Inv1, NEW k \in Sales, Sale(k)
  PROVE  /\ UNCHANGED <<target, old>>
         /\ at' \in [Sales -> Stations] /\ seen' \in [Sales -> CustodyStates]
         /\ timeline' \in [Sims -> Seq(Events)]
         /\ SimOf[k] \in Sims /\ row[SimOf[k]] \in Rows
         /\ \A s \in Sims \ {SimOf[k]} : row'[s] = row[s]
         /\ row' \in [Sims -> Rows] /\ HeldBy(row'[SimOf[k]])
<1>1. SimOf[k] \in Sims /\ row[SimOf[k]] \in Rows /\ HeldBy(row[SimOf[k]])
  BY SimCustodyAssumption DEF Inv1, TypeOK, Held
<1>2. at \in [Sales -> Stations] /\ seen \in [Sales -> CustodyStates] /\ row \in [Sims -> Rows]
      /\ timeline \in [Sims -> Seq(Events)]
  BY DEF Inv1, TypeOK, Stations
<1>3. ASSUME NEW next \in Stations, MarkAsSold(k, next)
      PROVE  /\ row' \in [Sims -> Rows] /\ HeldBy(row'[SimOf[k]]) /\ UNCHANGED <<timeline, seen>>
             /\ \A s \in Sims \ {SimOf[k]} : row'[s] = row[s]
             /\ UNCHANGED <<target, old>> /\ at' \in [Sales -> Stations]
  <2> DEFINE w == [row[SimOf[k]] EXCEPT !.status = "SOLD", !.custody = "SOLD", !.orderItem = k]
  <2>1. w \in Rows /\ HeldBy(w)
    BY <1>1 DEF Rows, HeldBy, CustodyStates
  <2>2. row' = [row EXCEPT ![SimOf[k]] = w]
    BY <1>3 DEF MarkAsSold
  <2> HIDE DEF w
  <2> QED
    BY <1>1, <1>2, <1>3, <2>1, <2>2 DEF MarkAsSold, Goes
<1>4. CASE RollBack(k)
  <2> DEFINE r == row[SimOf[k]]
             w == IF r.orderItem = k /\ r.status = "SOLD"
                  THEN [r EXCEPT !.status = "AVAILABLE", !.orderItem = NoItem] ELSE r
  <2>1. w \in Rows /\ HeldBy(w)
    BY <1>1 DEF Rows, HeldBy, CustodyStates
  <2>2. row' = [row EXCEPT ![SimOf[k]] = w] /\ Goes(k, "sold") /\ UNCHANGED <<timeline, seen>>
    BY <1>4 DEF RollBack
  <2> HIDE DEF w
  <2> QED
    BY <1>1, <1>2, <2>1, <2>2 DEF Goes, Stations
<1>5. CASE WriteCustodyEvent(k)
  <2>1. [from |-> seen[k], to |-> "SOLD"] \in Events
    BY <1>2 DEF Events, CustodyStates
  <2>2. timeline' \in [Sims -> Seq(Events)]
    BY <1>1, <1>2, <1>5, <2>1 DEF WriteCustodyEvent
  <2> QED
    BY <1>1, <1>2, <1>5, <2>2 DEF WriteCustodyEvent, Goes, Stations
<1>6. CASE CheckManualSale(k)
  <2>1. row[SimOf[k]].custody \in CustodyStates
    BY <1>1, RowColumns
  <2> QED
    BY <1>1, <1>2, <1>6, <2>1 DEF CheckManualSale, Goes, Stations
<1>7. CASE Scan(k) \/ CheckSale(k) \/ CheckPayment(k)
  BY <1>1, <1>2, <1>7 DEF Scan, CheckSale, CheckPayment, Goes, Stations
<1>8. CASE Sell(k) \/ Pay(k)
  <2>1. MarkAsSold(k, "sold") \/ MarkAsSold(k, "paid")
    BY <1>8 DEF Sell, Pay
  <2> QED
    BY <1>1, <1>2, <1>3, <2>1 DEF Stations
<1> QED
  BY <1>4, <1>5, <1>6, <1>7, <1>8 DEF Sale

LEMMA Inv1Next == Inv1 /\ [Next]_vars => Inv1'
<1> SUFFICES ASSUME Inv1, [Next]_vars PROVE Inv1'
  OBVIOUS
<1>0. TypeOK /\ Held
  BY DEF Inv1
<1>1. row \in [Sims -> Rows] /\ timeline \in [Sims -> Seq(Events)]
      /\ \A s \in Sims : row[s] \in Rows /\ HeldBy(row[s])
  BY <1>0 DEF TypeOK, Held
<1>2. CASE UNCHANGED vars
  BY <1>2 DEF Inv1, TypeOK, Held, vars
<1>3. ASSUME NEW c \in Calls, NEW s \in Sims, Fetch(c, s)
      PROVE  Inv1'
  <2>1. s # NoSim
    BY SimCustodyAssumption
  <2> QED
    BY <1>0, <1>3, <2>1 DEF Inv1, TypeOK, Held, Fetch
<1>4. ASSUME NEW c \in Calls, Refuse(c)
      PROVE  Inv1'
  BY <1>0, <1>4, OverTyped DEF Inv1, TypeOK, Held, Refuse
<1>5. ASSUME NEW c \in Calls, target[c] \in Sims,
             NEW custody, NEW supervisor, NEW promoter, NEW accepted,
             Columns(custody, supervisor, promoter, accepted),
             UpdateWithVersion(c, custody, supervisor, promoter, accepted)
      PROVE  Inv1'
  <2> DEFINE s == target[c]
             w == [row[s] EXCEPT !.custody = custody, !.supervisor = supervisor,
                                 !.promoter = promoter, !.accepted = accepted,
                                 !.version = old[c].version + 1]
             e == [from |-> old[c].custody, to |-> custody]
  <2>1. old[c].version + 1 \in Nat /\ old[c].custody \in CustodyStates
    BY <1>0, RowColumns DEF TypeOK
  <2>2. w \in Rows /\ HeldBy(w)
    <3>1. row[s] \in Rows
      BY <1>1, <1>5
    <3>2. w = [row[s] EXCEPT !.custody = custody, !.supervisor = supervisor,
                             !.promoter = promoter, !.accepted = accepted,
                             !.version = old[c].version + 1]
      OBVIOUS
    <3>3. Columns(custody, supervisor, promoter, accepted)
      BY <1>5
    <3> HIDE DEF s, w
    <3> QED BY <2>1, <3>1, <3>2, <3>3 DEF Columns, Rows, HeldBy, Holders
  <2>3. e \in Events
    BY <1>5, <2>1 DEF Events, Columns
  <2>4. /\ UNCHANGED <<at, seen>> /\ Over(c)
        /\ \/ UNCHANGED <<row, timeline>>
           \/ /\ row' = [row EXCEPT ![s] = w]
              /\ timeline' = [timeline EXCEPT ![s] = Append(@, e)]
    BY <1>5 DEF UpdateWithVersion
  <2> HIDE DEF w, e
  <2>5. row' \in [Sims -> Rows] /\ timeline' \in [Sims -> Seq(Events)]
        /\ \A z \in Sims : HeldBy(row'[z])
    <3>1. timeline' \in [Sims -> Seq(Events)]
      BY <1>1, <1>5, <2>3, <2>4, MoreEvents
    <3>2. row' \in [Sims -> Rows] /\ \A z \in Sims : HeldBy(row'[z])
      BY <1>1, <1>5, <2>2, <2>4
    <3> QED BY <3>1, <3>2
  <2> QED
    BY <1>0, <2>4, <2>5, OverTyped DEF Inv1, TypeOK, Held
<1>6. ASSUME NEW c \in Calls, ApproveStock(c)
      PROVE  Inv1'
  <2> DEFINE s == target[c]
             w == [Warehoused(row[s]) EXCEPT !.flagged = FALSE]
             e == [from |-> old[c].custody, to |-> "ADMIN_HELD"]
  <2>1. s \in Sims
    BY <1>0, <1>6 DEF TypeOK, ApproveStock
  <2>2. w \in Rows /\ HeldBy(w)
    <3>1. row[s] \in Rows
      BY <1>1, <2>1
    <3>2. Warehoused(row[s]) \in Rows /\ HeldBy(Warehoused(row[s]))
      BY <3>1, WarehousedRow
    <3> QED BY <3>2 DEF Rows, HeldBy
  <2>3. e \in Events
    BY <1>0, RowColumns DEF TypeOK, Events, CustodyStates
  <2>4. /\ UNCHANGED <<at, seen>> /\ Over(c) /\ row' = [row EXCEPT ![s] = w]
        /\ timeline' = [timeline EXCEPT ![s] = Append(@, e)]
    BY <1>6 DEF ApproveStock
  <2> HIDE DEF w, e
  <2>5. row' \in [Sims -> Rows] /\ timeline' \in [Sims -> Seq(Events)]
        /\ \A z \in Sims : HeldBy(row'[z])
    BY <1>1, <2>1, <2>2, <2>3, <2>4
  <2> QED
    BY <1>0, <2>4, <2>5, OverTyped DEF Inv1, TypeOK, Held
<1>7. ASSUME NEW s \in Sims, MarkAsReturned(s) \/ MarkAsDamaged(s)
      PROVE  Inv1'
  <2>1. PICK w : /\ row' = [row EXCEPT ![s] = w]
                 /\ \/ w = [Warehoused(row[s]) EXCEPT !.status = "RETURNED", !.orderItem = NoItem]
                    \/ w = [Warehoused(row[s]) EXCEPT !.status = "DAMAGED"]
    BY <1>7 DEF MarkAsReturned, MarkAsDamaged
  <2>2. w \in Rows /\ HeldBy(w)
    BY <1>1, <2>1 DEF Warehoused, Rows, HeldBy, CustodyStates
  <2>3. UNCHANGED <<timeline, target, old, at, seen>>
    BY <1>7 DEF MarkAsReturned, MarkAsDamaged
  <2> QED
    BY <1>0, <1>1, <2>1, <2>2, <2>3 DEF Inv1, TypeOK, Held
<1>8. ASSUME NEW k \in Sales, Sale(k)
      PROVE  Inv1'
  <2>1. \A s \in Sims : HeldBy(row'[s])
    BY <1>1, <1>8, SaleRow
  <2> QED
    BY <1>0, <1>8, <2>1, SaleRow DEF Inv1, TypeOK, Held, Stations
<1> QED
  BY <1>0, <1>2, <1>3, <1>4, <1>5, <1>6, <1>7, <1>8, Steps

\* Every variable keeps its type, and a call that is over has forgotten what it read.
THEOREM TypeCorrect == Spec => []TypeOK
  BY Inv1Init, Inv1Next, PTL DEF Spec, Inv1

LEMMA Inv1Always == Spec => []Inv1
  BY Inv1Init, Inv1Next, PTL DEF Spec

\* Whatever order calls, sales, returns and approvals write a row in, its custody state and
\* its holders agree.
THEOREM SomebodyHoldsIt == Spec => []HoldersMatchState
<1>1. Inv1 => HoldersMatchState
  BY DEF Inv1, Held, HoldersMatchState
<1> QED
  BY <1>1, Inv1Always, PTL

-----------------------------------------------------------------------------
(* The owner's approval                                                     *)

\* A terminal that has passed the precheck sells a SIM that needs no approval any more.
Approved ==
  /\ \A s \in Sims : row[s].flagged => s \in Flagged
  /\ \A c \in Calls : old[c].flagged => target[c] \in Flagged
  /\ \A k \in Sales : at[k] = "paying" => k \notin Manual
  /\ \A k \in Sales \ Manual : SimOf[k] \in Enforced /\ at[k] \in {"selling", "paying"}
                                => ~ row[SimOf[k]].flagged
  /\ UnapprovedIsNotSold

\* Nobody flags a SIM, and only a sale makes one sold or gives it an order item.
LEMMA Flags ==
  ASSUME Inv1, [Next]_vars, ~ \E k \in Sales : Sale(k)
  PROVE  /\ UNCHANGED at
         /\ \A s \in Sims : /\ row'[s].flagged => row[s].flagged
                            /\ row'[s].status = "SOLD" =>
                                 row[s].status = "SOLD" /\ row'[s].orderItem = row[s].orderItem
         /\ \A c \in Calls : old'[c].flagged =>
              \/ old[c].flagged /\ target'[c] = target[c]
              \/ target'[c] \in Sims /\ row[target'[c]].flagged
<1>0. TypeOK /\ Held
  BY DEF Inv1
<1>1. row \in [Sims -> Rows] /\ (\A s \in Sims : row[s] \in Rows) /\ Blank.flagged = FALSE
  BY <1>0 DEF TypeOK, Blank
<1>2. ASSUME NEW c \in Calls, Over(c)
      PROVE  \A d \in Calls : old'[d].flagged => old[d].flagged /\ target'[d] = target[d]
  BY <1>0, <1>1, <1>2 DEF TypeOK, Over
<1>3. CASE UNCHANGED vars
  BY <1>3 DEF vars
<1>4. ASSUME NEW c \in Calls, NEW s \in Sims, Fetch(c, s)
      PROVE  /\ UNCHANGED <<row, at>>
             /\ \A d \in Calls : \/ old'[d] = old[d] /\ target'[d] = target[d]
                                 \/ target'[d] = s /\ old'[d] = row[s]
  BY <1>0, <1>4 DEF TypeOK, Fetch
<1>5. ASSUME NEW c \in Calls, target[c] \in Sims,
             NEW custody, NEW supervisor, NEW promoter, NEW accepted,
             UpdateWithVersion(c, custody, supervisor, promoter, accepted)
      PROVE  /\ Over(c) /\ UNCHANGED at
             /\ \A s \in Sims : /\ row'[s].flagged = row[s].flagged
                                /\ row'[s].status = row[s].status
                                /\ row'[s].orderItem = row[s].orderItem
  <2> DEFINE w == [row[target[c]] EXCEPT !.custody = custody, !.supervisor = supervisor,
                                         !.promoter = promoter, !.accepted = accepted,
                                         !.version = old[c].version + 1]
  <2>1. row[target[c]] \in Rows
    BY <1>1, <1>5
  <2>2. /\ w.flagged = row[target[c]].flagged /\ w.status = row[target[c]].status
        /\ w.orderItem = row[target[c]].orderItem
    BY <2>1 DEF Rows
  <2>3. Over(c) /\ UNCHANGED at /\ (row' = row \/ row' = [row EXCEPT ![target[c]] = w])
    BY <1>5 DEF UpdateWithVersion
  <2> HIDE DEF w
  <2> QED
    BY <1>1, <1>5, <2>2, <2>3
<1>6. ASSUME NEW c \in Calls, ApproveStock(c)
      PROVE  /\ Over(c) /\ UNCHANGED at
             /\ \A s \in Sims : /\ row'[s].flagged => row[s].flagged
                                /\ row'[s].status = row[s].status
                                /\ row'[s].orderItem = row[s].orderItem
  BY <1>1, <1>6 DEF ApproveStock, Warehoused, Rows
<1>7. ASSUME NEW s \in Sims, MarkAsReturned(s) \/ MarkAsDamaged(s)
      PROVE  /\ UNCHANGED <<at, old, target>>
             /\ \A z \in Sims : /\ row'[z].flagged = row[z].flagged
                                /\ row'[z].status = "SOLD" => row'[z] = row[z]
  <2>1. PICK w : /\ row' = [row EXCEPT ![s] = w]
                 /\ \/ w = [Warehoused(row[s]) EXCEPT !.status = "RETURNED", !.orderItem = NoItem]
                    \/ w = [Warehoused(row[s]) EXCEPT !.status = "DAMAGED"]
    BY <1>7 DEF MarkAsReturned, MarkAsDamaged
  <2>2. row[s] \in Rows
    BY <1>1
  <2>3. w.flagged = row[s].flagged /\ w.status # "SOLD"
    BY <2>1, <2>2 DEF Warehoused, Rows
  <2>4. UNCHANGED <<at, old, target>>
    BY <1>7 DEF MarkAsReturned, MarkAsDamaged
  <2> QED
    BY <1>1, <2>1, <2>3, <2>4
<1>8. ASSUME NEW c \in Calls, Refuse(c)
      PROVE  Over(c) /\ UNCHANGED <<row, at>>
  BY <1>8 DEF Refuse
<1> QED
  BY <1>0, <1>2, <1>3, <1>4, <1>5, <1>6, <1>7, <1>8, Steps

LEMMA ApprovedInit == Init => Approved
<1> SUFFICES ASSUME Init PROVE Approved
  OBVIOUS
<1>1. \A s \in Sims : (row[s].flagged <=> s \in Flagged) /\ row[s].status = "AVAILABLE"
  BY Registration DEF Init
<1>2. \A c \in Calls : old[c].flagged = FALSE
  BY DEF Init, Blank
<1>3. \A k \in Sales : at[k] = "new"
  BY DEF Init
<1> QED
  BY <1>1, <1>2, <1>3, SimCustodyAssumption DEF Approved, UnapprovedIsNotSold

LEMMA ApprovedNext == Inv1 /\ Approved /\ [Next]_vars => Approved'
<1> SUFFICES ASSUME Inv1, Approved, [Next]_vars PROVE Approved'
  OBVIOUS
<1>1. \A k \in Sales : SimOf[k] \in Sims
  BY SimCustodyAssumption
<1>2. CASE ~ \E k \in Sales : Sale(k)
  BY <1>1, <1>2, Flags, SimCustodyAssumption DEF Approved, UnapprovedIsNotSold
<1>3. ASSUME NEW k \in Sales, Sale(k)
      PROVE  Approved'
  <2>0. /\ UNCHANGED <<target, old>> /\ SimOf[k] \in Sims /\ row[SimOf[k]] \in Rows
        /\ \A s \in Sims \ {SimOf[k]} : row'[s] = row[s]
        /\ row \in [Sims -> Rows] /\ at \in [Sales -> Stations]
    BY <1>3, SaleRow DEF Inv1, TypeOK, Stations
  <2>1. ASSUME NEW next, MarkAsSold(k, next)
        PROVE  /\ row'[SimOf[k]].flagged = row[SimOf[k]].flagged /\ row'[SimOf[k]].orderItem = k
               /\ at' = [at EXCEPT ![k] = next]
    BY <2>0, <2>1 DEF MarkAsSold, Goes, Rows
  <2>2. /\ row'[SimOf[k]].flagged = row[SimOf[k]].flagged
        /\ \/ row'[SimOf[k]] = row[SimOf[k]]
           \/ row'[SimOf[k]].status = "AVAILABLE"
           \/ row'[SimOf[k]].orderItem = k /\ at[k] \in {"selling", "paying"}
    <3>1. CASE RollBack(k)
      BY <2>0, <3>1 DEF RollBack, Rows
    <3>2. CASE Sell(k) \/ Pay(k)
      BY <2>1, <3>2 DEF Sell, Pay
    <3> QED
      BY <1>3, <3>1, <3>2
      DEF Sale, Scan, CheckSale, CheckManualSale, CheckPayment, WriteCustodyEvent
  <2>3. /\ \A j \in Sales \ {k} : at'[j] = at[j]
        /\ at'[k] = "paying" => k \notin Manual
        /\ k \notin Manual /\ SimOf[k] \in Enforced /\ at'[k] \in {"selling", "paying"}
             => ~ row[SimOf[k]].flagged
    <3>1. CASE Sell(k) \/ Pay(k)
      BY <2>0, <2>1, <3>1 DEF Sell, Pay
    <3>2. CASE CheckSale(k) \/ CheckPayment(k)
      BY <2>0, <3>2 DEF CheckSale, CheckPayment, Goes, PassesPrecheck
    <3> QED
      BY <1>3, <2>0, <3>1, <3>2
      DEF Sale, Scan, CheckManualSale, WriteCustodyEvent, RollBack, Goes
  <2>4. \A s \in Sims : row'[s].flagged = row[s].flagged
    BY <2>0, <2>2
  <2>5. UnapprovedIsNotSold'
    <3> SUFFICES ASSUME NEW s \in Enforced, row'[s].flagged, row'[s].status = "SOLD"
        PROVE  row'[s].orderItem \in Manual
      BY DEF UnapprovedIsNotSold
    <3>1. s \in Sims /\ row[s].flagged
      BY <2>4, SimCustodyAssumption
    <3>2. CASE row'[s] = row[s]
      BY <3>2 DEF Approved, UnapprovedIsNotSold
    <3>3. CASE s = SimOf[k] /\ row'[s].orderItem = k /\ at[k] \in {"selling", "paying"}
      BY <3>1, <3>3 DEF Approved
    <3> QED
      BY <2>0, <2>2, <3>1, <3>2, <3>3
  <2> QED
    BY <1>1, <2>0, <2>3, <2>4, <2>5 DEF Approved
<1> QED
  BY <1>2, <1>3

\* Where the gates are enforced, a SIM that its owner has not approved is sold by the back
\* office or not at all, whatever happens between the precheck and the sale.
THEOREM NoUnapprovedSale == Spec => []UnapprovedIsNotSold
<1>1. Inv1 /\ Approved => UnapprovedIsNotSold
  BY DEF Approved
<1> QED
  BY <1>1, Inv1Init, Inv1Next, ApprovedInit, ApprovedNext, PTL DEF Spec

-----------------------------------------------------------------------------
(* The chain of custody                                                     *)

\* A timeline is a chain that ends in a state.
LinksTo(events, custody) ==
  /\ \A i \in 1..(Len(events) - 1) : events[i].to = events[i + 1].from
  /\ custody = IF events = <<>> THEN "ADMIN_HELD" ELSE events[Len(events)].to

\* What a call has read is either what the row says or of an older version.
Chained ==
  \A s \in Sims : OnlyCalls(s) =>
    /\ LinksTo(timeline[s], row[s].custody)
    /\ \A c \in Calls : target[c] = s =>
         /\ old[c].version <= row[s].version
         /\ old[c].version = row[s].version => old[c].custody = row[s].custody

LEMMA ChainGrows ==
  ASSUME NEW events \in Seq(Events), NEW custody, LinksTo(events, custody),
         NEW e \in Events, e.from = custody
  PROVE  LinksTo(Append(events, e), e.to)
<1> DEFINE longer == Append(events, e)
<1>1. /\ Len(longer) = Len(events) + 1 /\ Len(events) \in Nat
      /\ longer[Len(events) + 1] = e /\ longer # <<>>
      /\ \A i \in 1..Len(events) : longer[i] = events[i]
  OBVIOUS
<1> HIDE DEF longer
<1>2. ASSUME NEW i \in 1..(Len(longer) - 1) PROVE longer[i].to = longer[i + 1].from
  <2>1. CASE i = Len(events)
    <3>1. events # <<>>
      BY <1>1, <2>1
    <3> QED
      BY <1>1, <2>1, <3>1 DEF LinksTo
  <2>2. CASE i # Len(events)
    <3>1. i \in 1..(Len(events) - 1) /\ i + 1 \in 1..Len(events)
      BY <1>1, <2>2
    <3> QED
      BY <1>1, <3>1 DEF LinksTo
  <2> QED BY <2>1, <2>2
<1>3. LinksTo(longer, e.to)
  BY <1>1, <1>2 DEF LinksTo
<1> QED
  BY <1>3 DEF longer

LEMMA ChainedInit == Init => Chained
<1> SUFFICES ASSUME Init, NEW s \in Sims PROVE LinksTo(timeline[s], row[s].custody)
  BY SimCustodyAssumption DEF Chained, Init
<1> DEFINE e == [from |-> "none", to |-> row[s].custody]
<1>1. CASE row[s].custody = "ADMIN_HELD"
  BY <1>1 DEF Init, LinksTo
<1>2. CASE row[s].custody # "ADMIN_HELD"
  <2>1. timeline[s] = <<e>>
    BY <1>2 DEF Init
  <2>2. e.to = row[s].custody
    OBVIOUS
  <2> HIDE DEF e
  <2>3. Len(<<e>>) = 1 /\ <<e>>[1] = e /\ <<e>> # <<>>
    OBVIOUS
  <2> QED
    BY <2>1, <2>2, <2>3 DEF LinksTo
<1> QED
  BY <1>1, <1>2

\* No sale goes back behind the point where it has written the row.
LEMMA SaleLeavesTheChain ==
  ASSUME Inv1, NEW k \in Sales, Sale(k), NEW s \in Sims, OnlyCalls(s)'
  PROVE  OnlyCalls(s) /\ UNCHANGED <<target, old>> /\ row'[s] = row[s] /\ timeline'[s] = timeline[s]
<1>1. at \in [Sales -> Stations] /\ timeline \in [Sims -> Seq(Events)] /\ row \in [Sims -> Rows]
  BY DEF Inv1, TypeOK, Stations
<1>2. PICK next : at' = [at EXCEPT ![k] = next]
  BY DEF Sale, Scan, CheckSale, CheckManualSale, Sell, MarkAsSold, CheckPayment, Pay, RollBack,
         WriteCustodyEvent, Goes
<1>3. UNCHANGED <<target, old>> /\ \A z \in Sims \ {SimOf[k]} : row'[z] = row[z]
  BY SaleRow
<1>4. \A z \in Sims \ {SimOf[k]} : timeline'[z] = timeline[z]
  BY <1>1 DEF Sale, Scan, CheckSale, CheckManualSale, Sell, MarkAsSold, CheckPayment, Pay, RollBack,
         WriteCustodyEvent
<1>5. CASE SimOf[k] # s
  <2>1. OnlyCalls(s)
    BY <1>1, <1>2, <1>5 DEF OnlyCalls
  <2> QED
    BY <1>3, <1>4, <1>5, <2>1
<1>6. CASE SimOf[k] = s
  <2>1. at'[k] \in {"new", "scanned", "selling"} /\ s \notin VenueLevel \cup Flagged
        /\ \A j \in Sales \ {k} : SimOf[j] = s => at[j] \in {"new", "scanned", "selling"}
    BY <1>1, <1>2, <1>6 DEF OnlyCalls
  <2>2. Scan(k) \/ CheckSale(k) \/ CheckManualSale(k)
    BY <1>1, <2>1 DEF Sale, Sell, MarkAsSold, CheckPayment, Pay, RollBack, WriteCustodyEvent, Goes
  <2>3. at[k] \in {"new", "scanned"} /\ UNCHANGED <<row, timeline>>
    BY <2>2 DEF Scan, CheckSale, CheckManualSale
  <2> QED
    BY <1>3, <2>1, <2>3 DEF OnlyCalls
<1> QED
  BY <1>5, <1>6

LEMMA ChainedNext == Inv1 /\ Approved /\ Chained /\ [Next]_vars => Chained'
<1> SUFFICES ASSUME Inv1, Approved, Chained, [Next]_vars, NEW s \in Sims, OnlyCalls(s)'
    PROVE  /\ LinksTo(timeline'[s], row'[s].custody)
           /\ \A c \in Calls : target'[c] = s =>
                /\ old'[c].version <= row'[s].version
                /\ old'[c].version = row'[s].version => old'[c].custody = row'[s].custody
  BY DEF Chained
<1>0. TypeOK /\ Held
  BY DEF Inv1
<1>1. /\ row \in [Sims -> Rows] /\ row[s] \in Rows /\ row[s].version \in Nat /\ s # NoSim
      /\ timeline \in [Sims -> Seq(Events)]
      /\ \A c \in Calls : old[c] \in Rows /\ old[c].version \in Nat
  BY <1>0, RowColumns, SimCustodyAssumption DEF TypeOK
<1>2. ASSUME NEW k \in Sales, Sale(k)
      PROVE  OnlyCalls(s) /\ UNCHANGED <<target, old>> /\ row'[s] = row[s]
             /\ timeline'[s] = timeline[s]
  BY <1>2, SaleLeavesTheChain
<1>3. ASSUME UNCHANGED at
      PROVE  OnlyCalls(s)
  BY <1>3 DEF OnlyCalls
<1>4. CASE UNCHANGED vars
  BY <1>3, <1>4 DEF vars, Chained
<1>5. CASE \E k \in Sales : Sale(k)
  BY <1>2, <1>5 DEF Chained
<1>6. ASSUME NEW c \in Calls, NEW z \in Sims, Fetch(c, z)
      PROVE  /\ OnlyCalls(s) /\ UNCHANGED <<row, timeline>>
             /\ \A d \in Calls : \/ old'[d] = old[d] /\ target'[d] = target[d]
                                 \/ target'[d] = z /\ old'[d] = row[z]
  BY <1>0, <1>3, <1>6 DEF TypeOK, Fetch
<1>7. ASSUME NEW c \in Calls, Refuse(c)
      PROVE  /\ OnlyCalls(s) /\ UNCHANGED <<row, timeline>>
             /\ \A d \in Calls : target'[d] # NoSim => target'[d] = target[d] /\ old'[d] = old[d]
  BY <1>0, <1>3, <1>7, OverTyped DEF Refuse
<1>8. ASSUME NEW c \in Calls, target[c] \in Sims,
             NEW custody, NEW supervisor, NEW promoter, NEW accepted,
             Columns(custody, supervisor, promoter, accepted),
             UpdateWithVersion(c, custody, supervisor, promoter, accepted)
      PROVE  /\ LinksTo(timeline'[s], row'[s].custody)
             /\ \A d \in Calls : target'[d] = s =>
                  /\ old'[d].version <= row'[s].version
                  /\ old'[d].version = row'[s].version => old'[d].custody = row'[s].custody
  <2>1. OnlyCalls(s) /\ Over(c)
    BY <1>3, <1>8 DEF UpdateWithVersion
  <2>2. \A d \in Calls : target'[d] # NoSim => d # c /\ target'[d] = target[d] /\ old'[d] = old[d]
    BY <1>0, <2>1, OverTyped
  <2>3. CASE row'[s] = row[s] /\ timeline'[s] = timeline[s]
    BY <1>1, <2>1, <2>2, <2>3 DEF Chained
  <2>4. CASE target[c] = s /\ row[s].version = old[c].version
    <3> DEFINE w == [row[s] EXCEPT !.custody = custody, !.supervisor = supervisor,
                                   !.promoter = promoter, !.accepted = accepted,
                                   !.version = old[c].version + 1]
               e == [from |-> old[c].custody, to |-> custody]
    <3>1. row'[s] = w /\ timeline'[s] = Append(timeline[s], e)
      BY <1>1, <1>8, <2>4 DEF UpdateWithVersion
    <3>2. w.custody = custody /\ w.version = row[s].version + 1
      BY <1>1, <2>4 DEF Rows
    <3>3. e \in Events /\ e.from = row[s].custody /\ e.to = custody
      <4>1. old[c].custody = row[s].custody
        BY <2>1, <2>4 DEF Chained
      <4> QED
        BY <1>1, <1>8, <4>1, RowColumns DEF Events, Columns
    <3> HIDE DEF w, e
    <3>4. LinksTo(timeline[s], row[s].custody)
      BY <2>1 DEF Chained
    <3>5. LinksTo(Append(timeline[s], e), e.to)
      BY <1>1, <3>3, <3>4, ChainGrows
    <3>6. \A d \in Calls : target'[d] = s => old'[d].version <= row[s].version
      BY <1>1, <2>1, <2>2 DEF Chained
    <3>7. \A d \in Calls : target'[d] = s => old'[d].version \in Nat
      BY <1>1, <2>2
    <3> QED
      BY <1>1, <3>1, <3>2, <3>3, <3>5, <3>6, <3>7
  <2> QED
    BY <1>1, <1>8, <2>3, <2>4 DEF UpdateWithVersion
<1>9. ASSUME NEW c \in Calls, ApproveStock(c)
      PROVE  /\ OnlyCalls(s) /\ row'[s] = row[s] /\ timeline'[s] = timeline[s]
             /\ \A d \in Calls : target'[d] # NoSim => target'[d] = target[d] /\ old'[d] = old[d]
  <2>1. OnlyCalls(s) /\ Over(c)
    BY <1>3, <1>9 DEF ApproveStock
  <2>2. target[c] # s
    BY <1>9, <2>1 DEF ApproveStock, Approved, OnlyCalls
  <2> QED
    BY <1>0, <1>1, <1>9, <2>1, <2>2, OverTyped DEF ApproveStock
<1>10. ASSUME NEW z \in Sims, MarkAsReturned(z) \/ MarkAsDamaged(z)
       PROVE  OnlyCalls(s) /\ row'[s] = row[s] /\ UNCHANGED <<timeline, target, old>>
  <2>1. OnlyCalls(s) /\ z # s
    BY <1>3, <1>10 DEF MarkAsReturned, MarkAsDamaged, OnlyCalls
  <2> QED
    BY <1>1, <1>10, <2>1 DEF MarkAsReturned, MarkAsDamaged
<1>11. CASE \E c \in Calls, z \in Sims : Fetch(c, z)
  BY <1>1, <1>6, <1>11 DEF Chained
<1>12. CASE \E c \in Calls : Refuse(c)
  BY <1>1, <1>7, <1>12 DEF Chained
<1>13. CASE \E c \in Calls : ApproveStock(c)
  BY <1>1, <1>9, <1>13 DEF Chained
<1>14. CASE \E z \in Sims : MarkAsReturned(z) \/ MarkAsDamaged(z)
  BY <1>10, <1>14 DEF Chained
<1> QED
  BY <1>0, <1>4, <1>5, <1>8, <1>11, <1>12, <1>13, <1>14, Steps

\* As long as only custody calls have written a SIM its timeline is a chain that ends where
\* the SIM is: a call that lost the race for the version has written no event.
THEOREM TimelineIsAChain == Spec => []ChainOfCustody
<1>1. Chained => ChainOfCustody
  BY DEF Chained, ChainOfCustody, LinksTo
<1> QED
  BY <1>1, Inv1Init, Inv1Next, ApprovedInit, ApprovedNext, ChainedInit, ChainedNext, PTL DEF Spec
===============================================================================
