----------------------------- MODULE CashOutProofs -----------------------------
(* Theorems of CashOut.                                                     *)
EXTENDS CashOut, FiniteSetTheorems, WellFoundedInduction, TLAPS

Stations == {"start", "sales", "entry", "owed", "completed", "clawback", "withdraw",
             "claim", "list", "report", "done"}

Counts == Nat \cup {Unknown}

\* The two halves of TypeOK: the tables, and what the calls hold.
TablesOK ==
  /\ approved \subseteq Sales
  /\ entry \in [Sales -> [status : EntryStatuses, tier : Nat,
                         withdrawal : Withdrawals \cup {NoWithdrawal}]]
  /\ withdrawal \in [Withdrawals -> [status : {"none", "REQUESTED", "REPORTED"},
                                    gross : SUBSET Sales]]
  /\ reported \in [Withdrawals -> Nat] /\ shared \subseteq Withdrawals
  /\ edits \in Nat /\ faults \in Nat

CallsOK ==
  /\ at \in [Calls -> Stations]
  /\ todo \in [Calls -> SUBSET Sales]
  /\ \A c \in Calls : at[c] = "entry" => todo[c] # {}
  /\ prior \in [Calls -> Counts]
  /\ counters \in [Calls -> [Promoters -> Counts]]
  /\ seen \in [Calls -> SUBSET Sales]
  /\ listed \in [Calls -> SUBSET Withdrawals]

LEMMA TypeSplit == TypeOK <=> TablesOK /\ CallsOK
  BY DEF TypeOK, TablesOK, CallsOK, Stations, Counts

\* A call at a sale has one: the oldest of those it has still to enter.
LEMMA SaleAtHand ==
  ASSUME CallsOK, NEW c \in Calls, at[c] = "entry"
  PROVE  Sale(c) \in todo[c] /\ Sale(c) \in Sales
<1>1. todo[c] \subseteq Sales /\ todo[c] # {}
  BY DEF CallsOK
<1> DEFINE Ages == {CreatedAt[s] : s \in todo[c]}
<1>2. Ages \subseteq Nat /\ Ages # {}
  BY <1>1, CashOutAssumption
<1> DEFINE Younger == {pair \in Nat \X Nat : pair[1] < pair[2]}
<1>a. IsWellFoundedOn(Younger, Nat)
  BY NatLessThanWellFounded DEF OpToRel
<1>3. PICK m \in Ages : \A n \in Ages : <<n, m>> \notin Younger
  <2> HIDE DEF Younger, Ages
  <2> QED BY <1>2, <1>a, WFMin
<1>4. \A n \in Ages : m <= n
  <2> SUFFICES ASSUME NEW n \in Ages PROVE m <= n
    OBVIOUS
  <2>1. m \in Nat /\ n \in Nat
    BY <1>2
  <2>2. ~(n < m)
    BY <1>3, <2>1
  <2> QED
    BY <2>1, <2>2
<1>5. PICK s \in todo[c] : CreatedAt[s] = m
  OBVIOUS
<1>6. \A t \in todo[c] : CreatedAt[s] <= CreatedAt[t]
  BY <1>4, <1>5
<1> QED
  BY <1>1, <1>5, <1>6 DEF Sale

\* A call that goes somewhere else than to a sale forgets what it read.
LEMMA GoesTyped ==
  ASSUME CallsOK, NEW c \in Calls, NEW next \in Stations \ {"entry"}, Goes(c, next)
  PROVE  CallsOK'
  BY DEF CallsOK, Goes, Stations, Counts

LEMMA AfterLedgerTyped ==
  ASSUME NEW c \in Calls, NEW next \in AfterLedger(c)
  PROVE  next \in Stations \ {"entry"}
  BY DEF AfterLedger, Stations

LEMMA OverTyped == \A c : Over(c) \in Stations \ {"entry"}
  BY DEF Over, Stations

LEMMA AfterClawbackTyped == \A c : AfterClawback(c) \in Stations \ {"entry"}
  BY DEF AfterClawback, Stations

LEMMA NextSaleTyped ==
  ASSUME CallsOK, NEW c \in Calls, at[c] = "entry",
         NEW counted \in [Promoters -> Counts], NextSale(c, counted)
  PROVE  CallsOK'
<1>1. CASE LastSale(c)
  BY <1>1, GoesTyped, AfterLedgerTyped DEF NextSale
<1>2. CASE ~LastSale(c)
  <2>1. todo[c] \ {Sale(c)} # {}
    BY <1>2, SaleAtHand DEF LastSale
  <2>2. /\ at' = at /\ seen' = seen /\ listed' = listed
        /\ todo' = [todo EXCEPT ![c] = @ \ {Sale(c)}]
        /\ prior' = [prior EXCEPT ![c] = Unknown]
        /\ counters' = [counters EXCEPT ![c] = counted]
    BY <1>2 DEF NextSale
  <2>3. todo' \in [Calls -> SUBSET Sales] /\ \A d \in Calls : at'[d] = "entry" => todo'[d] # {}
    BY <2>1, <2>2 DEF CallsOK
  <2>4. prior' \in [Calls -> Counts] /\ counters' \in [Calls -> [Promoters -> Counts]]
    BY <2>2 DEF CallsOK, Counts
  <2> QED
    BY <2>2, <2>3, <2>4 DEF CallsOK
<1> QED
  BY <1>1, <1>2

\* The counters after an entry, and the tier it gets.
LEMMA PriorTyped ==
  ASSUME CallsOK, NEW c \in Calls, at[c] = "entry", PriorCount(c) # Unknown
  PROVE  /\ PriorCount(c) \in Nat
         /\ [counters[c] EXCEPT ![SoldBy[Sale(c)]] = PriorCount(c) + 1] \in [Promoters -> Counts]
<1>1. SoldBy[Sale(c)] \in Promoters
  BY SaleAtHand, CashOutAssumption
<1>2. PriorCount(c) \in Counts
  BY <1>1 DEF PriorCount, Counter, CallsOK
<1> QED
  BY <1>1, <1>2 DEF CallsOK, Counts

LEMMA WeekCountTyped == \A p : WeekCount(p) \in Nat
<1> TAKE p
<1>1. IsFiniteSet((InLedger \cap OfPromoter(p)) \ WithStatus({"CLAWED_BACK"}))
  BY CashOutAssumption, FS_Subset DEF InLedger
<1> QED
  BY <1>1, FS_CardinalityType DEF WeekCount

-----------------------------------------------------------------------------
LEMMA TypeInit == Init => TypeOK
  BY DEF Init, TypeOK, EntryStatuses, Unknown

LEMMA TypeStep == TypeOK /\ [Next]_vars => TypeOK'
<1> SUFFICES ASSUME TablesOK, CallsOK, [Next]_vars
             PROVE  TablesOK' /\ CallsOK'
  BY TypeSplit DEF TypeOK, TablesOK, CallsOK, Stations, Counts
<1>1. ASSUME NEW s \in Sales, Approve(s) \/ Drop(s)
      PROVE  TablesOK' /\ CallsOK'
  BY <1>1 DEF Approve, Drop, TablesOK, CallsOK, callVars
<1>2. ASSUME NEW c \in Calls, ReadEntries(c)
      PROVE  TablesOK' /\ CallsOK'
  <2>1. InLedger \in SUBSET Sales
    BY DEF InLedger
  <2>2. CallsOK'
    BY <1>2, <2>1 DEF ReadEntries, CallsOK, Stations
  <2> QED
    BY <1>2, <2>2 DEF ReadEntries, TablesOK, bounds
<1>3. ASSUME NEW c \in Calls, ReadSales(c)
      PROVE  TablesOK' /\ CallsOK'
  <2> DEFINE pending == approved \ seen[c]
  <2>1. CASE pending = {}
    BY <1>3, <2>1, GoesTyped, AfterLedgerTyped DEF ReadSales, TablesOK, bounds
  <2>2. CASE pending # {}
    <3>1. pending \in SUBSET Sales
      BY DEF TablesOK
    <3>2. CallsOK'
      BY <1>3, <2>2, <3>1 DEF ReadSales, CallsOK, Stations
    <3> QED
      BY <1>3, <3>2 DEF ReadSales, TablesOK, bounds
  <2> QED
    BY <2>1, <2>2
<1>4. ASSUME NEW c \in Calls, Count(c)
      PROVE  TablesOK' /\ CallsOK'
  <2>1. WeekCount(SoldBy[Sale(c)]) \in Counts
    BY WeekCountTyped DEF Counts
  <2>2. CallsOK'
    BY <1>4, <2>1 DEF Count, CallsOK
  <2> QED
    BY <1>4, <2>2 DEF Count, TablesOK, bounds
<1>5. ASSUME NEW c \in Calls, Create(c)
      PROVE  TablesOK' /\ CallsOK'
  <2>1. at[c] = "entry" /\ PriorCount(c) # Unknown
    BY <1>5 DEF Create
  <2>2. PriorCount(c) \in Nat /\ Sale(c) \in Sales
    BY <2>1, PriorTyped, SaleAtHand
  <2>3. CallsOK'
    BY <1>5, <2>1, PriorTyped, NextSaleTyped DEF Create
  <2>4. TablesOK'
    BY <1>5, <2>2 DEF Create, TablesOK, bounds, EntryStatuses
  <2> QED
    BY <2>3, <2>4
<1>6. ASSUME NEW c \in Calls, Duplicate(c) \/ Skip(c)
      PROVE  TablesOK' /\ CallsOK'
  <2>1. counters[c] \in [Promoters -> Counts]
    BY DEF CallsOK
  <2>2. CallsOK'
    BY <1>6, <2>1, NextSaleTyped DEF Duplicate, Skip, KeptCounters
  <2> QED
    BY <1>6, <2>2 DEF Duplicate, Skip, TablesOK, bounds
<1>7. ASSUME NEW c \in Calls, ReadOwed(c)
      PROVE  TablesOK' /\ CallsOK'
  <2>1. CASE WithStatus(Owed) = {}
    BY <1>7, <2>1, GoesTyped, AfterClawbackTyped DEF ReadOwed, TablesOK, bounds
  <2>2. CASE WithStatus(Owed) # {}
    <3>1. WithStatus(Owed) \in SUBSET Sales
      BY DEF WithStatus
    <3>2. CallsOK'
      BY <1>7, <2>2, <3>1 DEF ReadOwed, CallsOK, Stations
    <3> QED
      BY <1>7, <3>2 DEF ReadOwed, TablesOK, bounds
  <2> QED
    BY <2>1, <2>2
<1>8. ASSUME NEW c \in Calls, ReadCompleted(c)
      PROVE  TablesOK' /\ CallsOK'
  <2>1. CASE seen[c] \subseteq approved
    BY <1>8, <2>1, GoesTyped, AfterClawbackTyped DEF ReadCompleted, TablesOK, bounds
  <2>2. CASE ~(seen[c] \subseteq approved)
    <3>1. CallsOK'
      BY <1>8, <2>2 DEF ReadCompleted, CallsOK, Stations
    <3> QED
      BY <1>8, <3>1 DEF ReadCompleted, TablesOK, bounds
  <2> QED
    BY <2>1, <2>2
<1>9. ASSUME NEW c \in Calls, Clawback(c)
      PROVE  TablesOK' /\ CallsOK'
  <2>1. CallsOK'
    BY <1>9, GoesTyped, AfterClawbackTyped DEF Clawback
  <2>2. TablesOK'
    BY <1>9 DEF Clawback, TablesOK, bounds, EntryStatuses
  <2> QED
    BY <2>1, <2>2
<1>10. ASSUME NEW w \in Withdrawals, ReadAvailable(w)
       PROVE  TablesOK' /\ CallsOK'
  <2> DEFINE available == WithStatus({"AVAILABLE"}) \cap OfPromoter(WithdrawalOf[w])
  <2>0. w \in Calls
    BY DEF Calls
  <2>1. CASE available = {}
    BY <1>10, <2>0, <2>1, GoesTyped DEF ReadAvailable, TablesOK, bounds, Stations
  <2>2. CASE available # {}
    <3>1. available \in SUBSET Sales
      BY DEF WithStatus
    <3>2. CallsOK'
      BY <1>10, <2>0, <2>2, <3>1 DEF ReadAvailable, CallsOK, Stations
    <3> QED
      BY <1>10, <3>2 DEF ReadAvailable, TablesOK, bounds
  <2> QED
    BY <2>1, <2>2
<1>11. ASSUME NEW w \in Withdrawals, Claim(w)
       PROVE  TablesOK' /\ CallsOK'
  <2>0. w \in Calls
    BY DEF Calls
  <2>1. CallsOK'
    BY <1>11, <2>0, GoesTyped DEF Claim, Stations
  <2>2. seen[w] \in SUBSET Sales
    BY <2>0 DEF CallsOK
  <2>3. entry' \in [Sales -> [status : EntryStatuses, tier : Nat,
                            withdrawal : Withdrawals \cup {NoWithdrawal}]]
    <3>1. \/ entry' = entry
          \/ entry' = [s \in Sales |->
                         IF s \in {x \in seen[w] : entry[x].status = "AVAILABLE"}
                         THEN [entry[s] EXCEPT !.status = "WITHDRAWN", !.withdrawal = w]
                         ELSE entry[s]]
      BY <1>11 DEF Claim
    <3>2. ASSUME NEW s \in Sales
          PROVE  [entry[s] EXCEPT !.status = "WITHDRAWN", !.withdrawal = w]
                   \in [status : EntryStatuses, tier : Nat,
                       withdrawal : Withdrawals \cup {NoWithdrawal}]
      BY DEF TablesOK, EntryStatuses
    <3>3. entry \in [Sales -> [status : EntryStatuses, tier : Nat,
                             withdrawal : Withdrawals \cup {NoWithdrawal}]]
      BY DEF TablesOK
    <3> QED
      BY <3>1, <3>2, <3>3
  <2>4. withdrawal' \in [Withdrawals -> [status : {"none", "REQUESTED", "REPORTED"},
                                       gross : SUBSET Sales]]
    <3>1. \/ withdrawal' = withdrawal
          \/ withdrawal' = [withdrawal EXCEPT ![w] = [status |-> "REQUESTED", gross |-> seen[w]]]
      BY <1>11 DEF Claim
    <3> QED
      BY <2>2, <3>1 DEF TablesOK
  <2> QED
    BY <1>11, <2>1, <2>3, <2>4 DEF Claim, TablesOK, bounds
<1>12. ASSUME NEW c \in Calls, ReadPending(c)
       PROVE  TablesOK' /\ CallsOK'
  <2>1. CASE Pending = {}
    BY <1>12, <2>1, GoesTyped, OverTyped DEF ReadPending, TablesOK, bounds
  <2>2. CASE Pending # {}
    <3>1. Pending \in SUBSET Withdrawals
      BY DEF Pending
    <3>2. CallsOK'
      BY <1>12, <2>2, <3>1 DEF ReadPending, CallsOK, Stations
    <3> QED
      BY <1>12, <2>2, <3>1, <3>2 DEF ReadPending, TablesOK, bounds
  <2> QED
    BY <2>1, <2>2
<1>13. ASSUME NEW c \in Calls, Report(c)
       PROVE  TablesOK' /\ CallsOK'
  <2>1. CallsOK'
    BY <1>13, GoesTyped, OverTyped DEF Report
  <2>2. withdrawal' \in [Withdrawals -> [status : {"none", "REQUESTED", "REPORTED"},
                                       gross : SUBSET Sales]]
    BY <1>13 DEF Report, TablesOK
  <2>3. reported' \in [Withdrawals -> Nat]
    BY <1>13 DEF Report, TablesOK
  <2> QED
    BY <1>13, <2>1, <2>2, <2>3 DEF Report, TablesOK, bounds
<1>14. ASSUME NEW c \in Calls, Fails(c)
       PROVE  TablesOK' /\ CallsOK'
  BY <1>14, GoesTyped, OverTyped DEF Fails, TablesOK
<1>15. CASE UNCHANGED vars
  BY <1>15 DEF vars, callVars, bounds, TablesOK, CallsOK
<1> QED
  BY <1>1, <1>2, <1>3, <1>4, <1>5, <1>6, <1>7, <1>8, <1>9, <1>10, <1>11, <1>12, <1>13, <1>14,
     <1>15 DEF Next, Step

\* Every reachable state is well typed, for any sets of sales, promoters and calls.
THEOREM Typing == Spec => []TypeOK
BY TypeInit, TypeStep, PTL DEF Spec

-----------------------------------------------------------------------------
(* A step of a call leaves the other calls where they are.                  *)

Others(c) ==
  \A d \in Calls \ {c} :
    /\ at'[d] = at[d] /\ todo'[d] = todo[d] /\ prior'[d] = prior[d]
    /\ counters'[d] = counters[d] /\ seen'[d] = seen[d] /\ listed'[d] = listed[d]

\* What a call that goes somewhere is left with.
Forgets(c) ==
  /\ todo'[c] = {} /\ prior'[c] = Unknown /\ seen'[c] = {} /\ listed'[c] = {}
  /\ counters'[c] = [p \in Promoters |-> Unknown]

LEMMA GoesAlone ==
  ASSUME CallsOK, NEW c \in Calls, NEW next, Goes(c, next)
  PROVE  Others(c) /\ Forgets(c) /\ at'[c] = next
  BY DEF CallsOK, Goes, Others, Forgets

LEMMA NextSaleAlone ==
  ASSUME CallsOK, NEW c \in Calls, at[c] = "entry", NEW counted, NextSale(c, counted)
  PROVE  /\ Others(c) /\ at'[c] # "claim"
         /\ \/ Forgets(c) /\ at'[c] # "entry"
            \/ /\ prior'[c] = Unknown /\ counters'[c] = counted
               /\ at'[c] = "entry" /\ seen'[c] = seen[c] /\ listed'[c] = listed[c]
<1>1. CASE LastSale(c)
  BY <1>1, GoesAlone DEF NextSale, AfterLedger
<1>2. CASE ~LastSale(c)
  BY <1>2 DEF NextSale, CallsOK, Others
<1> QED
  BY <1>1, <1>2

\* No step of the ledger or of a report brings a call back, or to a claim.
LEMMA Moves ==
  ASSUME CallsOK, NEW c \in Calls, Step(c) \/ Skip(c) \/ Fails(c)
  PROVE  Others(c) /\ at[c] # "done" /\ at'[c] # "claim"
<1>1. CASE ReadEntries(c)
  BY <1>1 DEF ReadEntries, CallsOK, Others
<1>2. CASE ReadSales(c)
  <2>1. CASE \E next \in AfterLedger(c) : Goes(c, next)
    BY <1>2, <2>1, GoesAlone DEF ReadSales, AfterLedger
  <2>2. CASE ~ \E next \in AfterLedger(c) : Goes(c, next)
    BY <1>2, <2>2 DEF ReadSales, CallsOK, Others
  <2> QED
    BY <2>1, <2>2
<1>3. CASE Count(c)
  BY <1>3 DEF Count, CallsOK, Others
<1>4. CASE Create(c) \/ Duplicate(c) \/ Skip(c)
  BY <1>4, NextSaleAlone DEF Create, Duplicate, Skip
<1>5. CASE ReadOwed(c) \/ ReadCompleted(c)
  <2>1. CASE Goes(c, AfterClawback(c))
    BY <1>5, <2>1, GoesAlone DEF ReadOwed, ReadCompleted, AfterClawback
  <2>2. CASE ~Goes(c, AfterClawback(c))
    BY <1>5, <2>2 DEF ReadOwed, ReadCompleted, CallsOK, Others
  <2> QED
    BY <2>1, <2>2
<1>6. CASE Clawback(c)
  BY <1>6, GoesAlone DEF Clawback, AfterClawback
<1>7. CASE ReadPending(c)
  <2>1. CASE Goes(c, Over(c))
    BY <1>7, <2>1, GoesAlone DEF ReadPending, Over
  <2>2. CASE ~Goes(c, Over(c))
    BY <1>7, <2>2 DEF ReadPending, CallsOK, Others
  <2> QED
    BY <2>1, <2>2
<1>8. CASE Report(c) \/ Fails(c)
  BY <1>8, GoesAlone DEF Report, Fails, Over
<1> QED
  BY <1>1, <1>2, <1>3, <1>4, <1>5, <1>6, <1>7, <1>8 DEF Step

-----------------------------------------------------------------------------
(* Withdrawals.                                                             *)

\* The inductive invariant: an entry that may still be claimed points to no withdrawal, a
\* call makes one only when it ends, and claims entries of its promoter only.
ClaimInv ==
  /\ WithdrawalIsItsEntries
  /\ \A s \in Sales :
       entry[s].status \in {"none", "AVAILABLE"} => entry[s].withdrawal = NoWithdrawal
  /\ \A w \in Withdrawals :
       /\ at[w] # "done" => withdrawal[w].gross = {}
       /\ at[w] = "claim" => seen[w] \subseteq OfPromoter(WithdrawalOf[w])

LEMMA ClaimInit == Init => ClaimInv
  BY CashOutAssumption
  DEF Init, ClaimInv, WithdrawalIsItsEntries, Calls

\* Nothing happens to the entries' withdrawals, nor to the sums.
ClaimsKept ==
  /\ \A s \in Sales : /\ entry'[s].withdrawal = entry[s].withdrawal
                      /\ entry'[s].status \in {"none", "AVAILABLE"}
                           => entry[s].status \in {"none", "AVAILABLE"}
  /\ \A w \in Withdrawals :
       /\ withdrawal'[w].gross = withdrawal[w].gross
       /\ at'[w] # "done" => at[w] # "done"
       /\ at'[w] = "claim" => seen'[w] \subseteq OfPromoter(WithdrawalOf[w])

LEMMA ClaimKept == ASSUME ClaimInv, ClaimsKept PROVE ClaimInv'
<1>1. ASSUME NEW w \in Withdrawals
      PROVE  /\ withdrawal'[w].gross = {s \in Sales : entry'[s].withdrawal = w}
             /\ withdrawal'[w].gross \subseteq {s \in Sales : SoldBy[s] = WithdrawalOf[w]}
  <2>1. {s \in Sales : entry'[s].withdrawal = w} = {s \in Sales : entry[s].withdrawal = w}
    BY DEF ClaimsKept
  <2> QED
    BY <2>1 DEF ClaimsKept, ClaimInv, WithdrawalIsItsEntries, OfPromoter
<1>2. WithdrawalIsItsEntries'
  BY <1>1 DEF WithdrawalIsItsEntries, OfPromoter
<1>3. \A s \in Sales :
        entry'[s].status \in {"none", "AVAILABLE"} => entry'[s].withdrawal = NoWithdrawal
  BY DEF ClaimsKept, ClaimInv
<1>4. \A w \in Withdrawals :
        /\ at'[w] # "done" => withdrawal'[w].gross = {}
        /\ at'[w] = "claim" => seen'[w] \subseteq {s \in Sales : SoldBy[s] = WithdrawalOf[w]}
  BY DEF ClaimsKept, ClaimInv, OfPromoter
<1> QED
  BY <1>2, <1>3, <1>4 DEF ClaimInv, OfPromoter, NoWithdrawal

LEMMA ClaimStep == TypeOK /\ ClaimInv /\ [Next]_vars => ClaimInv'
<1> SUFFICES ASSUME TypeOK, ClaimInv, [Next]_vars PROVE ClaimInv'
  OBVIOUS
<1> USE TypeSplit
<1>0. Withdrawals \subseteq Calls
  BY DEF Calls
<1>1. CASE UNCHANGED vars \/ \E s \in Sales : Approve(s) \/ Drop(s)
  <2>1. entry' = entry /\ withdrawal' = withdrawal /\ at' = at /\ seen' = seen
    BY <1>1 DEF Approve, Drop, callVars, vars
  <2> QED
    BY <2>1, ClaimKept DEF ClaimsKept, ClaimInv
<1>2. ASSUME NEW c \in Calls, Step(c) \/ Skip(c) \/ Fails(c)
      PROVE  ClaimInv'
  <2>1. Others(c) /\ at[c] # "done" /\ at'[c] # "claim"
    BY <1>2, Moves
  <2>2. \A w \in Withdrawals : /\ at'[w] # "done" => at[w] # "done"
                               /\ at'[w] = "claim" => seen'[w] \subseteq OfPromoter(WithdrawalOf[w])
    BY <1>0, <2>1 DEF Others, ClaimInv
  <2>3. \A w \in Withdrawals : withdrawal'[w].gross = withdrawal[w].gross
    <3>1. \/ withdrawal' = withdrawal
          \/ Report(c)
      BY <1>2 DEF Step, Skip, Fails, ReadEntries, ReadSales, Count, Create, Duplicate, ReadOwed,
                  ReadCompleted, Clawback, ReadPending
    <3> QED
      BY <3>1 DEF Report, TablesOK
  <2>4. \A s \in Sales : /\ entry'[s].withdrawal = entry[s].withdrawal
                         /\ entry'[s].status \in {"none", "AVAILABLE"}
                              => entry[s].status \in {"none", "AVAILABLE"}
    <3>1. CASE Create(c)
      <4>1. at[c] = "entry" /\ entry[Sale(c)].status = "none"
        BY <3>1 DEF Create
      <4>2. Sale(c) \in Sales /\ entry[Sale(c)].withdrawal = NoWithdrawal
        BY <4>1, SaleAtHand DEF ClaimInv
      <4> QED
        BY <3>1, <4>1, <4>2 DEF Create, TablesOK
    <3>2. CASE Clawback(c)
      BY <3>2 DEF Clawback, TablesOK
    <3>3. CASE entry' = entry
      BY <3>3
    <3> QED
      BY <1>2, <3>1, <3>2, <3>3 DEF Step, Skip, Fails, ReadEntries, ReadSales, Count, Duplicate,
         ReadOwed, ReadCompleted, ReadPending, Report
  <2> QED
    BY <2>2, <2>3, <2>4, ClaimKept DEF ClaimsKept
<1>3. ASSUME NEW w \in Withdrawals, ReadAvailable(w)
      PROVE  ClaimInv'
  <2> DEFINE available == WithStatus({"AVAILABLE"}) \cap OfPromoter(WithdrawalOf[w])
  <2>1. entry' = entry /\ withdrawal' = withdrawal /\ at[w] # "done"
    BY <1>3 DEF ReadAvailable
  <2>2. Others(w) /\ (at'[w] = "claim" => seen'[w] = available)
    <3>1. CASE available = {}
      BY <1>0, <1>3, <3>1, GoesAlone DEF ReadAvailable
    <3>2. CASE available # {}
      BY <1>0, <1>3, <3>2 DEF ReadAvailable, CallsOK, Others
    <3> QED
      BY <3>1, <3>2
  <2>3. \A v \in Withdrawals : /\ at'[v] # "done" => at[v] # "done"
                               /\ at'[v] = "claim" => seen'[v] \subseteq OfPromoter(WithdrawalOf[v])
    BY <1>0, <2>1, <2>2 DEF Others, ClaimInv
  <2> QED
    BY <2>1, <2>3, ClaimKept DEF ClaimsKept
<1>4. ASSUME NEW w \in Withdrawals, Claim(w)
      PROVE  ClaimInv'
  <2> DEFINE claimed == {s \in seen[w] : entry[s].status = "AVAILABLE"}
  <2>1. Others(w) /\ at[w] = "claim" /\ at'[w] = "done"
    BY <1>0, <1>4, GoesAlone DEF Claim
  <2>2. \A v \in Withdrawals : /\ at'[v] # "done" => at[v] # "done" /\ v # w
                               /\ at'[v] = "claim" => seen'[v] \subseteq OfPromoter(WithdrawalOf[v])
    BY <1>0, <2>1 DEF Others, ClaimInv
  <2>3. CASE ~ClaimedAll(w, claimed)
    <3>1. entry' = entry /\ withdrawal' = withdrawal
      BY <1>4, <2>3 DEF Claim
    <3> QED
      BY <2>2, <3>1, ClaimKept DEF ClaimsKept
  <2>4. CASE ClaimedAll(w, claimed)
    <3>1. seen[w] \subseteq Sales /\ claimed = seen[w]
      BY <1>0, <2>4 DEF CallsOK, ClaimedAll
    <3>2. \A s \in Sales :
            /\ s \in seen[w] => entry'[s].withdrawal = w /\ entry'[s].status = "WITHDRAWN"
            /\ s \notin seen[w] => entry'[s] = entry[s]
      <4>1. entry' = [s \in Sales |->
                        IF s \in claimed
                        THEN [entry[s] EXCEPT !.status = "WITHDRAWN", !.withdrawal = w]
                        ELSE entry[s]]
        BY <1>4, <2>4 DEF Claim
      <4> HIDE DEF claimed
      <4>2. \A s \in Sales : entry[s] \in [status : EntryStatuses, tier : Nat,
                                         withdrawal : Withdrawals \cup {NoWithdrawal}]
        BY DEF TablesOK
      <4> QED
        BY <3>1, <4>1, <4>2
    <3>3. \A s \in seen[w] : entry[s].withdrawal = NoWithdrawal
      BY <3>1 DEF ClaimInv
    <3>4. withdrawal[w].gross = {} /\ seen[w] \subseteq OfPromoter(WithdrawalOf[w])
      BY <2>1 DEF ClaimInv
    <3>5. \A v \in Withdrawals : withdrawal'[v].gross = IF v = w THEN seen[w]
                                                        ELSE withdrawal[v].gross
      <4>1. withdrawal' = [withdrawal EXCEPT ![w] = [status |-> "REQUESTED", gross |-> seen[w]]]
        BY <1>4, <2>4 DEF Claim
      <4> QED
        BY <4>1 DEF TablesOK
    <3>6. \A v \in Withdrawals : withdrawal'[v].gross = {s \in Sales : entry'[s].withdrawal = v}
      <4>1. NoWithdrawal \notin Withdrawals
        BY CashOutAssumption
      <4>2. \A v \in Withdrawals : withdrawal[v].gross = {s \in Sales : entry[s].withdrawal = v}
        BY DEF ClaimInv, WithdrawalIsItsEntries
      <4>3. {s \in Sales : entry'[s].withdrawal = w} = seen[w]
        BY <3>1, <3>2, <3>4, <4>2
      <4>4. ASSUME NEW v \in Withdrawals \ {w}
            PROVE  {s \in Sales : entry'[s].withdrawal = v} = withdrawal[v].gross
        BY <3>1, <3>2, <3>3, <4>1, <4>2
      <4> QED
        BY <3>5, <4>3, <4>4
    <3>7. WithdrawalIsItsEntries'
      BY <3>4, <3>5, <3>6 DEF WithdrawalIsItsEntries, ClaimInv, OfPromoter
    <3>8. \A s \in Sales :
            entry'[s].status \in {"none", "AVAILABLE"} => entry'[s].withdrawal = NoWithdrawal
      BY <3>2 DEF ClaimInv
    <3>9. \A v \in Withdrawals : at'[v] # "done" => withdrawal'[v].gross = {}
      BY <2>2, <3>5 DEF ClaimInv
    <3>10. \A v \in Withdrawals :
             at'[v] = "claim" => seen'[v] \subseteq {s \in Sales : SoldBy[s] = WithdrawalOf[v]}
      BY <2>2 DEF OfPromoter
    <3> QED
      BY <3>7, <3>8, <3>9, <3>10 DEF ClaimInv, OfPromoter, NoWithdrawal
  <2> QED
    BY <2>3, <2>4
<1> QED
  BY <1>1, <1>2, <1>3, <1>4 DEF Next

\* A withdrawal is for the entries that point to it: none is summed twice.
THEOREM WithdrawnOnce == Spec => []WithdrawalIsItsEntries
<1>1. Init => TypeOK /\ ClaimInv
  BY TypeInit, ClaimInit
<1>2. TypeOK /\ ClaimInv /\ [Next]_vars => (TypeOK /\ ClaimInv)'
  BY TypeStep, ClaimStep
<1>3. TypeOK /\ ClaimInv => WithdrawalIsItsEntries
  BY DEF ClaimInv
<1> QED
  BY <1>1, <1>2, <1>3, PTL DEF Spec

-----------------------------------------------------------------------------
(* Reports.                                                                 *)

\* The inductive invariant: what has been reported is REPORTED, a withdrawal that is not
\* made yet is in no report, and one that was never shared is in the hands of one call while
\* it is REQUESTED, and of none afterwards.
ReportInv ==
  \A w \in Withdrawals :
    /\ at[w] # "done" => withdrawal[w].status = "none"
    /\ withdrawal[w].status = "none" => \A c \in Calls : w \notin listed[c]
    /\ withdrawal[w].status # "REPORTED" => reported[w] = 0
    /\ w \notin shared =>
         /\ reported[w] <= 1
         /\ \A c \in Calls : w \in listed[c] =>
              /\ withdrawal[w].status = "REQUESTED"
              /\ \A d \in Calls \ {c} : w \notin listed[d]

LEMMA ReportInit == Init => ReportInv
  BY DEF Init, ReportInv, Calls

\* A step that reads nothing and reports nothing.
ReportsKept ==
  /\ reported' = reported /\ shared' = shared
  /\ \A c \in Calls : listed'[c] \subseteq listed[c]
  /\ \A w \in Withdrawals :
       /\ withdrawal'[w].status = withdrawal[w].status
       /\ at'[w] # "done" => at[w] # "done"

LEMMA ReportKept == ASSUME ReportInv, ReportsKept PROVE ReportInv'
<1> SUFFICES ASSUME NEW w \in Withdrawals
             PROVE  /\ at'[w] # "done" => withdrawal'[w].status = "none"
                    /\ withdrawal'[w].status = "none" => \A c \in Calls : w \notin listed'[c]
                    /\ withdrawal'[w].status # "REPORTED" => reported'[w] = 0
                    /\ w \notin shared' =>
                         /\ reported'[w] <= 1
                         /\ \A c \in Calls : w \in listed'[c] =>
                              /\ withdrawal'[w].status = "REQUESTED"
                              /\ \A d \in Calls \ {c} : w \notin listed'[d]
  BY DEF ReportInv, Calls
<1>1. /\ reported'[w] = reported[w] /\ shared' = shared
      /\ withdrawal'[w].status = withdrawal[w].status
      /\ at'[w] # "done" => at[w] # "done"
      /\ \A c \in Calls : w \in listed'[c] => w \in listed[c]
  BY DEF ReportsKept
<1> QED
  BY <1>1 DEF ReportInv

LEMMA ReportStep == TypeOK /\ ReportInv /\ [Next]_vars => ReportInv'
<1> SUFFICES ASSUME TypeOK, ReportInv, [Next]_vars PROVE ReportInv'
  OBVIOUS
<1> USE TypeSplit
<1>0. Withdrawals \subseteq Calls
  BY DEF Calls
<1>1. CASE UNCHANGED vars \/ \E s \in Sales : Approve(s) \/ Drop(s)
  <2>1. /\ reported' = reported /\ shared' = shared /\ listed' = listed
        /\ withdrawal' = withdrawal /\ at' = at
    BY <1>1 DEF Approve, Drop, callVars, vars
  <2> QED
    BY <2>1, ReportKept DEF ReportsKept
<1>2. ASSUME NEW c \in Calls, Step(c) \/ Skip(c) \/ Fails(c)
      PROVE  ReportInv'
  <2>1. Others(c) /\ at[c] # "done"
    BY <1>2, Moves
  <2>2. \A w \in Withdrawals : at'[w] # "done" => at[w] # "done"
    BY <1>0, <2>1 DEF Others
  <2>3. CASE ReadPending(c)
    <3>1. reported' = reported /\ withdrawal' = withdrawal
      BY <2>3 DEF ReadPending
    <3>2. CASE Pending = {}
      <4>1. shared' = shared /\ listed'[c] = {}
        BY <2>3, <3>2, GoesAlone DEF ReadPending, Forgets
      <4> QED
        BY <2>1, <2>2, <3>1, <4>1, ReportKept DEF ReportsKept, Others
    <3>3. CASE Pending # {}
      <4>1. /\ listed'[c] = Pending
            /\ shared' = shared \cup (Pending \cap UNION {listed[d] : d \in Calls})
        BY <2>3, <3>3 DEF ReadPending, CallsOK
      <4> SUFFICES ASSUME NEW w \in Withdrawals
                   PROVE  /\ at'[w] # "done" => withdrawal'[w].status = "none"
                          /\ withdrawal'[w].status = "none" => \A d \in Calls : w \notin listed'[d]
                          /\ withdrawal'[w].status # "REPORTED" => reported'[w] = 0
                          /\ w \notin shared' =>
                               /\ reported'[w] <= 1
                               /\ \A d \in Calls : w \in listed'[d] =>
                                    /\ withdrawal'[w].status = "REQUESTED"
                                    /\ \A e \in Calls \ {d} : w \notin listed'[e]
        BY DEF ReportInv, Calls
      <4>2. \A d \in Calls \ {c} : listed'[d] = listed[d]
        BY <2>1 DEF Others
      <4>3. w \in Pending <=> withdrawal[w].status = "REQUESTED"
        BY DEF Pending
      <4>4. w \notin shared' => w \notin shared
        BY <4>1
      <4>5. w \in Pending /\ w \notin shared' => \A d \in Calls : w \notin listed[d]
        BY <4>1
      <4>6. at'[w] # "done" => withdrawal'[w].status = "none"
        BY <2>2, <3>1 DEF ReportInv
      <4>7. withdrawal'[w].status = "none" => \A d \in Calls : w \notin listed'[d]
        BY <3>1, <4>1, <4>2, <4>3 DEF ReportInv
      <4>8. withdrawal'[w].status # "REPORTED" => reported'[w] = 0
        BY <3>1 DEF ReportInv
      <4>9. w \notin shared' => reported'[w] <= 1
        BY <3>1, <4>4 DEF ReportInv
      <4>10. ASSUME w \notin shared', NEW d \in Calls, w \in listed'[d]
             PROVE  /\ withdrawal'[w].status = "REQUESTED"
                    /\ \A e \in Calls \ {d} : w \notin listed'[e]
        <5>1. CASE d = c
          BY <3>1, <4>1, <4>2, <4>3, <4>5, <4>10, <5>1
        <5>2. CASE d # c
          <6>1. w \in listed[d] /\ withdrawal[w].status = "REQUESTED"
            BY <4>2, <4>4, <4>10, <5>2 DEF ReportInv
          <6>2. w \notin listed[d]
            BY <4>3, <4>5, <4>10, <6>1
          <6> QED
            BY <6>1, <6>2
        <5> QED
          BY <5>1, <5>2
      <4> QED
        BY <4>6, <4>7, <4>8, <4>9, <4>10
    <3> QED
      BY <3>2, <3>3
  <2>4. CASE Report(c)
    <3>1. \A d \in Calls : listed'[d] = IF d = c THEN {} ELSE listed[d]
      <4>1. Goes(c, Over(c))
        BY <2>4 DEF Report
      <4>2. Others(c) /\ Forgets(c)
        BY <4>1, GoesAlone
      <4> QED
        BY <4>2 DEF Others, Forgets
    <3>2. shared' = shared
      BY <2>4 DEF Report
    <3>3. \A w \in Withdrawals :
            /\ reported'[w] = reported[w] + (IF w \in listed[c] THEN 1 ELSE 0)
            /\ withdrawal'[w].status = IF w \in listed[c] THEN "REPORTED"
                                       ELSE withdrawal[w].status
      BY <2>4 DEF Report, TablesOK
    <3> SUFFICES ASSUME NEW w \in Withdrawals
                 PROVE  /\ at'[w] # "done" => withdrawal'[w].status = "none"
                        /\ withdrawal'[w].status = "none" => \A d \in Calls : w \notin listed'[d]
                        /\ withdrawal'[w].status # "REPORTED" => reported'[w] = 0
                        /\ w \notin shared' =>
                             /\ reported'[w] <= 1
                             /\ \A d \in Calls : w \in listed'[d] =>
                                  /\ withdrawal'[w].status = "REQUESTED"
                                  /\ \A e \in Calls \ {d} : w \notin listed'[e]
      BY DEF ReportInv, Calls
    <3>4. CASE w \in listed[c]
      <4>1. at'[w] = "done"
        BY <2>2, <3>4 DEF ReportInv
      <4>2. withdrawal'[w].status = "REPORTED" /\ reported'[w] = reported[w] + 1
        BY <3>3, <3>4
      <4>3. w \notin shared => reported[w] = 0 /\ \A d \in Calls \ {c} : w \notin listed[d]
        BY <3>4 DEF ReportInv
      <4> QED
        BY <3>1, <3>2, <4>1, <4>2, <4>3
    <3>5. CASE w \notin listed[c]
      <4>1. withdrawal'[w].status = withdrawal[w].status /\ reported'[w] = reported[w]
        <5>1. reported[w] \in Nat
          BY DEF TablesOK
        <5> QED
          BY <3>3, <3>5, <5>1
      <4>2. \A d \in Calls : w \in listed'[d] <=> w \in listed[d]
        BY <3>1, <3>5
      <4> QED
        BY <2>2, <3>2, <4>1, <4>2 DEF ReportInv
    <3> QED
      BY <3>4, <3>5
  <2>5. CASE ~ReadPending(c) /\ ~Report(c)
    <3>1. reported' = reported /\ shared' = shared /\ withdrawal' = withdrawal
      BY <1>2, <2>5 DEF Step, Skip, Fails, ReadEntries, ReadSales, Count, Create, Duplicate,
         ReadOwed, ReadCompleted, Clawback
    <3>2. listed'[c] \subseteq listed[c]
      <4>1. CASE ReadEntries(c) \/ Count(c)
        BY <4>1 DEF ReadEntries, Count
      <4>2. CASE Create(c) \/ Duplicate(c) \/ Skip(c)
        BY <4>2, NextSaleAlone DEF Create, Duplicate, Skip, Forgets
      <4>3. CASE ReadSales(c) \/ ReadOwed(c) \/ ReadCompleted(c) \/ Clawback(c) \/ Fails(c)
        <5>1. listed' = listed \/ \E next : Goes(c, next)
          BY <4>3 DEF ReadSales, ReadOwed, ReadCompleted, Clawback, Fails
        <5> QED
          BY <5>1, GoesAlone DEF Forgets
      <4> QED
        BY <1>2, <2>5, <4>1, <4>2, <4>3 DEF Step
    <3> QED
      BY <2>1, <2>2, <3>1, <3>2, ReportKept DEF ReportsKept, Others
  <2> QED
    BY <2>3, <2>4, <2>5
<1>3. ASSUME NEW w \in Withdrawals, ReadAvailable(w)
      PROVE  ReportInv'
  <2>1. /\ reported' = reported /\ shared' = shared /\ withdrawal' = withdrawal
        /\ at[w] # "done"
    BY <1>3 DEF ReadAvailable
  <2>2. /\ \A c \in Calls : listed'[c] \subseteq listed[c]
        /\ \A v \in Withdrawals : at'[v] # "done" => at[v] # "done"
    <3>1. CASE Goes(w, "done")
      BY <1>0, <2>1, <3>1, GoesAlone DEF Others, Forgets
    <3>2. CASE ~Goes(w, "done")
      BY <1>0, <1>3, <2>1, <3>2 DEF ReadAvailable, CallsOK
    <3> QED
      BY <3>1, <3>2
  <2> QED
    BY <2>1, <2>2, ReportKept DEF ReportsKept
<1>4. ASSUME NEW w \in Withdrawals, Claim(w)
      PROVE  ReportInv'
  <2>1. /\ reported' = reported /\ shared' = shared
        /\ at[w] = "claim" /\ at'[w] = "done" /\ Others(w) /\ listed'[w] = {}
    BY <1>0, <1>4, GoesAlone DEF Claim, Forgets
  <2>2. /\ \A c \in Calls : listed'[c] \subseteq listed[c]
        /\ \A v \in Withdrawals : at'[v] # "done" => at[v] # "done"
    BY <1>0, <2>1 DEF Others
  <2>3. \A v \in Withdrawals \ {w} : withdrawal'[v] = withdrawal[v]
    BY <1>4 DEF Claim, TablesOK
  <2>4. withdrawal'[w].status \in {"none", "REQUESTED"} /\ withdrawal[w].status = "none"
    <3>1. withdrawal[w].status = "none"
      BY <2>1 DEF ReportInv
    <3>2. \/ withdrawal' = withdrawal
          \/ withdrawal' = [withdrawal EXCEPT ![w] = [status |-> "REQUESTED", gross |-> seen[w]]]
      BY <1>4 DEF Claim
    <3> QED
      BY <3>1, <3>2 DEF TablesOK
  <2>5. reported[w] = 0 /\ \A c \in Calls : w \notin listed[c]
    BY <2>4 DEF ReportInv
  <2> SUFFICES ASSUME NEW v \in Withdrawals
               PROVE  /\ at'[v] # "done" => withdrawal'[v].status = "none"
                      /\ withdrawal'[v].status = "none" => \A d \in Calls : v \notin listed'[d]
                      /\ withdrawal'[v].status # "REPORTED" => reported'[v] = 0
                      /\ v \notin shared' =>
                           /\ reported'[v] <= 1
                           /\ \A d \in Calls : v \in listed'[d] =>
                                /\ withdrawal'[v].status = "REQUESTED"
                                /\ \A e \in Calls \ {d} : v \notin listed'[e]
    BY DEF ReportInv, Calls
  <2>6. CASE v = w
    BY <2>1, <2>2, <2>5, <2>6
  <2>7. CASE v # w
    <3>1. withdrawal'[v] = withdrawal[v] /\ reported'[v] = reported[v] /\ shared' = shared
      BY <2>1, <2>3, <2>7
    <3>2. \A d \in Calls : v \in listed'[d] => v \in listed[d]
      BY <2>2
    <3> QED
      BY <2>2, <3>1, <3>2 DEF ReportInv
  <2> QED
    BY <2>6, <2>7
<1> QED
  BY <1>1, <1>2, <1>3, <1>4 DEF Next

\* A withdrawal is in one report at most, unless two reports had it in hand at once.
THEOREM OneReport == Spec => []ReportedOnce
<1>1. Init => TypeOK /\ ReportInv
  BY TypeInit, ReportInit
<1>2. TypeOK /\ ReportInv /\ [Next]_vars => (TypeOK /\ ReportInv)'
  BY TypeStep, ReportStep
<1>3. TypeOK /\ ReportInv => ReportedOnce
  BY DEF ReportInv, ReportedOnce
<1> QED
  BY <1>1, <1>2, <1>3, PTL DEF Spec

-----------------------------------------------------------------------------
(* Tiers.                                                                   *)

\* How many sales a promoter has brought to the ledger.
Earned(p) == Cardinality(InLedger \cap OfPromoter(p))

\* The inductive invariant: no tier, no counter and no count that was read is beyond the
\* entries of its promoter.
TierInv ==
  /\ \A s \in Sales : entry[s].tier <= Earned(SoldBy[s])
  /\ \A c \in Calls : \A p \in Promoters : counters[c][p] <= Earned(p)
  /\ \A c \in Calls :
       IF at[c] = "entry" THEN prior[c] <= Earned(SoldBy[Sale(c)]) ELSE prior[c] = Unknown

LEMMA EarnedTyped ==
  ASSUME NEW p
  PROVE  /\ Earned(p) \in Nat /\ IsFiniteSet(InLedger \cap OfPromoter(p))
         /\ Earned(p)' \in Nat /\ IsFiniteSet(InLedger' \cap OfPromoter(p))
<1>1. /\ InLedger \cap OfPromoter(p) \in SUBSET Sales
      /\ InLedger' \cap OfPromoter(p) \in SUBSET Sales
  BY DEF InLedger
<1>2. /\ IsFiniteSet(InLedger \cap OfPromoter(p))
      /\ IsFiniteSet(InLedger' \cap OfPromoter(p))
  BY <1>1, CashOutAssumption, FS_Subset
<1> QED
  BY <1>2, FS_CardinalityType DEF Earned, OfPromoter

\* The ledger only grows, and a promoter's entries with it.
LEMMA EarnedGrows ==
  ASSUME \A s \in Sales : entry'[s].status = "none" => entry[s].status = "none",
         NEW p
  PROVE  Earned(p) <= Earned(p)'
<1>1. InLedger \cap OfPromoter(p) \subseteq InLedger' \cap OfPromoter(p)
  BY DEF InLedger
<1> QED
  BY <1>1, EarnedTyped, FS_Subset DEF Earned, OfPromoter

LEMMA SaleKept == ASSUME NEW c, todo'[c] = todo[c] PROVE Sale(c)' = Sale(c)
  BY DEF Sale

LEMMA TierInit == Init => TierInv
<1> SUFFICES ASSUME Init PROVE TierInv
  OBVIOUS
<1>1. \A p : Earned(p) \in Nat
  BY EarnedTyped
<1> QED
  BY <1>1, CashOutAssumption DEF Init, TierInv, Unknown

\* No tier is given, and no count read or kept that was not there.
TiersKept ==
  /\ \A s \in Sales :
       /\ entry'[s].tier = entry[s].tier
       /\ entry'[s].status = "none" => entry[s].status = "none"
  /\ \A c \in Calls :
       /\ counters'[c] = counters[c] \/ counters'[c] = [p \in Promoters |-> Unknown]
       /\ \/ prior'[c] = Unknown
          \/ prior'[c] = prior[c] /\ at[c] # "entry"
          \/ prior'[c] = prior[c] /\ at'[c] = at[c] /\ todo'[c] = todo[c]

LEMMA TierKept == ASSUME TypeOK, TypeOK', TierInv, TiersKept PROVE TierInv'
<1> USE TypeSplit
<1>0. CallsOK /\ CallsOK' /\ TablesOK
  BY DEF TypeOK, TablesOK, CallsOK, Stations, Counts
<1>1. \A p : Earned(p) \in Nat /\ Earned(p)' \in Nat /\ Earned(p) <= Earned(p)'
  BY EarnedTyped, EarnedGrows DEF TiersKept
<1>2. ASSUME NEW s \in Sales
      PROVE  entry'[s].tier <= Earned(SoldBy[s])'
  <2>1. entry[s].tier \in Nat /\ entry'[s].tier = entry[s].tier /\ entry[s].tier <= Earned(SoldBy[s])
    BY <1>0 DEF TablesOK, TiersKept, TierInv
  <2> QED
    BY <1>1, <2>1
<1>3. ASSUME NEW c \in Calls, NEW p \in Promoters
      PROVE  counters'[c][p] <= Earned(p)'
  <2>1. counters[c][p] \in Counts /\ counters[c][p] <= Earned(p)
    BY <1>0 DEF CallsOK, TierInv
  <2>2. counters'[c][p] = counters[c][p] \/ counters'[c][p] = Unknown
    BY DEF TiersKept
  <2> QED
    BY <1>1, <2>1, <2>2 DEF Counts, Unknown
<1>4. ASSUME NEW c \in Calls
      PROVE  IF at'[c] = "entry" THEN prior'[c] <= Earned(SoldBy[Sale(c)])'
             ELSE prior'[c] = Unknown
  <2>1. CASE prior'[c] = Unknown
    BY <1>1, <2>1 DEF Unknown
  <2>2. CASE prior'[c] # Unknown
    <3>1. /\ prior'[c] = prior[c] /\ at'[c] = at[c] /\ todo'[c] = todo[c]
          /\ at[c] = "entry" /\ prior[c] <= Earned(SoldBy[Sale(c)])
      BY <2>2 DEF TiersKept, TierInv
    <3>2. Sale(c)' = Sale(c)
      BY <3>1, SaleKept
    <3>3. prior[c] \in Counts
      BY <1>0 DEF CallsOK
    <3>4. Earned(SoldBy[Sale(c)])' = Cardinality(InLedger' \cap OfPromoter(SoldBy[Sale(c)]))
      BY <3>2 DEF Earned, OfPromoter
    <3>5. Earned(SoldBy[Sale(c)]) <= Cardinality(InLedger' \cap OfPromoter(SoldBy[Sale(c)]))
      <4> DEFINE p == SoldBy[Sale(c)]
      <4>1. InLedger \cap OfPromoter(p) \subseteq InLedger' \cap OfPromoter(p)
        BY DEF InLedger, TiersKept
      <4>2. IsFiniteSet(InLedger' \cap OfPromoter(p))
        BY EarnedTyped
      <4> QED
        BY <4>1, <4>2, FS_Subset DEF Earned
    <3>6. Earned(SoldBy[Sale(c)]) \in Nat
      BY EarnedTyped
    <3>7. Cardinality(InLedger' \cap OfPromoter(SoldBy[Sale(c)])) \in Nat
      BY EarnedTyped, FS_CardinalityType
    <3> QED
      BY <3>1, <3>3, <3>4, <3>5, <3>6, <3>7 DEF Counts, Unknown
  <2> QED
    BY <2>1, <2>2
<1> QED
  BY <1>2, <1>3, <1>4 DEF TierInv

\* The new entry is one more than its promoter had, and so are its tier and the counter.
LEMMA TierCreate ==
  ASSUME TypeOK, TypeOK', TierInv, NEW c \in Calls, Create(c)
  PROVE  TierInv'
<1> USE TypeSplit
<1>0. CallsOK /\ CallsOK' /\ TablesOK
  BY DEF TypeOK, TablesOK, CallsOK, Stations, Counts
<1>a. PICK x : x = Sale(c)
  OBVIOUS
<1>b. PICK q : q = SoldBy[x]
  OBVIOUS
<1>c. PICK n : n = PriorCount(c)
  OBVIOUS
<1>1. at[c] = "entry" /\ n # Unknown /\ entry[x].status = "none"
  BY <1>a, <1>c DEF Create
<1>2. x \in Sales /\ q \in Promoters /\ n \in Nat
  BY <1>0, <1>a, <1>b, <1>c, <1>1, SaleAtHand, PriorTyped, CashOutAssumption
<1>3. n <= Earned(q)
  <2>1. counters[c][q] <= Earned(q) /\ prior[c] <= Earned(q)
    BY <1>a, <1>b, <1>1, <1>2 DEF TierInv
  <2> QED
    BY <1>a, <1>b, <1>c, <2>1 DEF PriorCount, Counter
<1>4. \A s \in Sales :
        /\ entry'[s].tier = IF s = x THEN n + 1 ELSE entry[s].tier
        /\ entry'[s].status = IF s = x THEN "AVAILABLE" ELSE entry[s].status
  BY <1>0, <1>2, <1>a, <1>c DEF Create, TablesOK
<1>5. \A s \in Sales : entry'[s].status = "none" => entry[s].status = "none"
  BY <1>4
<1>6. Earned(q)' = Earned(q) + 1
  <2>1. InLedger' \cap OfPromoter(q) = (InLedger \cap OfPromoter(q)) \cup {x}
    BY <1>2, <1>4, <1>b DEF InLedger, OfPromoter
  <2>2. x \notin InLedger \cap OfPromoter(q)
    BY <1>1 DEF InLedger
  <2>3. Earned(q)' = Cardinality(InLedger' \cap OfPromoter(q))
    BY DEF Earned, OfPromoter
  <2>4. IsFiniteSet(InLedger \cap OfPromoter(q))
    BY EarnedTyped
  <2> QED
    BY <2>1, <2>2, <2>3, <2>4, FS_AddElement DEF Earned
<1>7. \A p : Earned(p) \in Nat /\ Earned(p)' \in Nat /\ Earned(p) <= Earned(p)'
  BY <1>5, EarnedTyped, EarnedGrows
<1>8. ASSUME NEW s \in Sales
      PROVE  entry'[s].tier <= Earned(SoldBy[s])'
  <2>1. CASE s = x
    BY <1>2, <1>3, <1>4, <1>6, <1>7, <1>b, <2>1
  <2>2. CASE s # x
    <3>1. entry'[s].tier = entry[s].tier /\ entry[s].tier \in Nat
      BY <1>0, <1>4, <2>2 DEF TablesOK
    <3>2. entry[s].tier <= Earned(SoldBy[s])
      BY DEF TierInv
    <3> QED
      BY <1>7, <3>1, <3>2
  <2> QED
    BY <2>1, <2>2
<1>9. /\ Others(c)
      /\ \/ Forgets(c) /\ at'[c] # "entry"
         \/ /\ prior'[c] = Unknown /\ counters'[c] = [counters[c] EXCEPT ![q] = n + 1]
            /\ at'[c] = "entry"
  BY <1>0, <1>1, <1>a, <1>b, <1>c, NextSaleAlone DEF Create
<1>10. ASSUME NEW d \in Calls, NEW p \in Promoters
       PROVE  counters'[d][p] <= Earned(p)'
  <2>1. counters[d][p] \in Counts /\ counters[d][p] <= Earned(p)
    BY <1>0 DEF CallsOK, TierInv
  <2>2. counters[c] \in [Promoters -> Counts]
    BY <1>0 DEF CallsOK
  <2>3. \/ counters'[d][p] = counters[d][p] \/ counters'[d][p] = Unknown
        \/ counters'[d][p] = n + 1 /\ p = q
    BY <1>2, <1>9, <2>2 DEF Others, Forgets
  <2> QED
    BY <1>2, <1>3, <1>6, <1>7, <2>1, <2>3 DEF Counts, Unknown
<1>11. ASSUME NEW d \in Calls
       PROVE  IF at'[d] = "entry" THEN prior'[d] <= Earned(SoldBy[Sale(d)])'
              ELSE prior'[d] = Unknown
  <2>1. CASE d = c
    <3>1. Earned(SoldBy[Sale(c)])' \in Nat
      BY EarnedTyped
    <3> QED
      BY <1>9, <2>1, <3>1 DEF Forgets, Unknown
  <2>2. CASE d # c
    <3>1. /\ at'[d] = at[d] /\ prior'[d] = prior[d] /\ todo'[d] = todo[d]
          /\ IF at[d] = "entry" THEN prior[d] <= Earned(SoldBy[Sale(d)]) ELSE prior[d] = Unknown
          /\ prior[d] \in Counts
      BY <1>0, <1>9, <2>2 DEF Others, TierInv, CallsOK
    <3>2. Sale(d)' = Sale(d)
      BY <3>1, SaleKept
    <3>3. PICK p : p = SoldBy[Sale(d)]
      OBVIOUS
    <3>4. Earned(SoldBy[Sale(d)])' = Earned(p)'
      BY <3>2, <3>3 DEF Earned, OfPromoter
    <3> QED
      BY <1>7, <3>1, <3>3, <3>4 DEF Counts, Unknown
  <2> QED
    BY <2>1, <2>2
<1> QED
  BY <1>8, <1>10, <1>11 DEF TierInv

\* What is counted is part of what the promoter has.
LEMMA TierCount ==
  ASSUME TypeOK, TypeOK', TierInv, NEW c \in Calls, Count(c)
  PROVE  TierInv'
<1> USE TypeSplit
<1>0. CallsOK /\ CallsOK'
  BY DEF TypeOK, TablesOK, CallsOK, Stations, Counts
<1>1. /\ entry' = entry /\ counters' = counters /\ at' = at /\ todo' = todo
      /\ at[c] = "entry"
      /\ prior'[c] = WeekCount(SoldBy[Sale(c)])
      /\ \A d \in Calls \ {c} : prior'[d] = prior[d]
  BY <1>0 DEF Count, CallsOK
<1>2. ASSUME NEW p
      PROVE  WeekCount(p) <= Earned(p)
  BY EarnedTyped, FS_Subset DEF WeekCount, Earned
<1>3. \A p : Earned(p)' = Earned(p)
  BY <1>1 DEF Earned, InLedger, OfPromoter
<1>4. \A d \in Calls : Sale(d)' = Sale(d)
  BY <1>1, SaleKept
<1>5. \A d \in Calls : Earned(SoldBy[Sale(d)])' = Earned(SoldBy[Sale(d)])
  BY <1>1, <1>4 DEF Earned, InLedger, OfPromoter
<1>6. \A d \in Calls :
        IF at'[d] = "entry" THEN prior'[d] <= Earned(SoldBy[Sale(d)])' ELSE prior'[d] = Unknown
  BY <1>1, <1>2, <1>5 DEF TierInv
<1>7. \A s \in Sales : entry'[s].tier <= Earned(SoldBy[s])'
  BY <1>1, <1>3 DEF TierInv
<1>8. \A d \in Calls : \A p \in Promoters : counters'[d][p] <= Earned(p)'
  BY <1>1, <1>3 DEF TierInv
<1> QED
  BY <1>6, <1>7, <1>8 DEF TierInv

LEMMA TierStep == TypeOK /\ TypeOK' /\ TierInv /\ [Next]_vars => TierInv'
<1> SUFFICES ASSUME TypeOK, TypeOK', TierInv, [Next]_vars PROVE TierInv'
  OBVIOUS
<1> USE TypeSplit
<1>0. CallsOK /\ TablesOK /\ Withdrawals \subseteq Calls
  BY DEF Calls, TypeOK, TablesOK, CallsOK, Stations, Counts
<1>1. CASE UNCHANGED vars \/ \E s \in Sales : Approve(s) \/ Drop(s)
  <2>1. entry' = entry /\ counters' = counters /\ prior' = prior /\ at' = at /\ todo' = todo
    BY <1>1 DEF Approve, Drop, callVars, vars
  <2> QED
    BY <2>1, TierKept DEF TiersKept
<1>2. ASSUME NEW c \in Calls, Step(c) \/ Skip(c) \/ Fails(c)
      PROVE  TierInv'
  <2>1. CASE Create(c)
    BY <2>1, TierCreate
  <2>2. CASE Count(c)
    BY <2>2, TierCount
  <2>3. CASE ~Create(c) /\ ~Count(c)
    <3>1. Others(c)
      BY <1>0, <1>2, Moves
    <3>2. \A s \in Sales :
            /\ entry'[s].tier = entry[s].tier
            /\ entry'[s].status = "none" => entry[s].status = "none"
      <4>1. entry' = entry \/ Clawback(c)
        BY <1>2, <2>3 DEF Step, Skip, Fails, ReadEntries, ReadSales, Duplicate, ReadOwed,
           ReadCompleted, ReadPending, Report
      <4> QED
        BY <1>0, <4>1 DEF Clawback, TablesOK
    <3>3. /\ counters'[c] = counters[c] \/ counters'[c] = [p \in Promoters |-> Unknown]
          /\ prior'[c] = Unknown \/ (prior'[c] = prior[c] /\ at[c] # "entry")
      <4>1. CASE Duplicate(c) \/ Skip(c)
        <5>1. at[c] = "entry" /\ NextSale(c, counters[c])
          BY <4>1 DEF Duplicate, Skip, KeptCounters
        <5>2. Forgets(c) \/ (prior'[c] = Unknown /\ counters'[c] = counters[c])
          BY <1>0, <5>1, NextSaleAlone
        <5> QED
          BY <5>2 DEF Forgets
      <4>2. CASE ReadEntries(c)
        BY <4>2 DEF ReadEntries
      <4>3. CASE ReadSales(c) \/ ReadOwed(c) \/ ReadCompleted(c) \/ Clawback(c) \/ ReadPending(c)
                 \/ Report(c) \/ Fails(c)
        <5>1. \/ \E next : Goes(c, next)
              \/ counters' = counters /\ prior' = prior /\ at[c] # "entry"
          BY <4>3 DEF ReadSales, ReadOwed, ReadCompleted, Clawback, ReadPending, Report, Fails
        <5>2. ASSUME NEW next, Goes(c, next)
              PROVE  Forgets(c)
          BY <1>0, <5>2, GoesAlone
        <5> QED
          BY <5>1, <5>2 DEF Forgets
      <4> QED
        BY <1>2, <2>3, <4>1, <4>2, <4>3 DEF Step
    <3>4. TiersKept
      BY <3>1, <3>2, <3>3 DEF TiersKept, Others
    <3> QED
      BY <3>4, TierKept
  <2> QED
    BY <2>1, <2>2, <2>3
<1>3. ASSUME NEW w \in Withdrawals, ReadAvailable(w) \/ Claim(w)
      PROVE  TierInv'
  <2>1. \A s \in Sales :
          /\ entry'[s].tier = entry[s].tier
          /\ entry'[s].status = "none" => entry[s].status = "none"
    <3>1. \/ entry' = entry
          \/ entry' = [s \in Sales |->
                         IF s \in {y \in seen[w] : entry[y].status = "AVAILABLE"}
                         THEN [entry[s] EXCEPT !.status = "WITHDRAWN", !.withdrawal = w]
                         ELSE entry[s]]
      BY <1>3 DEF ReadAvailable, Claim
    <3>2. \A s \in Sales : entry[s] \in [status : EntryStatuses, tier : Nat,
                                       withdrawal : Withdrawals \cup {NoWithdrawal}]
      BY <1>0 DEF TablesOK
    <3>3. ASSUME NEW s \in Sales, entry'[s] # entry[s]
          PROVE  entry'[s] = [entry[s] EXCEPT !.status = "WITHDRAWN", !.withdrawal = w]
      BY <3>1, <3>3
    <3> QED
      BY <3>2, <3>3
  <2>2. /\ Others(w)
        /\ counters'[w] = counters[w] \/ counters'[w] = [p \in Promoters |-> Unknown]
        /\ prior'[w] = Unknown \/ (prior'[w] = prior[w] /\ at[w] # "entry")
    <3>1. CASE Goes(w, "done")
      <4>1. Others(w) /\ Forgets(w)
        BY <1>0, <3>1, GoesAlone
      <4> QED
        BY <4>1 DEF Forgets
    <3>2. CASE ~Goes(w, "done")
      BY <1>0, <1>3, <3>2 DEF ReadAvailable, Claim, CallsOK, Others
    <3> QED
      BY <3>1, <3>2
  <2>3. TiersKept
    BY <2>1, <2>2 DEF TiersKept, Others
  <2> QED
    BY <2>3, TierKept
<1> QED
  BY <1>1, <1>2, <1>3 DEF Next

\* No sale has a tier beyond the number of sales its promoter brought to the ledger.
THEOREM TiersAreEarned == Spec => []TierIsEarned
<1>1. Init => TypeOK /\ TierInv
  BY TypeInit, TierInit
<1>2. TypeOK /\ TierInv /\ [Next]_vars => (TypeOK /\ TierInv)'
  BY TypeStep, TierStep
<1>3. TypeOK /\ TierInv => TierIsEarned
  BY DEF TierInv, TierIsEarned, Earned
<1> QED
  BY <1>1, <1>2, <1>3, PTL DEF Spec
=============================================================================
