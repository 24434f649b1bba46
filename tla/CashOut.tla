------------------------------- MODULE CashOut -------------------------------
(***************************************************************************)
(* The commissions of promoters: a ledger with an entry for every approved *)
(* sale, the withdrawals that promoters make from it, and the reports from *)
(* which the withdrawals are paid.                                         *)
(*                                                                         *)
(* Three kinds of calls and a daily job interleave at every query.  Only   *)
(* the withdrawal compares before it writes.  Only the sales of active     *)
(* days that were not entered by hand are here, and one week of them.      *)
(***************************************************************************)
EXTENDS Integers, FiniteSets

CONSTANTS
  Sales,         \* sale verifications of one venue
  CreatedAt,     \* when each was made
  Promoters,
  SoldBy,        \* the promoter of each sale
  Jobs,          \* the settlement job of each server process
  Balances,      \* reads of the balances
  Withdrawals,   \* withdrawal calls, and the withdrawal that each one makes
  WithdrawalOf,  \* the promoter of each
  Reports,       \* dispersion reports asked for by hand
  MaxEdits,      \* bound on the changes of sales
  MaxFaults      \* bound on the failures

Calls == Jobs \cup Balances \cup Withdrawals \cup Reports

NoWithdrawal == "none"

ASSUME CashOutAssumption ==
  /\ SoldBy \in [Sales -> Promoters] /\ WithdrawalOf \in [Withdrawals -> Promoters]
  /\ CreatedAt \in [Sales -> Nat] /\ IsFiniteSet(Sales)
  /\ NoWithdrawal \notin Withdrawals
  /\ Jobs \cap (Balances \cup Withdrawals \cup Reports) = {}
  /\ Balances \cap (Withdrawals \cup Reports) = {} /\ Withdrawals \cap Reports = {}
  /\ MaxEdits \in Nat /\ MaxFaults \in Nat

VARIABLES
  approved,    \* sales that are COMPLETED
  entry,       \* PromoterCommissionEntry of each sale
  withdrawal,  \* CashOutWithdrawal of each call that made one
  at,          \* where each call stands
  todo,        \* the sales it has still to bring to the ledger
  prior,       \* the count it read for the next of them
  counters,    \* the counts it keeps, by promoter
  seen,        \* the sales whose entries it read
  listed,      \* the withdrawals it read
  reported,    \* how many reports each withdrawal has been in
  shared,      \* withdrawals that two reports had in hand at the same time
  edits, faults

callVars == <<at, todo, prior, counters, seen, listed>>
bounds == <<edits, faults>>
vars == <<approved, entry, withdrawal, callVars, reported, shared, bounds>>

-----------------------------------------------------------------------------
EntryStatuses == {"none", "AVAILABLE", "WITHDRAWN", "CLAWED_BACK"}

\* No count has been read: the code's undefined.
Unknown == -1

InLedger == {s \in Sales : entry[s].status # "none"}
OfPromoter(p) == {s \in Sales : SoldBy[s] = p}
WithStatus(statuses) == {s \in Sales : entry[s].status \in statuses}

Init ==
  /\ approved \in SUBSET Sales
  /\ entry = [s \in Sales |-> [status |-> "none", tier |-> 0, withdrawal |-> NoWithdrawal]]
  /\ withdrawal = [w \in Withdrawals |-> [status |-> "none", gross |-> {}]]
  /\ at = [c \in Calls |-> "start"]
  /\ todo = [c \in Calls |-> {}]
  /\ prior = [c \in Calls |-> Unknown]
  /\ counters = [c \in Calls |-> [p \in Promoters |-> Unknown]]
  /\ seen = [c \in Calls |-> {}]
  /\ listed = [c \in Calls |-> {}]
  /\ reported = [w \in Withdrawals |-> 0]
  /\ shared = {}
  /\ edits = 0 /\ faults = 0

-----------------------------------------------------------------------------
(* The sales.  They are reviewed, reopened and edited by others.            *)

Approve(s) ==
  /\ s \notin approved /\ edits < MaxEdits
  /\ approved' = approved \cup {s}
  /\ edits' = edits + 1
  /\ UNCHANGED <<entry, withdrawal, callVars, reported, shared, faults>>

Drop(s) ==
  /\ s \in approved /\ edits < MaxEdits
  /\ approved' = approved \ {s}
  /\ edits' = edits + 1
  /\ UNCHANGED <<entry, withdrawal, callVars, reported, shared, faults>>

-----------------------------------------------------------------------------
(* Where a call goes after each of its parts.  What it read is forgotten.   *)

\* A job comes back the next day.
Over(c) == IF c \in Jobs THEN "start" ELSE "done"

Goes(c, next) ==
  /\ at' = [at EXCEPT ![c] = next]
  /\ todo' = [todo EXCEPT ![c] = {}]
  /\ prior' = [prior EXCEPT ![c] = Unknown]
  /\ counters' = [counters EXCEPT ![c] = [p \in Promoters |-> Unknown]]
  /\ seen' = [seen EXCEPT ![c] = {}]
  /\ listed' = [listed EXCEPT ![c] = {}]

\* Withdrawals do not claw back.
AfterLedger(c) ==
  IF c \in Withdrawals THEN {"withdraw"}
  ELSE IF c \in Balances THEN {"owed", "done"} ELSE {"owed"}

AfterClawback(c) == IF c \in Jobs THEN "list" ELSE "done"

-----------------------------------------------------------------------------
(* materializeEntries                                                       *)

\* The sales that have an entry.
ReadEntries(c) ==
  /\ at[c] = "start" /\ c \notin Reports
  /\ at' = [at EXCEPT ![c] = "sales"]
  /\ seen' = [seen EXCEPT ![c] = InLedger]
  /\ UNCHANGED <<approved, entry, withdrawal, todo, prior, counters, listed, reported, shared,
                 bounds>>

\* The approved sales that have none.
ReadSales(c) ==
  LET pending == approved \ seen[c] IN
  /\ at[c] = "sales"
  /\ IF pending = {} THEN \E next \in AfterLedger(c) : Goes(c, next)
     ELSE /\ at' = [at EXCEPT ![c] = "entry"]
          /\ todo' = [todo EXCEPT ![c] = pending]
          /\ seen' = [seen EXCEPT ![c] = {}]
          /\ UNCHANGED <<prior, counters, listed>>
  /\ UNCHANGED <<approved, entry, withdrawal, reported, shared, bounds>>

\* The sale at hand, the oldest, and how many its promoter is taken to have had before it.
Sale(c) == CHOOSE s \in todo[c] : \A t \in todo[c] : CreatedAt[s] <= CreatedAt[t]
Counter(c) == counters[c][SoldBy[Sale(c)]]
PriorCount(c) == IF Counter(c) # Unknown THEN Counter(c) ELSE prior[c]

\* Entries of the promoter's week that have not been clawed back.
WeekCount(p) == Cardinality((InLedger \cap OfPromoter(p)) \ WithStatus({"CLAWED_BACK"}))

Count(c) ==
  /\ at[c] = "entry" /\ PriorCount(c) = Unknown
  /\ prior' = [prior EXCEPT ![c] = WeekCount(SoldBy[Sale(c)])]
  /\ UNCHANGED <<approved, entry, withdrawal, at, todo, counters, seen, listed, reported, shared,
                 bounds>>

\* Variant: one turn too many.
LastSaleLate(c) == todo[c] = {}

LastSale(c) == todo[c] = {Sale(c)}

\* On to the next sale, with these counters.
NextSale(c, counted) ==
  IF LastSale(c) THEN \E next \in AfterLedger(c) : Goes(c, next)
  ELSE /\ todo' = [todo EXCEPT ![c] = @ \ {Sale(c)}]
       /\ prior' = [prior EXCEPT ![c] = Unknown]
       /\ counters' = [counters EXCEPT ![c] = counted]
       /\ UNCHANGED <<at, seen, listed>>

\* The entry is created with the next tier.
Create(c) ==
  /\ at[c] = "entry" /\ PriorCount(c) # Unknown
  /\ entry[Sale(c)].status = "none"
  /\ entry' = [entry EXCEPT ![Sale(c)] =
                 [status |-> "AVAILABLE", tier |-> PriorCount(c) + 1, withdrawal |-> NoWithdrawal]]
  /\ NextSale(c, [counters[c] EXCEPT ![SoldBy[Sale(c)]] = PriorCount(c) + 1])
  /\ UNCHANGED <<approved, withdrawal, reported, shared, bounds>>

\* Variant: a sale that another call entered is counted again.
KeptCountersPlusOne(c) == [counters[c] EXCEPT ![SoldBy[Sale(c)]] = PriorCount(c) + 1]

\* The counters when no entry was created.
KeptCounters(c) == counters[c]

\* Another call has created it: the unique saleVerificationId refuses, and the sale is
\* skipped.
Duplicate(c) ==
  /\ at[c] = "entry" /\ PriorCount(c) # Unknown
  /\ entry[Sale(c)].status # "none"
  /\ NextSale(c, KeptCounters(c))
  /\ UNCHANGED <<approved, entry, withdrawal, reported, shared, bounds>>

\* The count, the rate table or the insert fails: the sale is skipped.
Skip(c) ==
  /\ at[c] = "entry" /\ faults < MaxFaults
  /\ faults' = faults + 1
  /\ NextSale(c, KeptCounters(c))
  /\ UNCHANGED <<approved, entry, withdrawal, reported, shared, edits>>

-----------------------------------------------------------------------------
(* reconcileClawbacks                                                       *)

\* Variant: what was withdrawn is left alone.
OwedAvailable == {"AVAILABLE"}

\* What may be clawed back.
Owed == {"AVAILABLE", "WITHDRAWN"}

ReadOwed(c) ==
  /\ at[c] = "owed"
  /\ IF WithStatus(Owed) = {} THEN Goes(c, AfterClawback(c))
     ELSE /\ at' = [at EXCEPT ![c] = "completed"]
          /\ seen' = [seen EXCEPT ![c] = WithStatus(Owed)]
          /\ UNCHANGED <<todo, prior, counters, listed>>
  /\ UNCHANGED <<approved, entry, withdrawal, reported, shared, bounds>>

ReadCompleted(c) ==
  /\ at[c] = "completed"
  /\ IF seen[c] \subseteq approved THEN Goes(c, AfterClawback(c))
     ELSE /\ at' = [at EXCEPT ![c] = "clawback"]
          /\ seen' = [seen EXCEPT ![c] = @ \ approved]
          /\ UNCHANGED <<todo, prior, counters, listed>>
  /\ UNCHANGED <<approved, entry, withdrawal, reported, shared, bounds>>

\* By id, whatever has become of the entries and of their sales.
Clawback(c) ==
  /\ at[c] = "clawback"
  /\ entry' = [s \in Sales |-> IF s \in seen[c] THEN [entry[s] EXCEPT !.status = "CLAWED_BACK"]
                               ELSE entry[s]]
  /\ Goes(c, AfterClawback(c))
  /\ UNCHANGED <<approved, withdrawal, reported, shared, bounds>>

-----------------------------------------------------------------------------
(* createWithdrawal, in a READ COMMITTED transaction.                       *)

ReadAvailable(w) ==
  LET available == WithStatus({"AVAILABLE"}) \cap OfPromoter(WithdrawalOf[w]) IN
  /\ at[w] = "withdraw"
  /\ IF available = {} THEN Goes(w, "done")
     ELSE /\ at' = [at EXCEPT ![w] = "claim"]
          /\ seen' = [seen EXCEPT ![w] = available]
          /\ UNCHANGED <<todo, prior, counters, listed>>
  /\ UNCHANGED <<approved, entry, withdrawal, reported, shared, bounds>>

\* Variant: the rows that were claimed are not counted.
ClaimedAllUnchecked(w, claimed) == TRUE

\* claimed.count is the number of entries summed.
ClaimedAll(w, claimed) == claimed = seen[w]

\* The conditional update takes the entries that are still AVAILABLE.  It commits with the
\* withdrawal, or is undone with it.
Claim(w) ==
  LET claimed == {s \in seen[w] : entry[s].status = "AVAILABLE"} IN
  /\ at[w] = "claim"
  /\ IF ClaimedAll(w, claimed)
     THEN /\ withdrawal' = [withdrawal EXCEPT ![w] = [status |-> "REQUESTED", gross |-> seen[w]]]
          /\ entry' = [s \in Sales |->
                         IF s \in claimed
                         THEN [entry[s] EXCEPT !.status = "WITHDRAWN", !.withdrawal = w]
                         ELSE entry[s]]
     ELSE UNCHANGED <<withdrawal, entry>>
  /\ Goes(w, "done")
  /\ UNCHANGED <<approved, reported, shared, bounds>>

-----------------------------------------------------------------------------
(* generateDispersionReport                                                 *)

\* Variant: what was reported is reported again.
PendingEver == {w \in Withdrawals : withdrawal[w].status # "none"}

\* What is still to be reported.
Pending == {w \in Withdrawals : withdrawal[w].status = "REQUESTED"}

ReadPending(c) ==
  /\ at[c] = IF c \in Reports THEN "start" ELSE "list"
  /\ IF Pending = {} THEN Goes(c, Over(c)) /\ UNCHANGED shared
     ELSE /\ at' = [at EXCEPT ![c] = "report"]
          /\ listed' = [listed EXCEPT ![c] = Pending]
          /\ shared' = shared \cup (Pending \cap UNION {listed[d] : d \in Calls})
          /\ UNCHANGED <<todo, prior, counters, seen>>
  /\ UNCHANGED <<approved, entry, withdrawal, reported, bounds>>

\* By id, whoever has reported them meanwhile.
Report(c) ==
  /\ at[c] = "report"
  /\ withdrawal' = [w \in Withdrawals |->
                      IF w \in listed[c] THEN [withdrawal[w] EXCEPT !.status = "REPORTED"]
                      ELSE withdrawal[w]]
  /\ reported' = [w \in Withdrawals |-> reported[w] + IF w \in listed[c] THEN 1 ELSE 0]
  /\ Goes(c, Over(c))
  /\ UNCHANGED <<approved, entry, shared, bounds>>

-----------------------------------------------------------------------------
\* A query fails or the process dies: the call ends there, and its transaction is undone.
Fails(c) ==
  /\ at[c] # "done" /\ faults < MaxFaults
  /\ faults' = faults + 1
  /\ Goes(c, Over(c))
  /\ UNCHANGED <<approved, entry, withdrawal, reported, shared, edits>>

Step(c) ==
  \/ ReadEntries(c) \/ ReadSales(c) \/ Count(c) \/ Create(c) \/ Duplicate(c)
  \/ ReadOwed(c) \/ ReadCompleted(c) \/ Clawback(c)
  \/ ReadPending(c) \/ Report(c)

Next ==
  \/ \E s \in Sales : Approve(s) \/ Drop(s)
  \/ \E c \in Calls : Step(c) \/ Skip(c) \/ Fails(c)
  \/ \E w \in Withdrawals : ReadAvailable(w) \/ Claim(w)

Spec == Init /\ [][Next]_vars

\* The job runs every day to its end.  Nothing is assumed of the other calls.
FairSpec == Spec /\ \A j \in Jobs : WF_vars(Step(j))

-----------------------------------------------------------------------------
(* Properties.                                                              *)

TypeOK ==
  /\ approved \subseteq Sales
  /\ entry \in [Sales -> [status : EntryStatuses, tier : Nat,
                         withdrawal : Withdrawals \cup {NoWithdrawal}]]
  /\ withdrawal \in [Withdrawals -> [status : {"none", "REQUESTED", "REPORTED"},
                                    gross : SUBSET Sales]]
  /\ at \in [Calls -> {"start", "sales", "entry", "owed", "completed", "clawback", "withdraw",
                       "claim", "list", "report", "done"}]
  /\ todo \in [Calls -> SUBSET Sales]
  /\ \A c \in Calls : at[c] = "entry" => todo[c] # {}
  /\ prior \in [Calls -> Nat \cup {Unknown}]
  /\ counters \in [Calls -> [Promoters -> Nat \cup {Unknown}]]
  /\ seen \in [Calls -> SUBSET Sales]
  /\ listed \in [Calls -> SUBSET Withdrawals]
  /\ reported \in [Withdrawals -> Nat] /\ shared \subseteq Withdrawals
  /\ edits \in Nat /\ faults \in Nat

\* A withdrawal is for the entries that point to it, all of its promoter: no entry is summed
\* in two withdrawals, or in one that another call or a clawback took it from.
WithdrawalIsItsEntries ==
  \A w \in Withdrawals :
    /\ withdrawal[w].gross = {s \in Sales : entry[s].withdrawal = w}
    /\ withdrawal[w].gross \subseteq OfPromoter(WithdrawalOf[w])

\* A sale is never paid at a tier beyond the number of sales its promoter has brought to the
\* ledger, however the calls that count and create them interleave.
TierIsEarned ==
  \A s \in Sales : entry[s].tier <= Cardinality(InLedger \cap OfPromoter(SoldBy[s]))

\* A withdrawal is in one report at most, unless two reports had it in hand at once.
ReportedOnce == \A w \in Withdrawals \ shared : reported[w] <= 1

\* The ledger follows the sales: one that stays approved comes to have an entry, and one that
\* stays dropped comes to be owed no more, even when it was withdrawn.
LedgerFollowsSales ==
  \A s \in Sales :
    /\ <>[](s \in approved) => <>(entry[s].status # "none")
    /\ <>[](s \notin approved) => <>[](entry[s].status \notin {"AVAILABLE", "WITHDRAWN"})
=============================================================================
