----------------------------- MODULE ChargeSlots -----------------------------
(***************************************************************************)
(* What the arbitration of TerminalPayment promises, with nothing of how   *)
(* it is done: every terminal has one slot, a charge takes the slot of its *)
(* terminal when it opens, keeps it while its outcome is open or in doubt, *)
(* and gives it back once.  A charge never opens twice, and a closed one   *)
(* can only be corrected to "the money moved", which is definitive.        *)
(*                                                                         *)
(* The statuses are those of the TerminalPaymentRequest enum, grouped by   *)
(* what they mean for the slot (schema.prisma and the partial index).      *)
(***************************************************************************)
CONSTANTS Requests, Terminals,
          TerminalOf,  \* a function from Requests to Terminals
          Free         \* the slot's value when nobody holds it

VARIABLES
  slot,    \* the charge each terminal's slot is held for
  charge   \* none, open, doubtful, closed without money, charged

Init == /\ slot = [t \in Terminals |-> Free]
        /\ charge = [r \in Requests |-> "none"]

\* A new charge takes the free slot of its terminal.
Open(r) == /\ charge[r] = "none" /\ slot[TerminalOf[r]] = Free
           /\ slot' = [slot EXCEPT ![TerminalOf[r]] = r]
           /\ charge' = [charge EXCEPT ![r] = "open"]

\* Nobody can tell what became of the charge: the slot stays taken.
Doubt(r) == /\ charge[r] = "open"
            /\ charge' = [charge EXCEPT ![r] = "doubtful"]
            /\ UNCHANGED slot

\* The outcome is known: the slot is free again.
Settle(r) == /\ slot[TerminalOf[r]] = r
             /\ slot' = [slot EXCEPT ![TerminalOf[r]] = Free]
             /\ \E o \in {"closed", "charged"} : charge' = [charge EXCEPT ![r] = o]

\* Money moved in spite of the outcome the charge was closed with.
Correct(r) == /\ charge[r] = "closed"
              /\ charge' = [charge EXCEPT ![r] = "charged"]
              /\ UNCHANGED slot

Next == \E r \in Requests : Open(r) \/ Doubt(r) \/ Settle(r) \/ Correct(r)

Spec == Init /\ [][Next]_<<slot, charge>>
=============================================================================
