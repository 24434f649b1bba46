----------------------------- MODULE MCSimCustody ----------------------------
(* A small instance of SimCustody for TLC.                                  *)
EXTENDS SimCustody, TLC

CONSTANTS plain, flagged, legacy, call1, call2

\* A SIM of the organization, one that waits for its owner's approval, and one of a venue.
\* A terminal sells each, and an upload the second.
SoldBy == "item1" :> plain @@ "item2" :> flagged @@ "upload2" :> flagged @@ "item3" :> legacy

\* The stores they were registered from are run by one supervisor.
Stores == [s \in Sims |-> {"sup"}]
Sellers == [k \in Sales |-> "prom1"]

\* Nothing has been done to the SIM, and it is in the warehouse.
Untouched(s) ==
  /\ row[s] = Registered(s, "ADMIN_HELD", NoOne)
  /\ \A c \in Calls : target[c] # s
  /\ \A k \in Sales : SimOf[k] = s => at[k] = "new"

\* The SIMs share nothing but the calls, which forget one row before they read the next.
OneSimAtATime == \E s \in Sims : \A t \in Sims \ {s} : Untouched(t)

\* Nothing tells one custody call from the other.
CallSymmetry == Permutations(Calls)
=============================================================================
