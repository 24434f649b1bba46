---------------------------- MODULE TransferLedger ----------------------------
(***************************************************************************)
(* What a transfer between venues promises: once agreed it is sent whole,  *)
(* what was sent either arrives or is written off, and it closes with      *)
(* every requested unit accounted for, never to move again.                *)
(***************************************************************************)
EXTENDS Integers

CONSTANTS Transfers, Items, TransferOf, Requested

VARIABLES
  phase,    \* of each transfer
  sent,     \* units of each item that left the source
  arrived,  \* units that the destination received
  written   \* units written off: lost on the way, or never sent

vars == <<phase, sent, arrived, written>>

ItemsOf(t) == {i \in Items : TransferOf[i] = t}

Counts == [Items -> Nat]

Init ==
  /\ phase \in [Transfers -> {"asked", "agreed"}]
  /\ sent = [i \in Items |-> 0]
  /\ arrived = [i \in Items |-> 0]
  /\ written = [i \in Items |-> 0]

Agree(t) ==
  /\ phase[t] = "asked"
  /\ phase' = [phase EXCEPT ![t] = "agreed"]
  /\ UNCHANGED <<sent, arrived, written>>

Drop(t) ==
  /\ phase[t] \in {"asked", "agreed"}
  /\ phase' = [phase EXCEPT ![t] = "dropped"]
  /\ UNCHANGED <<sent, arrived, written>>

\* Every item is sent, in one step, and none in excess.
Send(t) ==
  /\ phase[t] = "agreed"
  /\ phase' = [phase EXCEPT ![t] = "moving"]
  /\ sent' \in Counts
  /\ \A i \in Items : IF TransferOf[i] = t THEN sent'[i] \in 1..Requested[i]
                      ELSE sent'[i] = sent[i]
  /\ UNCHANGED <<arrived, written>>

Accounted(i) == arrived[i] + written[i] = Requested[i]

\* Units arrive or are written off.  The transfer closes with the last one, and only then.
Account(t) ==
  /\ phase[t] = "moving"
  /\ arrived' \in Counts /\ written' \in Counts
  /\ \A i \in Items :
       IF TransferOf[i] = t
       THEN /\ arrived'[i] \in arrived[i]..sent[i]
            /\ written'[i] >= written[i]
            /\ arrived'[i] + written'[i] <= Requested[i]
       ELSE arrived'[i] = arrived[i] /\ written'[i] = written[i]
  /\ phase' = [phase EXCEPT ![t] =
       IF \A i \in ItemsOf(t) : Accounted(i)' THEN "closed" ELSE "moving"]
  /\ UNCHANGED sent

Next == \E t \in Transfers : Agree(t) \/ Drop(t) \/ Send(t) \/ Account(t)

Spec == Init /\ [][Next]_vars
=============================================================================
