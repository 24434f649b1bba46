-------------------------- MODULE MCTerminalPayment --------------------------
(* Small instances of TerminalPayment for TLC.                              *)
EXTENDS TerminalPayment, TLC

CONSTANTS r1, r2, t1, t2, o1, c1, c2, c3

\* Two charges of one order compete for one terminal.
OneTerminal   == [r \in Requests |-> t1]
\* Two charges of one order on two terminals.
TwoTerminals  == (r1 :> t1) @@ (r2 :> t2)
OneOrder      == [r \in Requests |-> o1]

\* c1 and c2 carry the same requestId: a retry.  c3 carries another one.
RetryAndRival == [c \in Calls |-> IF c = c3 THEN r2 ELSE r1]
\* One call per request.
OneCallEach   == [c \in Calls |-> IF c = c1 THEN r1 ELSE r2]
\* Only calls of r1.
Retries       == [c \in Calls |-> r1]
=============================================================================
