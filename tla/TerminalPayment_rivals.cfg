SPECIFICATION Spec
CONSTANTS
  r1 = r1
  r2 = r2
  t1 = t1
  t2 = t2
  o1 = o1
  c1 = c1
  c2 = c2
  c3 = c3
  Requests = {r1, r2}
  Terminals = {t1}
  Orders = {o1}
  Calls = {c1, c2, c3}
  Sweepers = {s1}
  TerminalOf <- OneTerminal
  OrderOf <- OneOrder
  RequestOf <- RetryAndRival
  Threaded = {r1}
  Voidable = {}
  Cancellable = {r1}
  Refusals = {"failed", "timeout"}
  LockEnabled = TRUE
  MaxPayments = 1
  MaxFaults = 0
  NoCall = NoCall
  NoRequest = NoRequest
INVARIANTS
  TypeOK
  SlotExclusive
  OneEmission
PROPERTIES
  CompletedIsFinal
CHECK_DEADLOCK FALSE
