SPECIFICATION FairSpec
CONSTANTS
  r1 = r1
  r2 = r2
  t1 = t1
  t2 = t2
  o1 = o1
  c1 = c1
  c2 = c2
  c3 = c3
  Requests = {r1}
  Terminals = {t1}
  Orders = {o1}
  Calls = {c1, c2}
  Sweepers = {s1}
  TerminalOf <- OneTerminal
  OrderOf <- OneOrder
  RequestOf <- Retries
  Threaded = {r1}
  Voidable = {o1}
  Cancellable = {r1}
  Refusals = {"timeout"}
  LockEnabled = TRUE
  MaxPayments = 1
  MaxFaults = 1
  NoCall = NoCall
  NoRequest = NoRequest
INVARIANTS
  RecordedIsCompleted
PROPERTIES
  FreedOnEvidence
  NothingIsStuck
CHECK_DEADLOCK FALSE
