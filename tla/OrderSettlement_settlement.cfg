SPECIFICATION Spec
CONSTANTS
  d1 = d1
  d2 = d2
  e1 = e1
  e2 = e2
  k1 = k1
  k2 = k2
  Tenders = {d1, e1, e2}
  Cards = {d1}
  Keyed = {d1, e1}
  ChargeOf <- Charges
  AmountOf <- AllOrHalf
  Rounds = {k1, k2}
  PriceOf <- OneDish
  Ordered = 10
  ServiceCharge = 2
  MaxFaults = 1
INVARIANTS
  TypeOK
  ChargeRecordedOnce
  PaidIsBacked
  CashPaysTheBill
  LosesOnlyToProgress
  AcceptedRoundIsBilled
CHECK_DEADLOCK FALSE
