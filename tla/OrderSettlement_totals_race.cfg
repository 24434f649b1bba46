SPECIFICATION Spec
CONSTANTS
  d1 = d1
  d2 = d2
  e1 = e1
  e2 = e2
  k1 = k1
  k2 = k2
  Tenders = {d1, d2}
  Cards = {d1, d2}
  Keyed = {d1, d2}
  ChargeOf <- Charges
  AmountOf <- Halves
  Rounds = {}
  PriceOf <- OneDish
  Ordered = 10
  ServiceCharge = 2
  MaxFaults = 0
INVARIANTS
  PaidAmountAgrees
CHECK_DEADLOCK FALSE
