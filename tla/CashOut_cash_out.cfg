SPECIFICATION FairSpec
CONSTANTS
  s1 = s1
  s2 = s2
  p1 = p1
  Sales = {s1, s2}
  CreatedAt <- InOrder
  Promoters = {p1}
  SoldBy <- OneSeller
  Jobs = {"job"}
  Balances = {}
  Withdrawals = {"w1", "w2"}
  WithdrawalOf <- OneOwner
  Reports = {"report"}
  MaxEdits = 1
  MaxFaults = 1
INVARIANTS
  TypeOK
  WithdrawalIsItsEntries
  TierIsEarned
  ReportedOnce
PROPERTIES
  LedgerFollowsSales
