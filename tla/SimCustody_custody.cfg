SPECIFICATION Spec
CONSTANTS
  plain = plain
  flagged = flagged
  legacy = legacy
  Sims = {plain, flagged, legacy}
  Supervisors = {"sup"}
  Promoters = {"prom1", "prom2"}
  Admins = {"owner"}
  Encargados <- Stores
  Flagged = {flagged}
  VenueLevel = {legacy}
  Enforced = {flagged}
  call1 = call1
  call2 = call2
  Calls = {call1, call2}
  Sales = {"item1", "item2", "upload2", "item3"}
  SimOf <- SoldBy
  SellerOf <- Sellers
  Manual = {"upload2"}
  MaxVersion = 2
INVARIANTS
  TypeOK
  HoldersMatchState
  UnapprovedIsNotSold
  ChainOfCustody
CONSTRAINT
  OneSimAtATime
SYMMETRY
  CallSymmetry
CHECK_DEADLOCK FALSE
