SPECIFICATION Spec
CONSTANTS
  flour = flour
  flour2 = flour2
  meal2 = meal2
  t1 = t1
  t2 = t2
  Materials = {flour, flour2, meal2}
  Opening <- Two
  Calls = {c1}
  Quantities = {1}
  Perishable = {flour, flour2}
  Transfers = {t1, t2}
  Pushed = {t2}
  Items = {1, 2, 3, 4}
  TransferOf <- By
  Source <- From
  Destination <- To
  Requested <- Want
  Keys = {k1, k2}
SYMMETRY KeySymmetry
INVARIANTS
  TypeOK
  CountedOncePerKey
  BatchesBalance
  ClosesWhenAccounted
  LossIsPriced
  StockIsBatchesWhenSerial
PROPERTIES
  ImplementsLedger
CHECK_DEADLOCK FALSE
