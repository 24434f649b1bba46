SPECIFICATION Spec
CONSTANTS
  card = card
  cash = cash
  tacos = tacos
  refund1 = refund1
  refund2 = refund2
  refund3 = refund3
  Payments = {card, cash}
  Amount <- TwoPayments
  Tip <- CardTip
  OrderTotal = 9
  Items = {tacos}
  Qty <- Three
  LineTotal <- FiveCents
  Refunds = {refund1, refund2, refund3}
  Asked = {2, 3, 6, 7}
INVARIANTS
  TypeOK
  PaysBackExactly
  TotalsAgree
  ReversedIsRestocked
SYMMETRY
  RefundSymmetry
CHECK_DEADLOCK FALSE
