SPECIFICATION Spec
CONSTANTS
  card = card
  cash = cash
  tacos = tacos
  refund1 = refund1
  refund2 = refund2
  refund3 = refund3
  Payments = {card}
  Amount <- OnePayment
  Tip <- NoTip
  OrderTotal = 7
  Items = {tacos}
  Qty <- Three
  LineTotal <- FiveCents
  Refunds = {refund1, refund2, refund3}
  Asked = {3, 4}
INVARIANTS
  RefundsFit
SYMMETRY
  RefundSymmetry
CHECK_DEADLOCK FALSE
