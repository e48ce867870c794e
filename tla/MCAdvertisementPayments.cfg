\* One campaign, two orders, one failed attempt per order, two requests in flight.
SPECIFICATION Spec
CONSTANTS
  o1 = o1
  o2 = o2
  p1 = p1
  p2 = p2
  basic = basic
  plus = plus
  Orders = {o1, o2}
  Refs = {campaign}
  Products = {basic}
  Attempts = {a1}
  Refunds = {r1}
  Procs = {p1, p2}
  None = None
SYMMETRY Symmetry
INVARIANTS SinglePrimary MoneyBacked ReviewedIsPaidFor CancelledNotEntitled RefundedIsPrimary
PROPERTY AccountingSpec
CHECK_DEADLOCK FALSE
