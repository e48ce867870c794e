\* A checkout and its successor for another price; a payment.failed webhook overlaps the fulfilment of the first.
SPECIFICATION FairSpec
CONSTANTS
  o1 = o1
  o2 = o2
  p1 = p1
  p2 = p2
  basic = basic
  plus = plus
  Orders = {o1, o2}
  Refs = {campaign}
  Products = {basic, plus}
  Attempts = {a1}
  Refunds = {}
  Procs = {p1, p2}
  None = None
PROPERTY FailedIsRecovered
CHECK_DEADLOCK FALSE
