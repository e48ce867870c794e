\* Two requests overlap: a payment.failed webhook and the fulfilment of the same order, then the owner deletes the draft.
SPECIFICATION Spec
CONSTANTS
  o1 = o1
  o2 = o2
  p1 = p1
  p2 = p2
  basic = basic
  plus = plus
  Orders = {o1}
  Refs = {campaign}
  Products = {basic}
  Attempts = {a1}
  Refunds = {}
  Procs = {p1, p2}
  None = None
PROPERTY PaidNeverDeleted
CHECK_DEADLOCK FALSE
