\* One campaign, two orders, two requests at once.  An attempt fails, or the price changes and
\* the pending order is superseded: every captured payment is recorded all the same.
SPECIFICATION TroubleSpec
CONSTANTS
  o1 = o1
  o2 = o2
  p1 = p1
  p2 = p2
  basic = basic
  plus = plus
  Orders = {o1, o2}
  Refs = {campaign}
  Products = {basic, plus}
  Attempts = {a1}
  Refunds = {}
  Procs = {p1, p2}
  None = None
PROPERTY CapturedIsBooked
CHECK_DEADLOCK FALSE
