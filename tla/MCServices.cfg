\* Eight parts side by side; see the README for the bounds of each.
SPECIFICATION Spec
CONSTANTS
  k1 = k1
  k2 = k2
  t1 = t1
  t2 = t2
  l3 = l3
  ContentBudget = 3
  Members = {k1, k2}
  ConnCalls = {t1, t2}
  MaxAttempts = 2
  Purchases = {k1, k2}
  Purposes = {"GOLD", "CONTACT"}
  Subs = {t1, t2}
  JobBatch = 1
  MaxGrants = 2
  Unset = Unset
  Mates = {k1, k2}
  MatchCalls = {t1, t2}
  Uploads = {u1, u2}
  Clean = {u1}
  Posts = {p1}
  Trades = {p1}
  RefSlots = {"mediaUrl"}
  MaxVersion = 2
  Workers = {w1}
  Apis = {a1}
  RunIds = {k1, k2}
  Listings = {k1, k2, l3}
  Requests = {t1, t2}
  MaxLive = 1
SYMMETRY Symmetry
INVARIANTS ServicesTypeOK ConnectedByConsent OneAccepted GrantedOnceUnlessStale LiveUnlessReplaced
  MatchedByBoth AcceptedIsMatched UnverifiedNotPublic CaptionNotPublic OneHolder HistoryTold
  LiveExpires LiveLimit
PROPERTY BillingAccounting
CHECK_DEADLOCK FALSE
