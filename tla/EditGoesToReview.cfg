\* One campaign: an edit of a running campaign is given up after its first save.
SPECIFICATION Spec
CONSTANTS
  paid = paid
  free = free
  Ads = {paid}
  Complimentary = {}
  Duration = 2
  Batch = 1
  MaxTime = 2
  HandSet = {}
  HandDates = {0, 2}
  None = None
PROPERTY EditGoesToReview
