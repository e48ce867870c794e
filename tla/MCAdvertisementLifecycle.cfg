\* A paid and a complimentary campaign; the job takes one row at a time.
SPECIFICATION FairSpec
CONSTANTS
  paid = paid
  free = free
  Ads = {paid, free}
  Complimentary = {free}
  Duration = 1
  Batch = 1
  MaxTime = 2
  HandSet = {paid}
  HandDates = {0, 2}
  None = None
INVARIANTS ReviewedBeforeRunning FullAirtime
PROPERTIES NoOverstay ScheduledGoesLive
