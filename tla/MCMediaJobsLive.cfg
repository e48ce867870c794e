\* An image and a video wait for the only slot.
SPECIFICATION FairSpec
CONSTANTS
  image = image
  video = video
  w1 = w1
  w2 = w2
  Media = {image, video}
  Videos = {video}
  Workers = {w1}
  Slots <- OneSlot
  MaxRetries = 1
  MaxRecoveries = 1
  None = None
PROPERTY EveryJobEnds
CHECK_DEADLOCK FALSE
