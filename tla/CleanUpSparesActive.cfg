\* "Never deletes processing/pending jobs' objects" (Media.service.ts).
SPECIFICATION Spec
CONSTANTS
  image = image
  video = video
  w1 = w1
  w2 = w2
  Media = {video}
  Videos = {video}
  Workers = {w1}
  Slots <- OneSlot
  MaxRetries = 1
  MaxRecoveries = 2
  None = None
PROPERTY CleanUpSparesActive
CHECK_DEADLOCK FALSE
