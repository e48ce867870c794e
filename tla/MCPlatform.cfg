\* Seven parts side by side; see the README for the bounds of each.  Media: a video, and two
\* workers of which one has two slots: it can take up a job that a late run of its own still
\* works on.
SPECIFICATION PlatformSpec
CONSTANTS
  image = image
  video = video
  w1 = w1
  w2 = w2
  Media = {video}
  Videos = {video}
  Workers = {w1, w2}
  Slots <- ThreeSlots
  MaxRetries = 1
  MaxRecoveries = 2
  None = None
  k1 = k1
  k2 = k2
  t1 = t1
  t2 = t2
  Servers = {t1, t2}
  Sockets = {k1, k2}
  ChatMessages = {m1}
  ProfileBudget = 4
  ProfileCalls = {t1, t2}
  MaxApplications = 1
  MaxForms = 2
  HelpBudget = 3
  HelpCalls = {t1, t2}
  Helpers = {h1}
  ActiveHours = 1
  AuthorExtends = 2
  LastHour = 2
  LegalBudget = 6
  LegalCalls = {t1, t2}
  MaxDocs = 3
  MaxTexts = 3
  AccountsBudget = 3
  Instances = {t1, t2}
  GateTtl = 2
  LastSecond = 3
SYMMETRY Symmetry
INVARIANTS PlatformTypeOK LiveObjectStored StagingKept RowsAgree NoGhost
  SparesTheLiving OnlineTold PushSettled SuspendedHidden ShownAsMeant AlwaysInForce TokensStayEnded
  StatusSoonFollowed
PROPERTY QueueSpec
CHECK_DEADLOCK FALSE
