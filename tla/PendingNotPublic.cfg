\* One application, two forms, two requests at once: the approval of a photo publishes the form
\* that came with it.
SPECIFICATION ProfilesSpec
CONSTANTS
  ProfileCalls = {t1, t2}
  MaxApplications = 1
  MaxForms = 2
INVARIANT PendingNotPublic
CHECK_DEADLOCK FALSE
