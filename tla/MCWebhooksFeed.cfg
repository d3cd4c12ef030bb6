SPECIFICATION Spec
CONSTANTS
  Event = {v1, v2, v3, v4}
  Endpoint = {}
  UrlOf <- SameUrl
  Worker = {}
  Client = {c1, c2}
  PageLimit = 2
  MaxAttempts = 1
  Interruptions = 0
  Nothing = Nothing
SYMMETRY Symmetric
CHECK_DEADLOCK FALSE
INVARIANTS
  NothingBehindCheckpoint
PROPERTY RefinesFeed
