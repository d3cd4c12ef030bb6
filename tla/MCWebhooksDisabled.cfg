SPECIFICATION Spec
CONSTANTS
  Event = {v1}
  Endpoint = {e1}
  UrlOf <- SameUrl
  Worker = {w1, w2}
  Client = {c1}
  PageLimit = 1
  MaxAttempts = 2
  Interruptions = 2
  Nothing = Nothing
INVARIANT DisabledHasNothingPending
