SPECIFICATION FairSpec
CONSTANTS
  Event = {v1}
  Endpoint = {e1, e2}
  UrlOf <- SameUrl
  Worker = {w1, w2}
  Client = {}
  PageLimit = 1
  MaxAttempts = 2
  Interruptions = 2
  Nothing = Nothing
INVARIANTS
  OneDeliveryPerUrl
  NoOverlapWithinLease
  AttemptBudget
  OutcomesAreEarned
  BackoffFollowsSchedule
  IInv
PROPERTIES
  OverIsOver
  DeliveriesEnd
