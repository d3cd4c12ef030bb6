SPECIFICATION Spec
CONSTANTS
  Worker = {w1}
  Delays = {1}
  Timeout = 1
  Grace = 2
  Lease = 3
  MaxBackoff = 3
  Doublings <- Ladder
  SendLag = 4
  WorkTime = 2
  Pickup = 1
  Horizon = 12
CHECK_DEADLOCK FALSE
INVARIANT NoRecordMeansNoCharge
