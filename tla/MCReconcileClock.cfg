SPECIFICATION Spec
CONSTANTS
  Worker = {w1, w2}
  Delays = {1, 8}
  Timeout = 1
  Grace = 2
  Lease = 3
  MaxBackoff = 3
  Doublings <- Ladder
  SendLag = 1
  WorkTime = 2
  Pickup = 1
  Horizon = 20
SYMMETRY Symmetric
CHECK_DEADLOCK FALSE
INVARIANTS
  NoRecordMeansNoCharge
  OneWorkerAtATime
  SettledInTime
  SettledAsDecided
  IInv
PROPERTY ImplementsPsp
