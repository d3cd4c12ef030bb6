SPECIFICATION Spec
CONSTANTS
  Customer = {k1, k2, k3}
  Creation = {c1, c2, c3}
  Asks <- SmallAsks
  Client = {w1}
  Id = {1, 2, 3}
  MaxAttempts = 2
  Bits = 4
  MaxTotal = 5
  MaxLineItems = 2
  DefaultLimit = 1
  MaxLimit = 2
  Null = Null
SYMMETRY Symmetric
CHECK_DEADLOCK FALSE
INVARIANTS
  PricedExactly
  NoRowTwice
  WalkIsComplete
  DetailExplainsStatus
  IInv
