SPECIFICATION Spec
CONSTANTS
  Task = {t1, t2, t3}
  Attempt = {a1, a2}
  Delivery = {d1, d2}
  Connections = 3
SYMMETRY Symmetric
INVARIANTS
  NoDeadlock
  BackstopStandsIdle
  IInv
