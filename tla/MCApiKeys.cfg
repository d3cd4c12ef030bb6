SPECIFICATION Spec
CONSTANTS
  Key = {k1, k2, k3}
  Request = {r1, r2, r3, r4}
  Nobody = Nobody
SYMMETRY Symmetric
CHECK_DEADLOCK FALSE
INVARIANTS
  NeverLockedOut
  IInv
