SPECIFICATION Spec
CONSTANTS
  Request = {r1, r2, r3}
  Worker = {w1}
  Invoice = {i1}
  NoInvoice = i0
  Key = {k1, k2}
  Token = {t1}
  None = None
SYMMETRY Symmetric
INVARIANT StoredRefusalIsPermanent
