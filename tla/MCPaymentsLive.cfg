SPECIFICATION LiveSpec
CONSTANTS
  Request = {r1, r2}
  Worker = {w1}
  Invoice = {i1}
  NoInvoice = i0
  Key = {k1, k2}
  Token = {t1}
  None = None
PROPERTIES
  AttemptsSettle
  RequestsAreAnswered
