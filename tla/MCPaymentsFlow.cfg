SPECIFICATION Spec
CONSTANTS
  Request = {r1, r2, r3}
  Worker = {w1}
  Invoice = {i1}
  NoInvoice = i0
  Key = {k1, k2}
  Token = {t1}
  None = None
SYMMETRY Symmetric
INVARIANTS
  TypeOK
  NoDoubleCharge
  MoneyMatchesInvoice
  InFlightIffProcessing
  OutboxTellsTheStory
  SettledHasStoredAnswer
  AnswersAreTrue
  ChargedOncePerKey
  RetriesAgree
PROPERTIES
  RefinesLedger
  KeysAreForever
