CONSTANTS
  Receipts = {r1, r2}
  Syncs = {s1, s2}
  Handlers = {h1, h2}
  MaxSwitches = 3
  MaxUpsets = 1
  Form = Form
  None = None
SPECIFICATION PatientSpec
INVARIANTS
  TypeOK
  NothingLost
  CreditedUnlessSkipped
PROPERTIES
  BooksSpec
  
CHECK_DEADLOCK FALSE
