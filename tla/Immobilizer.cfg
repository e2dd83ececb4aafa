CONSTANTS
  Requests = {r1, r2}
  Handlers = {h1, h2}
  MaxOrders = 2
  MaxLocks = 1
  MaxUpsets = 2
  MaxActive = 3
SPECIFICATION Spec
INVARIANTS
  TypeOK
  SentUnlessRaced
  RowIsAhead
  ClosedIsDone
  NeverStranded
PROPERTIES
  FollowsRegister
SYMMETRY Symmetry
CONSTRAINTS
  NotRaced
  Limited
