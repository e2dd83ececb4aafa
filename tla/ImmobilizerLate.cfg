CONSTANTS
  Requests = {r1}
  Handlers = {h1, h2}
  MaxOrders = 2
  MaxLocks = 0
  MaxUpsets = 0
  MaxActive = 3
SPECIFICATION Spec
INVARIANT ClosedByRelay
