CONSTANTS
  Requests = {r1, r2}
  Handlers = {h1}
  MaxOrders = 2
  MaxLocks = 1
  MaxUpsets = 1
  MaxActive = 3
SPECIFICATION Spec
INVARIANT QueuedUntilSent
