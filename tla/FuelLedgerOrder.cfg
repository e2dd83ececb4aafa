CONSTANTS
  Frames = {f1}
  MaxRecord = 4
  Capacity = 3
  Spacing = 2
  MaxEntries = 0
  MaxUpsets = 0
SPECIFICATION Spec
INVARIANT OrderIndependent
CHECK_DEADLOCK FALSE
