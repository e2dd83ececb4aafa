CONSTANTS
  Frames = {f1}
  MaxRecord = 3
  Capacity = 3
  Spacing = 2
  MaxEntries = 1
  MaxUpsets = 0
SPECIFICATION Spec
INVARIANT EntriesStick
CHECK_DEADLOCK FALSE
