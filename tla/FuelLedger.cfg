CONSTANTS
  Frames = {f1, f2}
  MaxRecord = 3
  Capacity = 3
  Spacing = 2
  MaxEntries = 2
  MaxUpsets = 1
SPECIFICATION Spec
INVARIANTS
  TypeOK
  
  ModelledIsDistance
  ReportsAreDriven
  LevelStands
  LevelIsDue
SYMMETRY Symmetry
CHECK_DEADLOCK FALSE
