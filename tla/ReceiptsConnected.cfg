CONSTANTS
  Receipts = {r1}
  Syncs = {s1}
  Handlers = {h1}
  MaxSwitches = 4
  MaxUpsets = 0
  Form = Form
  None = None
SPECIFICATION FairSpec
PROPERTY
  SavedOfflineSyncs
CHECK_DEADLOCK FALSE
