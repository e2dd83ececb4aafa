CONSTANTS
  Devices = {d1, d2}
  Frames = {f1, f2}
  MaxVersion = 2
  MaxBoots = 1
SPECIFICATION FairWatchedSpec
INVARIANTS
  TypeOK
  ReadOncePerBoot
  FaithfulCopy
PROPERTIES
  FrameGoesOn
  FollowsCell
