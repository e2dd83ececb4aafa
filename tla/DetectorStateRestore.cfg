CONSTANTS
  Devices = {d1, d2}
  Frames = {f1, f2}
  MaxVersion = 2
  MaxBoots = 1
SPECIFICATION FairSpec
PROPERTY MapIsTruth
