SPECIFICATION Spec
CONSTANTS
  MaxRec = 2
  MaxNow = 1
  MaxDev = 2
  MaxStart = 2
  MaxFault = 1
  MaxOp = 1
INVARIANTS DiskAgrees
PROPERTIES UnlinkHonoured BanHonoured
CHECK_DEADLOCK FALSE
