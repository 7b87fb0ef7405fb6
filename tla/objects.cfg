CONSTANTS
  PAGE_SHIFT = 2
  NR_KOBJECT_SIZE_TYPE = 4
  Frames <- TwoPages
  MaxPageOrder = 3
  Cpus = {c1, c2}
  Requests <- Sizes
SPECIFICATION Spec
INVARIANTS ObjectsApart ChainSafe NoObjectLost
PROPERTY KmallocReturns
