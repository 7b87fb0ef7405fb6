CONSTANTS
  MaxPageOrder = 3
  Frames <- TwoHalves
  Described <- TwoHalves
  Mapped <- TwoHalves
  UninitBits = {FALSE}
  Cpus = {c1}
  BootCpu = c1
  Returnable <- All
  MaxRefCount = 3
SPECIFICATION Spec
INVARIANT NoOverlap
