CONSTANTS
  MaxPageOrder = 2
  Frames <- FourFrames
  Described <- OneRunMapped
  Mapped <- OneRunMapped
  UninitBits = {TRUE}
  Cpus = {c1, c2}
  BootCpu = c1
  Returnable <- All
  MaxRefCount = 2
SPECIFICATION Spec
INVARIANT HeadsListed
