CONSTANTS
  MaxPageOrder = 3
  Frames <- TwoRuns
  Described <- TwoRunsMap
  Mapped <- TwoRunsMapped
  UninitBits = {TRUE}
  Cpus = {c1, c2}
  BootCpu = c1
  Returnable <- Top
  MaxRefCount = 2
SPECIFICATION Spec
INVARIANTS TypeOK LockExcludes NoOverlap OnlyAvailable NoLeak NullOnlyWhenEmpty Staircase FlagsTell
PROPERTIES ImplementsStore LockReleased SomebodyGetsIn
