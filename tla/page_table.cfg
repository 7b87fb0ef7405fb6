CONSTANTS
  Idx <- TwoIdx
  Tables = {1, 2, 3, 4, 5, 6, 7, 8, 9, 10}
  Data = {20, 21}
  ZeroVas <- ZeroPages
  Root = 1
  Vas <- FivePages
  Targets = {0, 20, 21}
  Attrs <- Writable
  Supplies <- ThreeSupplies
  Stale <- Junk
SPECIFICATION Spec
INVARIANTS LookupAgrees TablesAreTree
PROPERTY ImplementsAddressSpace
