CONSTANTS
  Idx <- ThreeIdx
  Tables <- FrameNumbers
  Data = {30}
  ZeroVas <- Zeros
  Images <- SmallImages
  Readings <- Enough
  ExtBase = 3
  Ext16Base = 16
  Ext16Unit = 4
  KernelPgd = 2
  DirectPgd = 1
  Direct = 24
  BootPud = 30
  Stale <- Junk
SPECIFICATION Spec
INVARIANTS ImageMapped TablesApart
