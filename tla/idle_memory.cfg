CONSTANTS
  Tags <- Loaders
  Maps <- OneArea
  PAGE_SIZE = 2
  ENTRIES = 4
  PER_PAGE = 4
  BootStart = 6
  BootMapped = 4
  PHYS_MM_SEGS_NUM_MAX = 32
SPECIFICATION Spec
INVARIANT AllGiven
