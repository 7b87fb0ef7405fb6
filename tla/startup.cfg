CONSTANTS
  Idx <- FourIdx
  Tables <- LowFrames
  Data = {}
  ZeroVas <- NoVas
  W = 4
  Loaders <- SomeLoaders
  PTS = 3
  Code = 1
  Stack = 2
  Pgd = 3
  Gdt = 9
  MULTIBOOT2_BOOTLOADER_MAGIC = 7
  HasMap = {TRUE, FALSE}
  Allocations = 2
  page_fault_handler = 228
  null_intr_handler = 27
  Traps = {3, 8, 14, 30}
  boot_kern_pgtable = 20
  Bytes = {10, 65, 200}
  MaxPolls = 2
SPECIFICATION StartupSpec
INVARIANTS IdentityMapped HandedOver ResetsOnlyFromOutside CaughtOnceLoaded LineSet
PROPERTIES ReportedAndStopped
