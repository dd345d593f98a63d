CONSTANTS
  SECTSIZE = 2
  ELFHDR = 4
  HdrSectors = 2
  MB = 16
  MemSize = 32
  Start = 2
  Images <- MCImages
  PGSIZE = 4
  NPTENTRIES = 8
  NPDENTRIES = 4
  KERNBASE = 96
  WarmBoot = 1
SPECIFICATION KernelSpec
INVARIANTS
  ImageInPlace
  LoaderIntact
  NoFault
  FetchesKernel
  BssCleared
PROPERTY Boots
CHECK_DEADLOCK FALSE
