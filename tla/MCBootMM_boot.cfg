SPECIFICATION FairSpec
CONSTANTS
  Machines <- AllMachines
  PAGE_SIZE = 2
  PT_ENTRIES = 8
  PGDB_PG_PAGE_NR = 8
  KERNEL_LOAD = 4
  DIRECT_MAP_BASE = 1024
  DIRECT_MAP_END = 1535
  PAGE_DATABASE_BASE = 2048
  Frames <- FewFrames
INVARIANTS
  TypeOK
  FreshPages
  Translates
  ImageKept
  PoolGetsTheRest
  KernelCanReach
PROPERTIES
  Ends
