SPECIFICATION FairSpec
CONSTANTS
  c1 = c1
  c2 = c2
  Cpus <- TwoCpus
  BootCpu = c1
  MAX_PAGE_ORDER = 3
  pgdb_page_nr = 4
  NormalMem <- FourPages
  Usable <- FourPages
  MaxRefs = 2
INVARIANTS
  MutualExclusion
  NoOverlap
  HeldDescriptors
  CountsReferences
PROPERTIES
  LockReleased
  ImplementsPageAllocator
