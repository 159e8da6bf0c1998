SPECIFICATION FairSpec
CONSTANTS
  c1 = c1
  c2 = c2
  Cpus <- TwoCpus
  MAX_PAGE_ORDER = 3
  PAGE_SIZE = 7
  kobj_default_size <- TwoSizes
  Usable <- FourPages
  Requests = {3, 12}
  MaxLive = 2
INVARIANTS
  TypeOK
  LiveDisjoint
  FreelistIsCurrent
  InUseIsFindable
  CacheExclusion
  CountsObjects
PROPERTIES
  LockReleased
  ImplementsHeap
