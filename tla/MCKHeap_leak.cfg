SPECIFICATION Spec
CONSTANTS
  c1 = c1
  c2 = c2
  Cpus <- OneCpu
  MAX_PAGE_ORDER = 3
  PAGE_SIZE = 2
  kobj_default_size <- SmallSizes
  Usable <- ThreePages
  Requests = {1}
  MaxLive = 6
INVARIANT FreedGoesBack
