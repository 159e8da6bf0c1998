SPECIFICATION Spec
CONSTANTS
  c1 = c1
  c2 = c2
  Cpus <- OneCpu
  BootCpu = c1
  MAX_PAGE_ORDER = 3
  pgdb_page_nr = 4
  NormalMem <- FourPages
  Usable <- FourPages
  MaxRefs = 1
INVARIANTS
  FreeBitMeansInFreelist
