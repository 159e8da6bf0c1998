SPECIFICATION Spec
CONSTANTS
  c1 = c1
  c2 = c2
  Cpus <- OneCpu
  BootCpu = c1
  MAX_PAGE_ORDER = 3
  pgdb_page_nr = 13
  NormalMem <- HoledNormal
  Usable <- HoledUsable
  MaxRefs = 1
INVARIANTS
  TypeOK
  NoPageLost
  Coalesced
