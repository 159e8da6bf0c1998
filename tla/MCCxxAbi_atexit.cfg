SPECIFICATION FairSpec
CONSTANTS
  Cpus = {c1, c2}
  BootCpu = c1
  Infos = {e1, e2, e3}
  NoInfo = NoInfo
  Dsos = {kernel, module}
  AnyDso = AnyDso
  InitArray <- Table
  MaxInfo = 3
INVARIANTS
  TypeOK
  Exclusion
  ListSound
  EachCalledOnce
  CalledInReverse
PROPERTIES
  FinalizeEnds
