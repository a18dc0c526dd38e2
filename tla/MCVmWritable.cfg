SPECIFICATION Spec
CONSTANTS
  L <- MCL
  PageSize = 8
  ArenaBegin <- MCArenaBegin
  RamEnd <- MCRamEnd
  ArenaEnds = {50}
  KernelText <- MCKernelText
  KernelPhys = 2
  KernelPages = 5
  HhdmBegin <- MCHhdmBegin
  HhdmPages = 4
  VmBegin <- MCVmBegin
  VmEnd <- MCVmEnd
  Mmio <- MCMmio
  StackPages = 2
  UserStackTop <- MCUserStackTop
  Programs <- MCPrograms
  ReqSizes <- MCReqSizes
INVARIANT
  WritableSegments
CHECK_DEADLOCK FALSE
