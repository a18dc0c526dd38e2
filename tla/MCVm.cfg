SPECIFICATION FairSpec
CONSTANTS
  L <- MCL
  PageSize = 8
  ArenaBegin <- MCArenaBegin
  RamEnd <- MCRamEnd
  ArenaEnds = {8, 11, 14, 16, 19, 22, 25, 28, 31, 50}
  KernelText <- MCKernelText
  KernelPhys = 2
  KernelPages = 5
  HhdmBegin <- MCHhdmBegin
  HhdmPages = 4
  VmBegin <- MCVmBegin
  VmEnd <- MCVmEnd
  Mmio <- MCMmio
  StackPages = 2
  UserStackTop <- MCUserStackTop
  Programs <- MCPrograms
  ReqSizes <- MCReqSizes
INVARIANTS
  TypeOK
  TablesWellFormed
  NoSharing
  KernelPrivate
  GrantedStayMapped
  UserImageAccessible
PROPERTIES
  BootEnds
  ImplementsAddressSpace
CHECK_DEADLOCK FALSE
