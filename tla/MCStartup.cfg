SPECIFICATION FairSpec
CONSTANTS
  Computers <- MCComputers
  PTABLE_LEN = 8
  HHDM_TABLES = 3
  SPACING = 1
  Garbage <- MCGarbage
  SIZE_FIELD = 4
  KERNEL_START_LOW = 4
  KERNEL_TEXT_PHYSICAL = 6
  KERNEL_END_PHYSICAL = 9
  EBDA_MAX = 3
  BIOS_BEGIN = 10
  BIOS_END = 14
  SLOTS = 3
  Faults <- MCFaults
  Calls <- MCCalls
  SYSCALL_MAX = 65535
  Ints <- MCInts
  Registrations <- MCRegistrations
INVARIANTS
  AddressesRight
  ArenaSound
  FirmwareRead
  PinsArrive
  InterruptedResumes
  PanicTellsTruth
  RunsUninterrupted
PROPERTIES
  Boots
  SyscallResumes
  InterruptsEnd
CHECK_DEADLOCK FALSE
