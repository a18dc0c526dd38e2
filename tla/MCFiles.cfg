SPECIFICATION FairFilesSpec
CONSTANTS
  Chars <- MCChars
  Trees <- MCTrees
  Paths <- MCPaths
  Junk <- MCJunk
  MaxDepth = 3
  FD_MAX = 2
  GFID_MAX = 4
  RootChildren = 4
  CHILD_MAX = 1
  Majors <- MCMajors
  Fds <- MCFds
  Names <- MCNames
INVARIANTS
  FilesTypeOK
  OnlyMkdirUnmounted
  PanicsExplained
PROPERTIES
  ImplementsDescriptors
  CallsReturn
CHECK_DEADLOCK FALSE
