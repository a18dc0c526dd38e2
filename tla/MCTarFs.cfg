SPECIFICATION FairSpec
CONSTANTS
  Boots <- MCBoots
  BLOCK = 4
  ROOT_MAX = 5
  CHILD_MAX = 3
  Ranges <- MCRanges
  MaxCalls = 2
INVARIANTS
  NodesAreEntries
  AccessesStayInFile
PROPERTIES
  WholeTreeMounted
CHECK_DEADLOCK FALSE
