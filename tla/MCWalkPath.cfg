SPECIFICATION FairWalkSpec
CONSTANTS
  Chars <- MCChars
  Trees <- MCTrees
  Paths <- MCPaths
  Junk <- MCJunk
  MaxDepth = 4
INVARIANTS
  WalkTypeOK
  NamedIsFound
  OnlyNamedIsFound
PROPERTY
  WalkEnds
CHECK_DEADLOCK FALSE
