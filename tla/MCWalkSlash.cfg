SPECIFICATION WalkSpec
CONSTANTS
  Chars <- MCChars
  Trees <- MCTrees
  Paths <- MCPaths
  Junk <- MCJunk
  MaxDepth = 4
INVARIANT
  SlashMayEnd
CHECK_DEADLOCK FALSE
