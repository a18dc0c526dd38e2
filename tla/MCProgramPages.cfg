SPECIFICATION Spec
CONSTANTS
  Files <- MCFiles_
  Exports <- MCExports
  PAGE_SIZE = 4
  WINDOW = 200
  WINDOW_END = 360
  Strings <- MCStrings
  MAX_STRINGS = 2
  WORD = 2
  TOP_PAGE = 9
PROPERTIES
  TakesItsPages
CHECK_DEADLOCK FALSE
