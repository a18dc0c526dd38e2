SPECIFICATION KmallocSpec
CONSTANTS
  PageSize = 3
  VmBegin = 8
  VmEnd = 23
  Sizes <- MCSizes
  PageCounts <- MCPageCounts
INVARIANTS
  TypeOK
  Disjoint
PROPERTY
  ImplementsHeap
