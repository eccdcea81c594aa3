CONSTANTS
  PoolSize = 22
  Base = 1
  SmallMax = 8
  SLI = 1
  UsedFlag = 64
  Request = {2, 5, 7}
  Boundary = {4}
  Owner = {t1, t2}
  BlkNum = 4
  TskLimit = 2
  IDRange = 256
SPECIFICATION Spec
SYMMETRY OwnerSymmetry
INVARIANTS
  HeapAgrees
  BlocksAreAccepted
  NoSpaceOverlooked
  UsedSizeAgrees
  BoxesAgree
PROPERTIES
  ImplementsHeap
  ImplementsBlockPool
