SPECIFICATION CallsSpec
CONSTANTS
  Keys = {1,2,3,4,5,6,7,8,9,10,11,12,13,14,15,16,17,18,19,20,21,22,23,24,25,26,27,28,29,30,31,32,33,34,35}
  Data = {0,1,2,3,4,5,6,7,8,9,10,11,12,13,14,15,16}
  DefaultData = 0
  Multi = FALSE
  MaxSize = 18
  MaxThrees = 15
  MaxFours = 16
  UniqueKeys = {1, 2, 3, 4, 5}
  MultiKeys = {1, 2}
  SmallData = {0, 1}
  MaxSmall = 5
  PairKeys = {1, 2, 3, 4}
  MaxPair = 4
  Length = 17
  MaxCalls = 1
  kNodeValues = 3
  CompareTo = FALSE
INVARIANTS
  AssertsHold
  MethodsHoldInShapes
  Verified
  TreesInOrder
  StatsMatchInShapes
  IterationWalksEntries
PROPERTY ImplementsSeq
VIEW CallsView
CHECK_DEADLOCK FALSE
