CHECK_DEADLOCK FALSE
SPECIFICATION StepsSpec
CONSTANTS
  Keys = {1}
  Data = {0}
  DefaultData = 0
  Multi = TRUE
  MaxSize = 99
  MaxFree = 15
  kNodeValues = 4
  CompareTo = FALSE
  Lengths = {40}
  MaxCalls = 1
INVARIANTS
  TypeOK
  AssertsHold
  NodesAttached
  Balanced
  NodesSized
  EdgesKnown
  NoneLeftEmpty
  CallsAreAPath
PROPERTY StepsMakeTheCall
VIEW StepsView
