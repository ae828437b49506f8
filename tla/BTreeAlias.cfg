SPECIFICATION AliasSpec
CONSTANTS
  Keys = {1, 2}
  Data = {a}
  DefaultData = a
  Multi = TRUE
  MaxSize = 8
  kNodeValues = 3
  CompareTo = FALSE
  FreedIsReused = FALSE
PROPERTY OwnValueInserted
VIEW View
CHECK_DEADLOCK FALSE
