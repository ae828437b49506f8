SPECIFICATION PairSpec
CONSTANTS
  Keys = {1, 2, 3, 4}
  Data = {a, b}
  DefaultData = a
  Multi = FALSE
  MaxSize = 4
INVARIANTS
  TypeOK
  InOrder
  NoDuplicateKeys
PROPERTIES
  ImplementsPromise
  IndexImplementsPromise
VIEW View
