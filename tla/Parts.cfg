SPECIFICATION PartsSpec
CONSTANTS
  LowWater = 1
  HighWater = 2
  Capacity = 3
  Buffers = {b1, b2}
  Bytes = {x, y}
  Lengths = {0, 1, 2, 3, 4}
  WordSize = 2
  ReadSizes = {1, 2, 3}
  Chars = {32, 45, 49}
  BodyLengths = {0, 42, 1024, 1025}
  Lines = {0, 10, 999, 1024, 1025}
  SizeModulus = 1048576
  TargetNodeSizes = {4, 8, 20, 256, 263, 264, 271, 272, 520, 1000, 65551, 65552, 131088}
  ValueSizes = {1, 2, 9}
  AddressSpace = 1073741824
INVARIANTS
  TypeOK
  BodyFits
  FramedIsRecovered
  ReturnedIsClean
  ChosenTypeFits
  LeafIsOfTargetSize
PROPERTIES
  EmptiedIsRoomy
  ImplementsQueues
VIEW PartsView
