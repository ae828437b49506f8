SPECIFICATION Spec
CONSTANTS
  Keys = {1, 2, 3}
  kNodeValues = 5
INVARIANTS
  FindsBound
  ExactIfFound
PROPERTY Terminates
CHECK_DEADLOCK FALSE
