SPECIFICATION Spec
CONSTANTS
  Clients = {c1, c2, c3}
  NoClient = none
  MaxStops = 2
INVARIANT AcceptOutstanding
CHECK_DEADLOCK FALSE
