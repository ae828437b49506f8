SPECIFICATION NodeSpec
CONSTANTS
  Clients = {c1, c2}
  NoClient = none
  MaxStops = 1
  Dials = {d1, d2}
  Locals = {e1, listening}
  Remotes = {r1, r2}
  Listening = listening
  Unbound = unbound
INVARIANT FailedIsNotPooled
CHECK_DEADLOCK FALSE
