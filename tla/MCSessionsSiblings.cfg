CONSTANTS
  Session = {s1}
  Project = {p1}
  Request = {r1, r2}
  Caller = {c1}
  NoSession = NoSession
  NoProject = NoProject
  EnforceLock = TRUE
  MaxAsks = 2
  MaxSends = 2
  MaxTurns = 3
  MaxStops = 0
  TornHandlers = FALSE
CHECK_DEADLOCK FALSE
SPECIFICATION Spec
INVARIANT WaiterHasOpen
