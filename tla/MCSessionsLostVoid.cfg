CONSTANTS
  Session = {s1}
  Project = {p1}
  Request = {r1}
  Caller = {c1}
  NoSession = NoSession
  NoProject = NoProject
  EnforceLock = TRUE
  MaxAsks = 1
  MaxSends = 2
  MaxTurns = 3
  MaxStops = 2
  TornHandlers = TRUE
CHECK_DEADLOCK FALSE
SPECIFICATION Spec
INVARIANT OpenHasWaiter
