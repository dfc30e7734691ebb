CONSTANTS
  Session = {s1}
  Project = {p1}
  Request = {r1, r2}
  Caller = {c1, c2}
  NoSession = NoSession
  NoProject = NoProject
  EnforceLock = TRUE
  MaxAsks = 2
  MaxSends = 2
  MaxTurns = 3
  MaxStops = 2
  TornHandlers = TRUE
CHECK_DEADLOCK FALSE
SPECIFICATION FairSpec
INVARIANTS FinishedLeavesNothing OneBuildPerSession WaitingIsAnswerable
PROPERTIES
  SettledOnce StopIsFinal
  ExpiredSessionEnds EveryCancelReturns
