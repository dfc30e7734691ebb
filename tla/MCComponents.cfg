CONSTANTS
  MaxInstr = 3
  Interrupter = {i1}
  Disposer = {d1, d2}
  MaxSent = 3
  ToolUse = {t1}
  CallOf <- MCCall
  NoCall = NoCall
  ClaudeInterrupter = {j1}
  ClaudeDisposer = {e1, e2}
  OutsideRead = FALSE
  OutsideWrite = FALSE
  BoardCall = {b1, b2}
  BoardWrite = {b1}
  NodeCount = 2
  BusyRetries = 1
  DownCache = TRUE
  MaxEpoch = 2
  BoardRequest <- MCRequest
  MaxRequests = 2
  BoardSession = {"p", "q"}
  AgentOf <- MCAgentOf
  Token = {"ta", "tb"}
  OwnerOf <- MCOwnerOf
  NoToken = NoToken
  AllowedProject = {"listed"}
  OtherProject = {"other"}
  Job = {"j"}
  ProjectOf <- MCProjectOf
  RatePerMinute = 2
  MaxKeys = 1
  Reader = {c1, c2, c3}
  NoRead = NoRead
  Provider = {"memory", "machines"}
  Order <- MCOrder
  Section <- MCSection
  Honours = {"memory"}
  Kept = {"memory", "machines"}
  Healthy = {"memory"}
  Unknown = 0
  Assembly = {a1, a2}
  Focus = {"f"}
  TokenBudget = {6, 9}
  Concurrency = 1
  CacheLimit = 1
  NoticeHead = 4
  NoticeLine = 4
SPECIFICATION ComponentsSpec
CHECK_DEADLOCK FALSE
INVARIANTS
  ComponentsTypeOK
  OneChildAtATime
  InputInOrder
  CallsAreSanctioned
  WriteAppliedOnce
  NoStepBack
  CredentialIsTheAgents
  WorkIsTheirs
  AnswerIsFresh
  WaitsForARunningRead
  NeverServedUp
  FitsButForBreaks
PROPERTIES
  ImplementsTurnQueue
  StopEndsChild
  EveryStopReturns
  CallReturns
  AssemblyReturns
