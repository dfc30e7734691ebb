CONSTANTS
  h2 = h2
  Origin = {o1, o2}
  NoOrigin = NoOrigin
  Holder = {h1, h2}
  NoHolder = NoHolder
  MaxLinks = 3
  MaxClock = 5
  AccessTtl = 1
  RefreshTtls = {1, 3}
  Grace = 1
  BoardTool = {board_list}
  OtherTool = {start_session}
  Supported = {"mcp", "board", "other"}
  Requests = {{}, {"board"}, {"board", "other"}}
  PendingTtl = 1
  CodeTtl = 1
  Limit = 2
  RegLimit = 1
  Window = 2
  Key = {k1, k2}
  KeyName = {h1}
  NoName = NoName
SPECIFICATION AccessSpec
CHECK_DEADLOCK FALSE
CONSTRAINT Small
SYMMETRY Symmetric
INVARIANTS
  AccessTypeOK
  OneLiveRefresh
  TheftEndsChain
  CutOnlyIfShortened
  RetryIsHarmless
  OneChainPerConsent
  CallsAreCovered
  IdentityIsExclusive
  GuessesBounded
