CONSTANTS
  Origin = {o1}
  NoOrigin = NoOrigin
  Holder = {h1}
  NoHolder = NoHolder
  MaxLinks = 2
  MaxClock = 2
  AccessTtl = 1
  RefreshTtls = {3}
  Grace = 1
  BoardTool = {board_list}
  OtherTool = {start_session}
  Supported = {"mcp", "board", "other"}
  Requests = {{"board"}}
  PendingTtl = 1
  CodeTtl = 1
  Limit = 2
  RegLimit = 1
  Window = 2
SPECIFICATION ClientSpec
CHECK_DEADLOCK FALSE
INVARIANT RetryRecovers
