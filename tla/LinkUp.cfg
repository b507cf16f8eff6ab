SPECIFICATION LossSpec
CONSTANTS
  a = a
  b = b
  w = w
  x = x
  y = y
  z = z
  Node = {a, b}
  Alias = {w, x, y, z}
  AliasSeq <- MCAliasSeq
  Wait = 1
  Wrap = 8
  TxCap = 1
  RxCap = 1
  Everyone = Everyone
  ToolAlias = ToolAlias
  Asked = {w}
  Requests = 1
  Uptime = {0}
  Overrun = TRUE
  None = None
INVARIANTS TypeOK FourLostForDuplicate
PROPERTIES EventuallyUp
CHECK_DEADLOCK FALSE
