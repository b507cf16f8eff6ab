SPECIFICATION Spec
CONSTANTS
  a = a
  b = b
  x = x
  y = y
  z = z
  Node = {a, b}
  Alias = {x, y, z}
  AliasSeq <- MCAliasSeq
  Wait = 1
  Wrap = 8
  TxCap = 1
  RxCap = 1
  Everyone = Everyone
  ToolAlias = ToolAlias
  Asked = {Everyone, x}
  Requests = 0
  Uptime = {0}
  Overrun = FALSE
  None = None
PROPERTIES AMDBeforeInit
CHECK_DEADLOCK FALSE
