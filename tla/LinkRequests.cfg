SPECIFICATION Spec
CONSTANTS
  a = a
  b = b
  x = x
  y = y
  z = z
  Node = {a, b}
  Alias = {x, y, z}
  AliasSeq <- MCAliasSeq
  Wait = 1
  Wrap = 8
  TxCap = 1
  RxCap = 1
  Everyone = Everyone
  ToolAlias = ToolAlias
  Asked = {Everyone, x}
  Requests = 1
  Uptime = {0}
  Overrun = FALSE
  None = None
INVARIANTS ClaimInv
PROPERTIES StaysUp ImplementsRegistry
CHECK_DEADLOCK FALSE
