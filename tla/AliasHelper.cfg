SPECIFICATION Spec
CONSTANTS
  a = a
  b = b
  Board = {a, b}
  None = None
  Slots = 5
  Nodes <- MCNodes
  Seed <- MCSeed
  Draw <- MCDraw
  TxCap = 1
  RxCap = 1
  MaxAsks = 1
SYMMETRY Symmetry
INVARIANTS TypeOK OwnAlias NoSilentDuplicate
