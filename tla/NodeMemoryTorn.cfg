SPECIFICATION Spec
CONSTANTS
  nEvents = 2
  Taught = {t}
  NodeIDs = {OtherID}
  Counts = {0, 255}
  Editable <- UserCells
  CountWrap = 256
  Torn = TRUE
  MaxOps = 6
  MyID = MyID
  Blank = Blank
  Zero = Zero
INVARIANT TagSound
CHECK_DEADLOCK FALSE
