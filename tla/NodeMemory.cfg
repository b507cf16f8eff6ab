SPECIFICATION Spec
CONSTANTS
  nEvents = 2
  Taught = {t}
  NodeIDs = {OtherID}
  Counts = {0, 255}
  Editable <- AnyCell
  CountWrap = 256
  Torn = FALSE
  MaxOps = 6
  MyID = MyID
  Blank = Blank
  Zero = Zero
INVARIANTS TypeOK TagSound StoredEvents
CHECK_DEADLOCK FALSE
