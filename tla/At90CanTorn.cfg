SPECIFICATION FairSpec
CONSTANTS
  Frame = {f1, f2}
  None = None
  TxSize = 1
  RxSize = 3
INVARIANTS QueuedIsSent
