SPECIFICATION FairSpec
CONSTANTS
  n1 = n1
  n2 = n2
  n3 = n3
  Node = {n1, n2, n3}
  None = None
  Route <- MCRoute
  TxCap = 1
  Refusing = {n1, n3}
  LongNak = {n3}
  MaxSends = 2
  MaxFaults = 1
INVARIANTS TypeOK  OnceOnly AckMeansDelivered
PROPERTIES ReceptionEnds EverySendEnds
CHECK_DEADLOCK FALSE
