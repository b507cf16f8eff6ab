SPECIFICATION LoopFair
CONSTANTS
  s = s
  t1 = t1
  t2 = t2
  t3 = t3
  Node = {s, t1, t2, t3}
  Server = s
  None = None
  Route = {}
  TxCap = 1
  Refusing = {}
  LongNak = {}
  Wants <- MCWants
  SniiFrames = 2
  MaxSends = 3
  MaxAsks = 3
  MaxFaults = 0
INVARIANTS AnswersFit
PROPERTIES NoGap EveryoneAnswered
CHECK_DEADLOCK FALSE
