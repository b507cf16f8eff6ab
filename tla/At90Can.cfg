SPECIFICATION FairSpec
CONSTANTS
  Frame = {f1, f2}
  None = None
  TxSize = 2
  RxSize = 2
INVARIANTS TypeOK TransmitterRuns SoundUnlessTorn
PROPERTIES TxImplementsFifo RxImplementsFifo SpinEnds
