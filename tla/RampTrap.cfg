SPECIFICATION Spec
CONSTANTS
  HM_DMA_BUF_SIZE = 100
  StopSteps = 100
  Drives <- SlowDrives
  Lengths <- TwoLengths
  Methods = {"TCurve"}
  CurveWhileBusy = FALSE
  StopWhileDecel = FALSE
INVARIANT SpeedLimit
