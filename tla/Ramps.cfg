SPECIFICATION Spec
CONSTANTS
  HM_DMA_BUF_SIZE = 100
  StopSteps = 100
  Drives <- FastDrives
  Lengths <- SomeLengths
  Methods = {"TCurve", "sCurve"}
  CurveWhileBusy = FALSE
  StopWhileDecel = FALSE
INVARIANT StopsWhereExpected
INVARIANT SpeedLimit
INVARIANT EndsSlow
INVARIANT FullSpeedOnTime
PROPERTY OneHill
