SPECIFICATION Spec
CONSTANTS
  HM_DMA_BUF_SIZE = 3
  StopSteps = 3
  Commands = {"free", "smooth"}
  FixSteps <- NoMoves
  RampLimits <- Limits
  NewPositions <- Zero
  SettingFlags <- NoFlags
  Sensors = {}
  MaxTravel = 9
  LateTravel = 0
PROPERTY SmoothStopDecelerates
